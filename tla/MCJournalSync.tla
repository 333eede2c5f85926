--------------------------- MODULE MCJournalSync ---------------------------
(* An instance of JournalSync: two devices of different sync classes. *)
EXTENDS JournalSync, TLC

CONSTANTS a, b, u

\* b asks the first time that they are connected, a the second time.
BFirst == {[by |-> a, of |-> b, n |-> 2], [by |-> b, of |-> a, n |-> 1]}
Classes == (a :> 1) @@ (b :> 0)
=============================================================================
