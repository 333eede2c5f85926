------------------------------- MODULE Lists -------------------------------
(***************************************************************************)
(* Lists of ids, which the kernel keeps as std::list and std::deque.       *)
(***************************************************************************)
EXTENDS Naturals, Sequences

ElementsOf(us) == {us[i] : i \in DOMAIN us}

\* The entries of us that are in S, in their order.
Kept(us, S) ==
    LET kept[n \in 0 .. Len(us)] ==
            IF n = 0 THEN <<>>
            ELSE IF us[n] \in S THEN Append(kept[n - 1], us[n]) ELSE kept[n - 1]
    IN kept[Len(us)]

\* The first n entries, and those after them.
Front(us, n) == SubSeq(us, 1, n)
Behind(us, n) == SubSeq(us, n + 1, Len(us))
=============================================================================
