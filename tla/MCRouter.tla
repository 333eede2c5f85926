------------------------------ MODULE MCRouter ------------------------------
(***************************************************************************)
(* Small networks for Router: who is connected to whom, who asks for what. *)
(***************************************************************************)
EXTENDS Router

CONSTANTS A, B, C, D, E, t1, t2

Line5 == {<<A, B>>, <<B, C>>, <<C, D>>, <<D, E>>}
Square == {<<A, B>>, <<A, C>>, <<B, D>>, <<C, D>>}
Kite == Square \cup {<<B, C>>}

AskedByA == [t \in Tender |-> A]
AskedByAE == [t \in Tender |-> IF t = t1 THEN A ELSE E]

HeldByCD == [t \in Tender |-> {C, D}]
HeldByC == [t \in Tender |-> {C}]
FoundAtD == [t \in Tender |-> IF t = t1 THEN {D} ELSE {C, D}]

AllGet == [t \in Tender |-> "get"]
FindAndNotify == [t \in Tender |-> IF t = t1 THEN "find" ELSE "notify"]
FindAndSave == [t \in Tender |-> IF t = t1 THEN "find" ELSE "save"]
=============================================================================
