----------------------------- MODULE MCStorage -----------------------------
(***************************************************************************)
(* Small instances of Storage: which jobs meet.                            *)
(***************************************************************************)
EXTENDS Storage, TLC

CONSTANTS u1, u2, u3,
          get1, get2, read1, upd, sav, str, cpy, dl, dls, del1, add2, unc, mov, cln

MCKind == get1 :> "get" @@ get2 :> "get" @@ read1 :> "read"
          @@ upd :> "update" @@ sav :> "save" @@ str :> "store" @@ cpy :> "copy"
          @@ dl :> "del" @@ dls :> "delUuids" @@ del1 :> "delete"
          @@ add2 :> "add" @@ unc :> "uncache" @@ mov :> "move" @@ cln :> "cleanup"
MCOf == [j \in Job |-> IF j \in {get2, add2, unc} THEN u2
                       ELSE IF j = sav THEN u3 ELSE u1]
MCTarget == [j \in Job |-> u3]
MCSize == [j \in Job |-> IF j = upd THEN 2 ELSE 1]
Threes == {S \in SUBSET Job : Cardinality(S) = 3}
=============================================================================
