----------------------------- MODULE KernelSave -----------------------------
(***************************************************************************)
(* How the kernel (src/src/metax/kernel.cpp) saves and updates data for    *)
(* its clients: the data is cut into pieces, every piece is a unit of its  *)
(* own that is stored and copied to peers, the master object that lists    *)
(* the pieces is saved when each of them has one copy, and the client is   *)
(* answered when the master has one.                                       *)
(*                                                                         *)
(* The kernel is one record and a handler an operator from record to       *)
(* record, so that what it calls is composed as in the code.  Each action  *)
(* is the handling of one input.  The key manager and the storage writer   *)
(* answer in the order they were asked; a tender of the router brings any  *)
(* number of confirmations until it is cancelled or cleared (see Router).  *)
(***************************************************************************)
EXTENDS Naturals, FiniteSets, Lists

CONSTANTS
    Save,        \* the save and update requests of clients
    Pieces,      \* Pieces[r]: the pieces its data is cut into, 0 if it is small
    Local,       \* Local[r]: should_save_in_local of its option
    Enc,         \* Enc[r]: not encrypted, with a new key, or with the kept key
    Fits,        \* the saves the storage has room for
    StorageFails,\* TRUE: writing a file may also fail for another reason
    CopyCounts,  \* the values of m_data_copy_count, a configured number
    MaxStorage,  \* max_storage_input_cnt
    MaxRouter,   \* max_router_save_input_size, in units of one size
    None         \* no entry in m_save_units

\* A piece is only cut when there is more than one.
ASSUME SaveAssumption ==
    /\ IsFiniteSet(Save) /\ Fits \subseteq Save
    /\ Pieces \in [Save -> Nat \ {1}]
    /\ Local \in [Save -> BOOLEAN]
    /\ Enc \in [Save -> {"none", "new", "kept"}]
    /\ StorageFails \in BOOLEAN
ASSUME LimitAssumption ==
    /\ CopyCounts \subseteq Nat \ {0}
    /\ MaxStorage \in Nat \ {0} /\ MaxRouter \in Nat \ {0}

VARIABLES
    k,       \* the kernel, what it posted to its neighbours, and its answers
    copies,  \* copies[u]: how many nodes, this one included, stored the unit
    failed   \* TRUE once the storage has failed to write a file

vars == <<k, copies, failed>>

\* Units are named by their save and their place in it; 0 is the master.
PiecesOf(r) == {r} \X (1 .. Pieces[r])
Master(r) == <<r, 0>>
Unit == UNION {PiecesOf(r) \cup {Master(r)} : r \in Save}
IsMaster(u) == u[2] = 0
Main(u) == u[1]

\* No id is given twice.
ASSUME IdAssumption == Save \cap Unit = {}

\* The fields of save_unit the handlers act on.
SaveUnit == [bkp : Nat, backup : BOOLEAN]
ASSUME NoneAssumption == None \notin SaveUnit

\* Work of the key manager: a new key of a save, its encrypted master, or an
\* encrypted piece.
KeyJob == [job : {"key", "master"}, id : Save] \cup [job : {"unit"}, id : Unit]

Kernel ==
    [copyCount : CopyCounts,             \* m_data_copy_count
     requests : SUBSET (Save \cup Unit), \* m_requests; of a unit: its encryption
     ims : SUBSET Save,                  \* m_ims_req_ids
     local : [Save -> BOOLEAN],          \* request::local
     units : [Save -> SUBSET Unit],      \* request::units
     backup : [Save -> SUBSET (Save \cup Unit)], \* request::backup_units
     saved : [Save -> SUBSET Unit],      \* request::saved_units
     unit : [Unit -> SaveUnit \cup {None}], \* m_save_units
     pending : Seq(Unit),                \* m_pending_save_requests
     pendingRouter : Seq(Unit),          \* m_pending_router_save_reqs
     storageCnt : Nat,                   \* m_storage_input_cnt
     routerSize : Nat,                   \* m_router_save_input_size
     key : Seq(KeyJob),                  \* asked of the key manager
     storage : Seq(Unit),                \* asked of the storage writer
     tenders : SUBSET Unit,              \* open tenders of the router
     deleted : SUBSET Unit,              \* pieces whose deletion was asked for
     garbled : SUBSET Unit,              \* sent with other data than their own
     told : [Save -> Seq({"saved", "failed"})], \* answers to the clients
     aborted : BOOLEAN]                  \* a poco_assert has failed

Init ==
    /\ \E n \in CopyCounts :
       k = [copyCount |-> n, requests |-> {}, ims |-> {}, local |-> Local,
            units |-> [r \in Save |-> {}], backup |-> [r \in Save |-> {}],
            saved |-> [r \in Save |-> {}], unit |-> [u \in Unit |-> None],
            pending |-> <<>>, pendingRouter |-> <<>>,
            storageCnt |-> 0, routerSize |-> 0,
            key |-> <<>>, storage |-> <<>>, tenders |-> {},
            deleted |-> {}, garbled |-> {},
            told |-> [r \in Save |-> <<>>], aborted |-> FALSE]
    /\ copies = [u \in Unit |-> 0]
    /\ failed = FALSE

-----------------------------------------------------------------------------
(* What the handlers share *)

\* F(s); written so that TLC computes s once, however often F uses it.
Then(s, F(_)) == CHOOSE t \in {F(x) : x \in {s}} : TRUE

Known(s, u) == s.unit[u] # None
Require(holds, s) == [s EXCEPT !.aborted = @ \/ ~ holds]

\* The counters stop at 0 and an error is logged.
Reduced(n, by) == IF by > n THEN 0 ELSE n - by

AskKey(s, job, id) == [s EXCEPT !.key = Append(@, [job |-> job, id |-> id])]

RemoveFromBackup(s, r, x) ==
    LET rest == s.backup[r] \ {x}
    IN [s EXCEPT !.backup[r] = rest,
                 !.requests = IF rest = {} THEN @ \ {r} ELSE @]

ForgetUnit(s, u) == [s EXCEPT !.unit[u] = None]

\* Encryption of a unit: a request with the unit's id, and a job.
ToEncrypt == {u \in Unit : Enc[Main(u)] # "none"}
Encrypted(us) == Kept(us, ToEncrypt)
Plain(us) == Kept(us, Unit \ ToEncrypt)
EncryptUnits(s, us) ==
    [s EXCEPT !.requests = @ \cup ElementsOf(us),
              !.key = @ \o [i \in DOMAIN us |-> [job |-> "unit", id |-> us[i]]]]

\* How many of the units a limit lets pass.
Room(max, used, us) ==
    LET free == IF used < max THEN max - used ELSE 0
    IN IF free < Len(us) THEN free ELSE Len(us)

\* Units that are gone are dropped from the lists.
Alive(s, us) == Kept(us, {u \in Unit : Known(s, u)})

ProcessStoragePending(s) ==
    LET us == Alive(s, s.pending)
        n == IF Len(s.pendingRouter) < MaxStorage
             THEN Room(MaxStorage, s.storageCnt, us) ELSE 0
        taken == Front(us, n)
        ok == \A u \in ElementsOf(taken) : s.local[Main(u)]
        posted == [s EXCEPT !.pending = Behind(us, n),
                            !.storageCnt = @ + n,
                            !.storage = @ \o Plain(taken)]
    IN Require(ok, EncryptUnits(posted, Encrypted(taken)))

\* handle_piece_for_backup: a unit that is stored here, or is not encrypted,
\* goes to the router at once; one that is not stored here is read again from
\* the client's data, the master too.
ProcessRouterPending(s) ==
    LET us == Alive(s, s.pendingRouter)
        n == Room(MaxRouter, s.routerSize, us)
        taken == Front(us, n)
        away == Kept(taken, {u \in Unit : ~ s.local[Main(u)]})
        here == Kept(taken, {u \in Unit : s.local[Main(u)]})
        posted ==
            [s EXCEPT !.pendingRouter = Behind(us, n),
                      !.routerSize = @ + n,
                      !.unit = [u \in Unit |-> IF u \in ElementsOf(taken)
                                               THEN [@[u] EXCEPT !.backup = TRUE]
                                               ELSE @[u]],
                      !.tenders = @ \cup ElementsOf(here \o Plain(away)),
                      !.garbled = @ \cup {u \in ElementsOf(away) : IsMaster(u)}]
    IN EncryptUnits(posted, Encrypted(away))

\* Mutant: only the units for the storage are tried again.
ProcessStorageOnly(s) == Then(s, ProcessStoragePending)

ProcessPending(s) == Then(Then(s, ProcessStoragePending), ProcessRouterPending)

-----------------------------------------------------------------------------
(* A save begins *)

\* prepare_unit_for_save and what save_master_object does with the master.
SaveMaster(s, r) ==
    LET u == Master(r)
        ready == [s EXCEPT !.unit[u] = [bkp |-> 0, backup |-> ~ s.local[r]],
                           !.units[r] = @ \cup {u}]
    IN IF s.local[r]
       THEN [ready EXCEPT !.storageCnt = @ + 1, !.storage = Append(@, u)]
       ELSE [ready EXCEPT !.routerSize = @ + 1, !.tenders = @ \cup {u}]

StartMaster(s, r) ==
    IF Enc[r] = "none" THEN SaveMaster(s, r) ELSE AskKey(s, "master", r)

\* Every piece is pushed to the front of its list.
PreparePieces(s, r) ==
    LET n == Pieces[r]
        list == [i \in 1 .. n |-> <<r, n + 1 - i>>]
        ready == [s EXCEPT !.unit = [u \in Unit |->
                                IF u \in PiecesOf(r)
                                THEN [bkp |-> 0, backup |-> FALSE] ELSE @[u]],
                           !.units[r] = @ \cup PiecesOf(r),
                           !.backup[r] = @ \cup PiecesOf(r)]
    IN IF s.local[r] THEN [ready EXCEPT !.pending = list \o @]
                     ELSE [ready EXCEPT !.pendingRouter = list \o @]

SaveData(s, r) ==
    IF Pieces[r] = 0 THEN StartMaster(s, r)
                     ELSE ProcessPending(PreparePieces(s, r))

\* Mutant: process_ims_save_request does not add the id.
NoBackupUnits(r) == {}

\* backup_units holds the id of the save itself until its master is backed up.
FirstBackupUnits(r) == {r}

Accept(s, r) ==
    LET ready == [s EXCEPT !.requests = @ \cup {r}, !.ims = @ \cup {r},
                           !.backup[r] = FirstBackupUnits(r)]
    IN IF Enc[r] = "new" THEN AskKey(ready, "key", r) ELSE SaveData(ready, r)

-----------------------------------------------------------------------------
(* A unit is confirmed *)

Answer(s, r, answer) ==
    Require(r \in s.ims, [s EXCEPT !.told[r] = Append(@, answer),
                                  !.ims = @ \ {r}])

\* Mutant: off by one.
MostPiecesSaved(units) == Cardinality(units) <= 1

AllPiecesSaved(units) == units = {}

\* Mutant: saved_units is not kept.
SavedWithout(saved, u) == saved

SavedWith(saved, u) == saved \cup {u}

ConfirmPiece(s, u) ==
    LET r == Main(u)
        rest == s.units[r] \ {u}
        noted == [s EXCEPT !.units[r] = rest, !.saved[r] = SavedWith(@, u)]
    IN IF AllPiecesSaved(rest) THEN StartMaster(noted, r) ELSE noted

\* Of the only copy: nothing is left to do for the unit.
CleanUp(s, u) ==
    LET r == Main(u)
    IN ForgetUnit(
        IF s.local[r]
        THEN [s EXCEPT !.storageCnt = Reduced(@, 1),
                       !.requests = IF IsMaster(u) THEN @ \ {r} ELSE @]
        ELSE RemoveFromBackup([s EXCEPT !.routerSize = Reduced(@, 1),
                                        !.tenders = @ \ {u}], r, u), u)

FirstBackup(s, u) ==
    LET confirmed == IF IsMaster(u) THEN Answer(s, Main(u), "saved")
                                    ELSE ConfirmPiece(s, u)
    IN IF s.copyCount = 1 THEN CleanUp(confirmed, u)
       ELSE IF s.local[Main(u)]
       THEN [confirmed EXCEPT !.storageCnt = Reduced(@, 1),
                              !.pendingRouter = <<u>> \o @]
       ELSE confirmed

LastBackup(s, u) ==
    ForgetUnit(RemoveFromBackup([s EXCEPT !.routerSize = Reduced(@, 1),
                                          !.tenders = @ \ {u}], Main(u), u), u)

LastCopy(s, n) == n = s.copyCount

Confirm(s, u) ==
    LET n == s.unit[u].bkp + 1
        counted == [s EXCEPT !.unit[u].bkp = n]
    IN ProcessPending(IF n = 1 THEN FirstBackup(counted, u)
                      ELSE IF LastCopy(s, n) THEN LastBackup(counted, u)
                      ELSE counted)

-----------------------------------------------------------------------------
(* A unit has failed; max_save_fail_count is 1 *)

\* Mutant: the units of pieces stay.
LostMaster(s, r) == {u \in s.units[r] : IsMaster(u)}

LostUnits(s, r) == s.units[r]

\* Nothing of the save is stored any more; units that have a copy already stay.
Abandon(s, r) ==
    LET lost == LostUnits(s, r)
        known == {u \in lost : Known(s, u)}
        sent == Cardinality({u \in known : s.unit[u].backup})
    IN Require(known = lost,
         Answer([s EXCEPT !.unit = [u \in Unit |-> IF u \in lost THEN None ELSE @[u]],
                          !.routerSize = Reduced(@, sent),
                          !.deleted = @ \cup s.saved[r]], r, "failed"))

\* Mutant: the size is not given back.
StopBackupKeepsSize(s, u) ==
    LET r == Main(u)
    IN ForgetUnit(RemoveFromBackup(s, r, IF IsMaster(u) THEN r ELSE u), u)

\* The copies there are have to do.
StopBackup(s, u) ==
    LET r == Main(u)
    IN ForgetUnit([RemoveFromBackup(s, r, IF IsMaster(u) THEN r ELSE u)
                    EXCEPT !.routerSize = Reduced(@, 1)], u)

Fail(s, u) ==
    ProcessPending(IF s.unit[u].bkp = 0 THEN Abandon(s, Main(u)) ELSE StopBackup(s, u))

\* The storage is full: from now on the save is sent to peers only.
NoSpace(s, u) ==
    ProcessPending(Require(s.unit[u].bkp = 0,
        [s EXCEPT !.local[Main(u)] = FALSE,
                  !.storageCnt = Reduced(@, 1),
                  !.pendingRouter = <<u>> \o @]))

-----------------------------------------------------------------------------
(* The inputs of the kernel *)

\* A client's save, or the end of the get that precedes an update.
ImsSave(r) ==
    /\ ~ k.aborted
    /\ r \notin k.ims /\ k.told[r] = <<>>
    /\ k' = Accept(k, r)
    /\ UNCHANGED <<copies, failed>>

\* A unit that is gone keeps its encryption request in m_requests.
UnitEncrypted(s, u) ==
    LET r == Main(u)
        sent == IF s.local[r] THEN [s EXCEPT !.storage = Append(@, u)]
                              ELSE [s EXCEPT !.tenders = @ \cup {u}]
    IN Require(u \in s.requests,
         IF ~ Known(s, u) THEN s
         ELSE Require(~ IsMaster(u), [sent EXCEPT !.requests = @ \ {u}]))

KeyAnswer ==
    /\ ~ k.aborted /\ k.key # <<>>
    /\ LET j == Head(k.key)
           s == [k EXCEPT !.key = Tail(@)]
       IN k' = CASE j.job = "key" -> Require(j.id \in s.requests, SaveData(s, j.id))
                 [] j.job = "master" -> Require(j.id \in s.requests, SaveMaster(s, j.id))
                 [] j.job = "unit" -> UnitEncrypted(s, j.id)
    /\ UNCHANGED <<copies, failed>>

\* The storage writer is done with the oldest of its units, which the kernel
\* may have forgotten.
StorageDone(u) ==
    /\ ~ k.aborted /\ k.storage # <<>>
    /\ u = Head(k.storage)

WithoutOldest == [k EXCEPT !.storage = Tail(@)]

StorageConfirm(u) ==
    /\ StorageDone(u) /\ Main(u) \in Fits
    /\ k' = IF Known(k, u) THEN Confirm(WithoutOldest, u) ELSE WithoutOldest
    /\ copies' = [copies EXCEPT ![u] = @ + 1]
    /\ UNCHANGED failed

StorageNoSpace(u) ==
    /\ StorageDone(u) /\ Main(u) \notin Fits
    /\ k' = IF Known(k, u) THEN NoSpace(WithoutOldest, u) ELSE WithoutOldest
    /\ UNCHANGED <<copies, failed>>

StorageFailed(u) ==
    /\ StorageDone(u) /\ StorageFails
    /\ k' = IF Known(k, u) THEN Fail(WithoutOldest, u) ELSE WithoutOldest
    /\ failed' = TRUE
    /\ UNCHANGED copies

\* A peer has stored the unit; of a unit that is gone the tender is cleared.
RouterConfirm(u) ==
    /\ ~ k.aborted /\ u \in k.tenders
    /\ k' = IF Known(k, u) THEN Confirm(k, u) ELSE [k EXCEPT !.tenders = @ \ {u}]
    /\ copies' = [copies EXCEPT ![u] = @ + 1]
    /\ UNCHANGED failed

\* The tender has expired or no peer is left to ask.
RouterCancel(u) ==
    /\ ~ k.aborted /\ u \in k.tenders
    /\ LET s == [k EXCEPT !.tenders = @ \ {u}]
       IN k' = IF Known(s, u) THEN Fail(s, u) ELSE s
    /\ UNCHANGED <<copies, failed>>

Next ==
    \/ \E r \in Save : ImsSave(r)
    \/ KeyAnswer
    \/ \E u \in Unit :
        \/ StorageConfirm(u) \/ StorageNoSpace(u) \/ StorageFailed(u)
        \/ RouterConfirm(u) \/ RouterCancel(u)

\* The key manager and the storage answer what they are asked; a tender that
\* brings no more answers expires in the end.
Fairness ==
    /\ WF_vars(KeyAnswer)
    /\ WF_vars(\E u \in Unit : StorageConfirm(u) \/ StorageNoSpace(u))
    /\ WF_vars(\E u \in Unit : RouterCancel(u))

Spec == Init /\ [][Next]_vars /\ Fairness

-----------------------------------------------------------------------------
(* Correctness *)

\* The kernel and what is observed of its units keep their types.
TypeOK ==
    /\ k.requests \subseteq Save \cup Unit /\ k.ims \subseteq Save
    /\ k.local \in [Save -> BOOLEAN]
    /\ k.units \in [Save -> SUBSET Unit]
    /\ k.backup \in [Save -> SUBSET (Save \cup Unit)]
    /\ k.saved \in [Save -> SUBSET Unit]
    /\ k.copyCount \in CopyCounts
    /\ k.unit \in [Unit -> SaveUnit \cup {None}]
    /\ \A u \in Unit : Known(k, u) => k.unit[u].bkp <= k.copyCount
    /\ k.pending \in Seq(Unit) /\ k.pendingRouter \in Seq(Unit)
    /\ k.storageCnt \in Nat /\ k.routerSize \in Nat
    /\ k.key \in Seq(KeyJob) /\ k.storage \in Seq(Unit)
    /\ k.tenders \subseteq Unit
    /\ k.deleted \subseteq Unit /\ k.garbled \subseteq Unit
    /\ k.told \in [Save -> Seq({"saved", "failed"})]
    /\ k.aborted \in BOOLEAN
    /\ copies \in [Unit -> Nat] /\ failed \in BOOLEAN

\* The types hold, and no poco_assert of the save handlers fails, which would
\* abort the process: no client is answered twice, no answer of the key manager
\* finds its request gone, no unit of a failed save is missing.
NoAbort == TypeOK /\ ~ k.aborted

\* save_unit::main_request is a plain pointer into m_requests: while a unit is
\* in m_save_units the request it belongs to is not erased.
UnitsHaveRequests ==
    \A u \in Unit : Known(k, u) => Main(u) \in k.requests

\* A client that is told its data is saved can rely on it: the master and every
\* piece have been stored somewhere, and none has been deleted again.  The
\* master of a save the storage had no room for may hold other data.
SuccessMeansSaved ==
    \A r \in Save : k.told[r] = <<"saved">> =>
        \A u \in PiecesOf(r) \cup {Master(r)} :
            /\ copies[u] > 0 /\ u \notin k.deleted
            /\ r \in Fits => u \notin k.garbled

\* m_router_save_input_size is what is on its way to peers, through the
\* failures of units, of whole saves and the saves the storage has no room for.
RouterAccount ==
    k.routerSize = Cardinality({u \in Unit : Known(k, u) /\ k.unit[u].backup})

\* When a save fails, every piece that has been stored until then is deleted
\* (process_not_backed_up_save_unit).
FailureDeletesPieces ==
    [][\A r \in Save : k'.told[r] = <<"failed">> /\ k.told[r] = <<>> =>
          \A u \in PiecesOf(r) : copies[u] > 0 => u \in k'.deleted]_vars

\* Every client gets its answer, however the limits make units wait for each
\* other, unless the storage has failed to write a file: the place of a piece
\* that failed, or was given up with it, is never freed.
EverySaveAnswered ==
    \A r \in Save : r \in k.ims ~> (k.told[r] # <<>> \/ failed)
=============================================================================
