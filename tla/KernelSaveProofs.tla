-------------------------- MODULE KernelSaveProofs --------------------------
(***************************************************************************)
(* Proofs about KernelSave, for any saves, pieces and limits.              *)
(***************************************************************************)
EXTENDS KernelSave, ListProofs

\* The master and the pieces of r.
UnitsOf(r) == PiecesOf(r) \cup {Master(r)}

\* The key manager has been asked for a job and has not answered.
Job(what, x) == [job |-> what, id |-> x]
Asked(s, what, x) == Job(what, x) \in ElementsOf(s.key)

\* The saves the storage has no room for are small and not encrypted.  For the
\* others the code fails an assertion: the master is read again as a piece and
\* encrypted (run kernel_full), and the pieces that wait for the storage are no
\* longer to be saved here (process_storage_pending_save_requests).
OnlySmallPlainRefused ==
    \A r \in Save \ Fits : Local[r] => Pieces[r] = 0 /\ Enc[r] = "none"

\* No list, no neighbour and no tender has the unit.
Nowhere(s, u) ==
    /\ u \notin ElementsOf(s.pending) /\ u \notin ElementsOf(s.pendingRouter)
    /\ u \notin ElementsOf(s.storage) /\ u \notin s.tenders
    /\ ~ Asked(s, "unit", u)

\* A unit is in one place at a time, and there only once.
OnePlace(s) ==
    /\ Once(s.pending) /\ Once(s.pendingRouter) /\ Once(s.storage) /\ Once(s.key)
    /\ \A u \in Unit :
        /\ u \in ElementsOf(s.pending) =>
              u \notin ElementsOf(s.pendingRouter) /\ u \notin ElementsOf(s.storage)
              /\ u \notin s.tenders /\ ~ Asked(s, "unit", u)
        /\ u \in ElementsOf(s.pendingRouter) =>
              u \notin ElementsOf(s.storage) /\ u \notin s.tenders /\ ~ Asked(s, "unit", u)
        /\ u \in ElementsOf(s.storage) => u \notin s.tenders /\ ~ Asked(s, "unit", u)
        /\ u \in s.tenders => ~ Asked(s, "unit", u)

\* A client is answered once, and not while its id is in m_ims_req_ids.
Answers(s) ==
    \A r \in Save : /\ s.told[r] \in {<<>>, <<"saved">>, <<"failed">>}
                    /\ r \in s.ims => s.told[r] = <<>>

\* Nothing has been done for the save r but to accept it.
Untouched(s, c, r) ==
    /\ s.units[r] = {} /\ s.saved[r] = {} /\ s.local[r] = Local[r]
    /\ ~ Asked(s, "master", r)
    /\ \A u \in UnitsOf(r) : ~ Known(s, u) /\ Nowhere(s, u) /\ c[u] = 0

\* Before its key has come, and before the client asks, a save is untouched; c
\* counts the copies of the units.
Begun(s, c) ==
    \A r \in Save :
        /\ Asked(s, "key", r) => r \in s.ims /\ Untouched(s, c, r)
        /\ r \notin s.ims /\ s.told[r] = <<>> => Untouched(s, c, r)

\* The entries of m_requests and of backup_units that the units, the clients and
\* the key manager still need are there.
Requests(s) ==
    /\ \A r \in s.ims : r \in s.requests /\ r \in s.backup[r]
    /\ \A u \in Unit : Known(s, u) =>
        /\ Main(u) \in s.requests
        /\ (IF IsMaster(u) THEN Main(u) ELSE u) \in s.backup[Main(u)]
    /\ \A u \in Unit : Asked(s, "unit", u) => u \in s.requests

\* backup_count never exceeds m_data_copy_count, and it is the reason why a unit
\* may outlive the answer to the client.
Counted(s, c) ==
    \A u \in Unit : Known(s, u) =>
        /\ s.unit[u].bkp <= s.copyCount
        /\ s.unit[u].bkp = 0 => Main(u) \in s.ims
        /\ s.unit[u].bkp > 0 => c[u] > 0

\* request::units holds the units without a copy and saved_units the pieces that
\* have one, as long as the client waits.
UnitsKeptOf(s, c, r) ==
    /\ s.units[r] \subseteq UnitsOf(r) /\ s.saved[r] \subseteq PiecesOf(r)
    /\ \A u \in s.saved[r] : c[u] > 0
    /\ r \in s.ims =>
        /\ \A u \in UnitsOf(r) : u \in s.units[r] <=> Known(s, u) /\ s.unit[u].bkp = 0
        /\ \A u \in PiecesOf(r) : c[u] > 0 => u \in s.saved[r]
        /\ Untouched(s, c, r) \/ PiecesOf(r) \subseteq s.units[r] \cup s.saved[r]
        /\ Known(s, Master(r)) => s.units[r] = {Master(r)}
        /\ ~ Known(s, Master(r)) => Nowhere(s, Master(r))

UnitsKept(s, c) == \A r \in Save : UnitsKeptOf(s, c, r)

\* The master is encrypted when every piece has a copy.
MasterJobs(s) ==
    \A r \in Save : Asked(s, "master", r) =>
        r \in s.ims /\ s.units[r] = {} /\ PiecesOf(r) \subseteq s.saved[r]

\* What the two flags and the count of a unit say of where it is: waiting for the
\* storage, waiting for the router, at the key manager, or at the peers.
FlagsOf(s, u) ==
    /\ s.local[Main(u)] /\ s.unit[u].bkp = 0 => ~ s.unit[u].backup
    /\ u \in ElementsOf(s.pending) =>
          s.local[Main(u)] /\ s.unit[u].bkp = 0 /\ ~ s.unit[u].backup
    /\ u \in ElementsOf(s.pendingRouter) =>
          ~ s.unit[u].backup /\ (s.local[Main(u)] => s.unit[u].bkp > 0)
    /\ u \in ElementsOf(s.storage) =>
          s.local[Main(u)] /\ s.unit[u].bkp = 0 /\ ~ s.unit[u].backup
    /\ Asked(s, "unit", u) =>
          /\ s.local[Main(u)] <=> ~ s.unit[u].backup
          /\ s.local[Main(u)] => s.unit[u].bkp = 0
    /\ u \in s.tenders => s.unit[u].backup

\* request::local is only taken back when the storage refuses, and masters take
\* none of the ways pieces take.
Flags(s) ==
    /\ \A r \in Save : s.local[r] # Local[r] => r \notin Fits /\ Local[r]
    /\ \A u \in Unit :
        /\ u \in ElementsOf(s.pending) => ~ IsMaster(u)
        /\ u \in ElementsOf(s.pendingRouter) /\ IsMaster(u) => Local[Main(u)]
        /\ Asked(s, "unit", u) => ~ IsMaster(u)
        /\ Known(s, u) => FlagsOf(s, u)

\* m_router_save_input_size counts the units on their way to peers.
Sent(s) == {u \in Unit : Known(s, u) /\ s.unit[u].backup}
Account(s) == s.routerSize = Cardinality(Sent(s))

\* Only pieces of failed saves are deleted, only refused saves are garbled, and a
\* save that succeeded has a copy of every unit.
Outcome(s, c) ==
    /\ \A u \in s.deleted : s.told[Main(u)] = <<"failed">>
    /\ \A u \in s.garbled : Main(u) \notin Fits
    /\ \A r \in Save : s.told[r] = <<"saved">> => \A u \in UnitsOf(r) : c[u] > 0

\* What every handler keeps, at each of the calls it is made of.
Good(s, c) ==
    /\ OnePlace(s) /\ Answers(s) /\ Begun(s, c) /\ Requests(s) /\ Counted(s, c)
    /\ UnitsKept(s, c) /\ MasterJobs(s) /\ Flags(s) /\ Account(s) /\ Outcome(s, c)
    /\ ~ s.aborted

\* A unit outside U still lacks a copy; a handler that has counted u restores it.
Below(s, U) == \A u \in Unit \ U : Known(s, u) => s.unit[u].bkp < s.copyCount

\* The inductive invariant.
IInv ==
    /\ k \in Kernel /\ copies \in [Unit -> Nat] /\ failed \in BOOLEAN
    /\ Good(k, copies) /\ Below(k, {})

-----------------------------------------------------------------------------
(* Units *)

\* The master of a save is one of its units and no piece.
LEMMA MasterFacts ==
    ASSUME NEW r \in Save
    PROVE  /\ Master(r) \in Unit /\ Main(Master(r)) = r /\ IsMaster(Master(r))
           /\ Master(r) \in UnitsOf(r) /\ Master(r) \notin PiecesOf(r)
           /\ r \notin Unit
BY IdAssumption, SaveAssumption DEF Unit, Master, Main, IsMaster, PiecesOf, UnitsOf

\* A unit belongs to one save, as its master or as a piece.
LEMMA UnitFacts ==
    ASSUME NEW u \in Unit
    PROVE  /\ Main(u) \in Save /\ u \in UnitsOf(Main(u)) /\ u \notin Save
           /\ IsMaster(u) <=> u = Master(Main(u))
           /\ ~ IsMaster(u) <=> u \in PiecesOf(Main(u))
<1>1. PICK r \in Save : u \in PiecesOf(r) \cup {Master(r)}
  BY DEF Unit
<1>2. u \notin Save
  BY IdAssumption
<1>3. CASE u = Master(r)
  BY <1>2, <1>3, MasterFacts DEF UnitsOf, Master, Main, IsMaster, PiecesOf
<1>4. CASE u \in PiecesOf(r)
  BY <1>2, <1>4, SaveAssumption DEF UnitsOf, Master, Main, IsMaster, PiecesOf
<1> QED BY <1>1, <1>3, <1>4

\* The units of a save are those that name it.
LEMMA UnitsOfFacts ==
    ASSUME NEW r \in Save
    PROVE  /\ UnitsOf(r) \subseteq Unit /\ PiecesOf(r) \subseteq UnitsOf(r)
           /\ \A u \in UnitsOf(r) : Main(u) = r
           /\ \A u \in Unit : Main(u) = r => u \in UnitsOf(r)
           /\ \A u \in PiecesOf(r) : ~ IsMaster(u)
           /\ \A u \in UnitsOf(r) : u = Master(r) \/ u \in PiecesOf(r)
<1>1. UnitsOf(r) \subseteq Unit
  BY DEF Unit, UnitsOf
<1>2. \A u \in UnitsOf(r) : Main(u) = r
  BY DEF Main, UnitsOf, PiecesOf, Master
<1>3. \A u \in PiecesOf(r) : ~ IsMaster(u)
  BY SaveAssumption DEF PiecesOf, IsMaster
<1>4. \A u \in Unit : Main(u) = r => u \in UnitsOf(r)
  BY UnitFacts
<1> QED BY <1>1, <1>2, <1>3, <1>4 DEF UnitsOf

\* The units of finitely many saves are finitely many.
LEMMA UnitFinite == IsFiniteSet(Unit)
<1> DEFINE Of(r) == PiecesOf(r) \cup {Master(r)}
           f == [r \in Save |-> Of(r)]
           Parts == {Of(r) : r \in Save}
<1>1. f \in Surjection(Save, Parts)
  BY DEF Surjection
<1>2. IsFiniteSet(Parts)
  <2> HIDE DEF f, Parts
  <2> QED BY <1>1, FS_Surjection, SaveAssumption
<1>3. ASSUME NEW r \in Save PROVE IsFiniteSet(Of(r))
  <2>1. IsFiniteSet({r}) BY FS_Singleton
  <2>2. IsFiniteSet(1 .. Pieces[r])
    <3>1. Pieces[r] \in Int BY SaveAssumption
    <3> QED BY <3>1, FS_Interval
  <2>3. IsFiniteSet(PiecesOf(r)) BY <2>1, <2>2, FS_Product DEF PiecesOf
  <2> QED BY <2>3, FS_AddElement
<1>4. \A P \in Parts : IsFiniteSet(P)
  BY <1>3
<1>5. Unit = UNION Parts
  BY DEF Unit
<1> HIDE DEF Parts
<1> QED BY <1>2, <1>4, <1>5, FS_UNION

-----------------------------------------------------------------------------
(* What the operators the handlers share do *)

\* The fields of the kernel.
Fields == {"copyCount", "requests", "ims", "local", "units", "backup", "saved",
           "unit", "pending", "pendingRouter", "storageCnt", "routerSize", "key",
           "storage", "tenders", "deleted", "garbled", "told", "aborted"}

\* t differs from s in the fields F only.
Only(s, t, F) == \A f \in Fields \ F : t[f] = s[f]

\* poco_assert does nothing when its condition holds.
LEMMA RequireIs ==
    ASSUME NEW s \in Kernel, NEW holds \in BOOLEAN, holds
    PROVE  Require(holds, s) = s
BY DEF Require, Kernel

\* ForgetUnit takes u out of m_save_units and changes nothing else.
LEMMA ForgetUnitIs ==
    ASSUME NEW s \in Kernel, NEW u \in Unit, NEW t, t = ForgetUnit(s, u)
    PROVE  /\ t \in Kernel /\ Only(s, t, {"unit"})
           /\ t.unit = [s.unit EXCEPT ![u] = None]
BY DEF ForgetUnit, Kernel, Only, Fields

\* remove_from_backup_units erases the request when its last entry goes.
LEMMA RemoveFromBackupIs ==
    ASSUME NEW s \in Kernel, NEW r \in Save, NEW x, NEW t, t = RemoveFromBackup(s, r, x)
    PROVE  /\ t \in Kernel /\ Only(s, t, {"backup", "requests"})
           /\ t.backup = [s.backup EXCEPT ![r] = @ \ {x}]
           /\ t.requests = IF s.backup[r] \ {x} = {} THEN s.requests \ {r} ELSE s.requests
BY ZenonT(30) DEF RemoveFromBackup, Kernel, Only, Fields

\* A job goes to the end of the list of the key manager.
LEMMA AskKeyIs ==
    ASSUME NEW s \in Kernel, NEW what, NEW x, Job(what, x) \in KeyJob,
           NEW t, t = AskKey(s, what, x)
    PROVE  /\ t \in Kernel /\ Only(s, t, {"key"})
           /\ t.key = Append(s.key, Job(what, x))
<1>1. s.key \in Seq(KeyJob)
  BY DEF Kernel
<1> DEFINE q == Append(s.key, Job(what, x))
<1>2. q \in Seq(KeyJob)
  BY <1>1
<1>3. t = [s EXCEPT !.key = q]
  BY DEF AskKey, Job
<1> HIDE DEF q
<1>4. /\ t \in Kernel /\ Only(s, t, {"key"}) /\ t.key = q
  BY <1>2, <1>3 DEF Kernel, Only, Fields
<1> QED BY <1>4 DEF q

\* What the clients are told when r is answered a.
ToldAlso(s, r, a) == [s.told EXCEPT ![r] = Append(@, a)]

\* send_ims_save_confirm tells a client that still waits.
LEMMA AnswerIs ==
    ASSUME NEW s \in Kernel, NEW r \in Save, NEW a \in {"saved", "failed"}, r \in s.ims
    PROVE  /\ Answer(s, r, a) \in Kernel /\ Only(s, Answer(s, r, a), {"told", "ims"})
           /\ Answer(s, r, a).told = ToldAlso(s, r, a)
           /\ Answer(s, r, a).ims = s.ims \ {r}
<1> DEFINE q == ToldAlso(s, r, a)
           v == [s EXCEPT !.told = q, !.ims = @ \ {r}]
<1>0. q \in [Save -> Seq({"saved", "failed"})]
  <2>1. s.told \in [Save -> Seq({"saved", "failed"})]
    BY DEF Kernel
  <2> QED BY <2>1 DEF ToldAlso
<1>1. /\ v \in Kernel /\ Only(s, v, {"told", "ims"})
      /\ v.told = q /\ v.ims = s.ims \ {r}
  <2> HIDE DEF q
  <2> QED BY <1>0 DEF Kernel, Only, Fields
<1>2. Answer(s, r, a) = Require(r \in s.ims, v)
  BY DEF Answer, ToldAlso
<1> HIDE DEF v
<1>3. Answer(s, r, a) = v
  BY <1>1, <1>2, RequireIs
<1> QED BY <1>1, <1>3

\* A counter is reduced exactly unless it would become negative.
LEMMA ReducedIs ==
    ASSUME NEW n \in Nat, NEW by \in Nat
    PROVE  /\ Reduced(n, by) \in Nat
           /\ by <= n => Reduced(n, by) = n - by
BY DEF Reduced

\* The types of the fields.
LEMMA KernelTypes ==
    ASSUME NEW s \in Kernel
    PROVE  /\ s.requests \subseteq Save \cup Unit /\ s.ims \subseteq Save
           /\ s.copyCount \in CopyCounts /\ s.copyCount \in Nat \ {0}
           /\ s.local \in [Save -> BOOLEAN]
           /\ s.units \in [Save -> SUBSET Unit] /\ s.saved \in [Save -> SUBSET Unit]
           /\ s.backup \in [Save -> SUBSET (Save \cup Unit)]
           /\ s.unit \in [Unit -> SaveUnit \cup {None}]
           /\ s.pending \in Seq(Unit) /\ s.pendingRouter \in Seq(Unit)
           /\ s.storageCnt \in Nat /\ s.routerSize \in Nat
           /\ s.key \in Seq(KeyJob) /\ s.storage \in Seq(Unit) /\ s.tenders \subseteq Unit
           /\ s.deleted \subseteq Unit /\ s.garbled \subseteq Unit
           /\ s.told \in [Save -> Seq({"saved", "failed"})] /\ s.aborted \in BOOLEAN
           /\ \A u \in Unit : Known(s, u) =>
                 s.unit[u] \in SaveUnit /\ s.unit[u].bkp \in Nat /\ s.unit[u].backup \in BOOLEAN
<1>1. s.unit \in [Unit -> SaveUnit \cup {None}]
  BY DEF Kernel
<1>2. \A u \in Unit : Known(s, u) =>
         s.unit[u] \in SaveUnit /\ s.unit[u].bkp \in Nat /\ s.unit[u].backup \in BOOLEAN
  BY <1>1 DEF Known, SaveUnit
<1> QED BY <1>1, <1>2, LimitAssumption DEF Kernel

\* Only u is forgotten.
LEMMA ForgottenIs ==
    ASSUME NEW s \in Kernel, NEW u \in Unit, NEW t, t.unit = [s.unit EXCEPT ![u] = None]
    PROVE  \A v \in Unit : /\ Known(t, v) <=> v # u /\ Known(s, v)
                           /\ v # u => t.unit[v] = s.unit[v]
BY KernelTypes DEF Known

\* To the save q, nothing has changed.
SameFor(s, c, t, d, q) ==
    /\ t.units[q] = s.units[q] /\ t.saved[q] = s.saved[q] /\ t.local[q] = s.local[q]
    /\ Asked(t, "master", q) => Asked(s, "master", q)
    /\ \A v \in UnitsOf(q) : /\ Known(t, v) <=> Known(s, v)
                             /\ Known(s, v) => (t.unit[v].bkp = 0 <=> s.unit[v].bkp = 0)
                             /\ (d[v] = 0 <=> c[v] = 0) /\ (d[v] > 0 <=> c[v] > 0)
                             /\ Nowhere(s, v) => Nowhere(t, v)

\* A save for which nothing has changed keeps its part of the invariant.
LEMMA SameForKeeps ==
    ASSUME NEW s, NEW c, NEW t, NEW d, NEW q \in Save, SameFor(s, c, t, d, q)
    PROVE  /\ Untouched(s, c, q) => Untouched(t, d, q)
           /\ (q \in t.ims => q \in s.ims) /\ UnitsKeptOf(s, c, q) => UnitsKeptOf(t, d, q)
<1>1. Master(q) \in UnitsOf(q) /\ PiecesOf(q) \subseteq UnitsOf(q)
  BY MasterFacts, UnitsOfFacts
<1>2. Untouched(s, c, q) => Untouched(t, d, q)
  <2> SUFFICES ASSUME Untouched(s, c, q) PROVE Untouched(t, d, q)
    OBVIOUS
  <2>1. \A v \in UnitsOf(q) : ~ Known(t, v) /\ Nowhere(t, v) /\ d[v] = 0
    BY DEF SameFor, Untouched, Known
  <2>2. t.units[q] = {} /\ t.saved[q] = {} /\ t.local[q] = Local[q] /\ ~ Asked(t, "master", q)
    BY DEF SameFor, Untouched
  <2> QED BY <2>1, <2>2 DEF Untouched
<1>3. ASSUME q \in t.ims => q \in s.ims, UnitsKeptOf(s, c, q) PROVE UnitsKeptOf(t, d, q)
  <2>1. \A v \in UnitsOf(q) : /\ Known(t, v) <=> Known(s, v)
                              /\ Known(s, v) => (t.unit[v].bkp = 0 <=> s.unit[v].bkp = 0)
                              /\ (d[v] = 0 <=> c[v] = 0) /\ (d[v] > 0 <=> c[v] > 0)
                              /\ Nowhere(s, v) => Nowhere(t, v)
    BY DEF SameFor, Known
  <2>2. t.units[q] = s.units[q] /\ t.saved[q] = s.saved[q]
    BY DEF SameFor, Known
  <2>3. /\ s.units[q] \subseteq UnitsOf(q) /\ s.saved[q] \subseteq PiecesOf(q)
        /\ \A v \in s.saved[q] : c[v] > 0
    BY <1>3 DEF UnitsKeptOf
  <2>4. /\ t.units[q] \subseteq UnitsOf(q) /\ t.saved[q] \subseteq PiecesOf(q)
        /\ \A v \in t.saved[q] : d[v] > 0
    BY <1>1, <2>1, <2>2, <2>3
  <2>5. ASSUME q \in t.ims
        PROVE  /\ \A v \in UnitsOf(q) : v \in t.units[q] <=> Known(t, v) /\ t.unit[v].bkp = 0
               /\ \A v \in PiecesOf(q) : d[v] > 0 => v \in t.saved[q]
               /\ Untouched(t, d, q) \/ PiecesOf(q) \subseteq t.units[q] \cup t.saved[q]
               /\ Known(t, Master(q)) => t.units[q] = {Master(q)}
               /\ ~ Known(t, Master(q)) => Nowhere(t, Master(q))
    <3>1. /\ \A v \in UnitsOf(q) : v \in s.units[q] <=> Known(s, v) /\ s.unit[v].bkp = 0
          /\ \A v \in PiecesOf(q) : c[v] > 0 => v \in s.saved[q]
          /\ Untouched(s, c, q) \/ PiecesOf(q) \subseteq s.units[q] \cup s.saved[q]
          /\ Known(s, Master(q)) => s.units[q] = {Master(q)}
          /\ ~ Known(s, Master(q)) => Nowhere(s, Master(q))
      BY <1>3, <2>5 DEF UnitsKeptOf
    <3> QED BY <1>1, <1>2, <2>1, <2>2, <3>1
  <2> QED BY <2>4, <2>5 DEF UnitsKeptOf
<1> QED BY <1>2, <1>3

-----------------------------------------------------------------------------
(* A unit with a copy is given up, or has all its copies. *)

\* Forgetting a unit with a copy keeps the invariant, when the entry of its
\* request and its share of the size go with it.
LEMMA Forgetting ==
    ASSUME NEW s \in Kernel, NEW c \in [Unit -> Nat], Good(s, c),
           NEW u \in Unit, Known(s, u), s.unit[u].bkp > 0,
           NEW t \in Kernel,
           Only(s, t, {"unit", "routerSize", "tenders", "requests", "backup", "storageCnt"}),
           t.unit = [s.unit EXCEPT ![u] = None],
           t.tenders \in {s.tenders, s.tenders \ {u}},
           t.routerSize = IF s.unit[u].backup THEN s.routerSize - 1 ELSE s.routerSize,
           Requests(t)
    PROVE  Good(t, c)
<1>1. /\ t.copyCount = s.copyCount /\ t.ims = s.ims /\ t.local = s.local
      /\ t.units = s.units /\ t.saved = s.saved /\ t.pending = s.pending
      /\ t.pendingRouter = s.pendingRouter /\ t.key = s.key /\ t.storage = s.storage
      /\ t.deleted = s.deleted /\ t.garbled = s.garbled /\ t.told = s.told
      /\ t.aborted = s.aborted
  BY DEF Only, Fields
<1>2. \A v \in Unit : /\ Known(t, v) <=> v # u /\ Known(s, v)
                      /\ v # u => t.unit[v] = s.unit[v]
  BY KernelTypes DEF Known
<1>3. \A r \in Save : Untouched(s, c, r) => Untouched(t, c, r)
  BY <1>1, <1>2, UnitsOfFacts DEF Untouched, Nowhere, Asked
<1>4. Main(u) \in Save /\ u \in UnitsOf(Main(u))
  BY UnitFacts
<1>5. OnePlace(t)
  BY <1>1 DEF Good, OnePlace, Asked
<1>6. Answers(t) /\ Begun(t, c) /\ MasterJobs(t) /\ Outcome(t, c) /\ ~ t.aborted
  BY <1>1, <1>3 DEF Good, Answers, Begun, MasterJobs, Outcome, Asked
<1>7. Counted(t, c)
  BY <1>1, <1>2 DEF Good, Counted
<1>8. Flags(t)
  BY <1>1, <1>2 DEF Good, Flags, FlagsOf, Asked
<1>9. UnitsKept(t, c)
  <2> SUFFICES ASSUME NEW r \in Save, r \in t.ims
               PROVE  /\ \A v \in UnitsOf(r) : v \in t.units[r] <=> Known(t, v) /\ t.unit[v].bkp = 0
                      /\ Known(t, Master(r)) => t.units[r] = {Master(r)}
                      /\ ~ Known(t, Master(r)) => Nowhere(t, Master(r))
    BY <1>1, <1>3 DEF Good, UnitsKept, UnitsKeptOf
  <2>1. UnitsOf(r) \subseteq Unit /\ Master(r) \in UnitsOf(r)
    BY UnitsOfFacts, MasterFacts
  <2>2. u \in UnitsOf(r) => u \notin s.units[r] /\ u # Master(r)
    BY <1>1, <2>1, KernelTypes DEF Good, UnitsKept, UnitsKeptOf
  <2>3. \A v \in UnitsOf(r) : v \in t.units[r] <=> Known(t, v) /\ t.unit[v].bkp = 0
    BY <1>1, <1>2, <2>1, <2>2 DEF Good, UnitsKept, UnitsKeptOf
  <2>4. Nowhere(s, Master(r)) => Nowhere(t, Master(r))
    BY <1>1 DEF Nowhere, Asked
  <2> QED BY <1>1, <1>2, <2>1, <2>2, <2>3, <2>4 DEF Good, UnitsKept, UnitsKeptOf
<1>10. Account(t)
  <2>1. IsFiniteSet(Sent(s))
    BY UnitFinite, FS_Subset DEF Sent
  <2>2. Sent(t) = Sent(s) \ {u} /\ (u \in Sent(s) <=> s.unit[u].backup)
    BY <1>2 DEF Sent
  <2>3. s.routerSize = Cardinality(Sent(s))
    BY DEF Good, Account
  <2>4. CASE s.unit[u].backup
    <3>1. Cardinality(Sent(s) \ {u}) = Cardinality(Sent(s)) - 1
      BY <2>1, <2>2, <2>4, FS_RemoveElement
    <3> QED BY <2>2, <2>3, <2>4, <3>1 DEF Account
  <2>5. CASE ~ s.unit[u].backup
    <3>1. Sent(t) = Sent(s)
      BY <2>2, <2>5
    <3> QED BY <2>3, <2>5, <3>1 DEF Account
  <2> QED BY <2>4, <2>5
<1> QED BY <1>5, <1>6, <1>7, <1>8, <1>9, <1>10 DEF Good

\* A unit with a copy leaves backup_units and nobody who is left needs the
\* request that may be erased.
LEMMA BackupRemoved ==
    ASSUME NEW s \in Kernel, NEW c, Good(s, c),
           NEW u \in Unit, Known(s, u), s.unit[u].bkp > 0,
           NEW x \in {u, IF IsMaster(u) THEN Main(u) ELSE u},
           NEW t, t.unit = [s.unit EXCEPT ![u] = None], t.ims = s.ims, t.key = s.key,
           t.backup = [s.backup EXCEPT ![Main(u)] = @ \ {x}],
           t.requests = IF s.backup[Main(u)] \ {x} = {} THEN s.requests \ {Main(u)}
                        ELSE s.requests
    PROVE  Requests(t)
<1> DEFINE r == Main(u)
<1>1. r \in Save /\ u \notin Save
  BY UnitFacts
<1>2. x = u \/ (x = r /\ IsMaster(u))
  OBVIOUS
<1>3. x = r => r \notin s.ims
  <2> SUFFICES ASSUME r \in s.ims, IsMaster(u) PROVE FALSE
    BY <1>1, <1>2
  <2>1. u = Master(r) /\ u \in UnitsOf(r)
    BY UnitFacts
  <2> HIDE DEF r
  <2> QED BY <2>1, <1>1, KernelTypes DEF Good, UnitsKept, UnitsKeptOf
<1>4. \A q \in t.ims : q \in t.requests /\ q \in t.backup[q]
  <2> HIDE DEF r
  <2> SUFFICES ASSUME NEW q \in s.ims PROVE q \in t.requests /\ q \in t.backup[q]
    OBVIOUS
  <2>1. q \in s.requests /\ q \in s.backup[q] /\ q \in Save /\ q # x
    BY <1>1, <1>2, <1>3, KernelTypes DEF Good, Requests
  <2> QED BY <1>1, <2>1, KernelTypes DEF r
<1>5. ASSUME NEW v \in Unit, Known(t, v)
      PROVE  /\ Main(v) \in t.requests
             /\ (IF IsMaster(v) THEN Main(v) ELSE v) \in t.backup[Main(v)]
  <2> DEFINE y == IF IsMaster(v) THEN Main(v) ELSE v
  <2>1. v # u /\ Known(s, v)
    BY <1>5, KernelTypes DEF Known
  <2>2. Main(v) \in s.requests /\ y \in s.backup[Main(v)] /\ Main(v) \in Save
    BY <2>1, UnitFacts DEF Good, Requests
  <2>3. Main(v) = r => y # x
    BY <2>1, <1>1, <1>2, UnitFacts
  <2> HIDE DEF y, r
  <2>4. y \in t.backup[Main(v)] /\ Main(v) \in t.requests
    BY <2>2, <2>3, <1>1, KernelTypes DEF r
  <2> QED BY <2>4 DEF y
<1>6. \A v \in Unit : Asked(t, "unit", v) => v \in t.requests
  BY <1>1, UnitFacts DEF Good, Requests, Asked
<1> QED BY <1>4, <1>5, <1>6 DEF Requests

\* The size is at least 1 while a unit is on its way to peers.
LEMMA RouterSizePositive ==
    ASSUME NEW s \in Kernel, NEW c, Good(s, c),
           NEW u \in Unit, Known(s, u), s.unit[u].backup
    PROVE  s.routerSize \in Nat /\ Reduced(s.routerSize, 1) = s.routerSize - 1
<1>1. u \in Sent(s) /\ IsFiniteSet(Sent(s))
  BY UnitFinite, FS_Subset DEF Sent
<1>2. s.routerSize \in Nat /\ s.routerSize = Cardinality(Sent(s))
  BY KernelTypes DEF Good, Account
<1>3. s.routerSize # 0
  BY <1>1, <1>2, FS_EmptySet
<1> QED BY <1>2, <1>3 DEF Reduced

\* handle_failed_save_unit of a unit that has copies keeps the invariant.
LEMMA StopBackupGood ==
    ASSUME NEW s \in Kernel, NEW c \in [Unit -> Nat], Good(s, c),
           NEW u \in Unit, Known(s, u), s.unit[u].bkp > 0, s.unit[u].backup,
           NEW t, t = StopBackup(s, u)
    PROVE  /\ t \in Kernel /\ Good(t, c) /\ t.copyCount = s.copyCount
           /\ t.unit = [s.unit EXCEPT ![u] = None]
           /\ t.told = s.told /\ t.deleted = s.deleted
<1> DEFINE r == Main(u)
           x == IF IsMaster(u) THEN r ELSE u
           v == RemoveFromBackup(s, r, x)
           w == [v EXCEPT !.routerSize = Reduced(@, 1)]
<1>1. r \in Save /\ x \in Save \cup Unit
  BY UnitFacts
<1> HIDE DEF x, r
<1>2. /\ v \in Kernel /\ Only(s, v, {"backup", "requests"})
      /\ v.backup = [s.backup EXCEPT ![r] = @ \ {x}]
      /\ v.requests = IF s.backup[r] \ {x} = {} THEN s.requests \ {r} ELSE s.requests
  BY <1>1, RemoveFromBackupIs, SMTT(30)
<1> HIDE DEF v
<1>3. /\ w \in Kernel /\ Only(v, w, {"routerSize"})
      /\ w.routerSize = Reduced(v.routerSize, 1)
  <2>1. Reduced(v.routerSize, 1) \in Nat
    BY <1>2, KernelTypes DEF Reduced
  <2> QED BY <1>2, <2>1 DEF Kernel, Only, Fields
<1>4. t = ForgetUnit(w, u)
  BY DEF StopBackup, v, w, x, r
<1> HIDE DEF w
<1>5. t \in Kernel /\ Only(w, t, {"unit"}) /\ t.unit = [w.unit EXCEPT ![u] = None]
  BY <1>3, <1>4, ForgetUnitIs
<1>6. /\ Only(s, t, {"unit", "routerSize", "tenders", "requests", "backup", "storageCnt"})
      /\ t.unit = [s.unit EXCEPT ![u] = None]
      /\ t.tenders = s.tenders /\ t.told = s.told /\ t.deleted = s.deleted
      /\ t.copyCount = s.copyCount /\ t.key = s.key /\ t.ims = s.ims
      /\ t.routerSize = Reduced(s.routerSize, 1)
      /\ t.backup = [s.backup EXCEPT ![r] = @ \ {x}]
      /\ t.requests = IF s.backup[r] \ {x} = {} THEN s.requests \ {r} ELSE s.requests
  BY <1>2, <1>3, <1>5 DEF Only, Fields
<1>7. t.routerSize = s.routerSize - 1
  BY <1>6, RouterSizePositive
<1>8. Requests(t)
  BY <1>6, BackupRemoved DEF x, r
<1> QED BY <1>5, <1>6, <1>7, <1>8, Forgetting, SMTT(30)

\* The last copy: the unit and its share of the size go.
LEMMA LastBackupGood ==
    ASSUME NEW s \in Kernel, NEW c \in [Unit -> Nat], Good(s, c),
           NEW u \in Unit, Known(s, u), s.unit[u].bkp > 0, s.unit[u].backup,
           NEW t, t = LastBackup(s, u)
    PROVE  /\ t \in Kernel /\ Good(t, c) /\ t.copyCount = s.copyCount
           /\ t.unit = [s.unit EXCEPT ![u] = None]
           /\ t.told = s.told /\ t.deleted = s.deleted
<1> DEFINE r == Main(u)
           w == [s EXCEPT !.routerSize = Reduced(@, 1), !.tenders = @ \ {u}]
           v == RemoveFromBackup(w, r, u)
<1>1. r \in Save
  BY UnitFacts
<1>2. /\ w \in Kernel /\ Only(s, w, {"routerSize", "tenders"})
      /\ w.routerSize = Reduced(s.routerSize, 1) /\ w.tenders = s.tenders \ {u}
  <2>1. Reduced(s.routerSize, 1) \in Nat
    BY KernelTypes DEF Reduced
  <2> QED BY <2>1 DEF Kernel, Only, Fields
<1>3. t = ForgetUnit(v, u)
  BY DEF LastBackup
<1> HIDE DEF w, r
<1>4. /\ v \in Kernel /\ Only(w, v, {"backup", "requests"})
      /\ v.backup = [w.backup EXCEPT ![r] = @ \ {u}]
      /\ v.requests = IF w.backup[r] \ {u} = {} THEN w.requests \ {r} ELSE w.requests
  BY <1>1, <1>2, RemoveFromBackupIs
<1> HIDE DEF v
<1>5. t \in Kernel /\ Only(v, t, {"unit"}) /\ t.unit = [v.unit EXCEPT ![u] = None]
  BY <1>3, <1>4, ForgetUnitIs
<1>6. /\ Only(s, t, {"unit", "routerSize", "tenders", "requests", "backup", "storageCnt"})
      /\ t.unit = [s.unit EXCEPT ![u] = None]
      /\ t.tenders = s.tenders \ {u} /\ t.told = s.told /\ t.deleted = s.deleted
      /\ t.copyCount = s.copyCount /\ t.key = s.key /\ t.ims = s.ims
      /\ t.routerSize = Reduced(s.routerSize, 1)
      /\ t.backup = [s.backup EXCEPT ![r] = @ \ {u}]
      /\ t.requests = IF s.backup[r] \ {u} = {} THEN s.requests \ {r} ELSE s.requests
  BY <1>2, <1>4, <1>5, ZenonT(30) DEF Only, Fields
<1>7. t.routerSize = s.routerSize - 1
  BY <1>6, RouterSizePositive
<1>8. Requests(t)
  BY <1>6, BackupRemoved DEF r
<1> QED BY <1>5, <1>6, <1>7, <1>8, Forgetting, SMTT(30)

\* clean_up_save_request, when one copy is all there has to be.
LEMMA CleanUpGood ==
    ASSUME NEW s \in Kernel, NEW c \in [Unit -> Nat], Good(s, c),
           s.copyCount = 1, NEW u \in Unit, Below(s, {u}),
           Known(s, u), s.unit[u].bkp > 0,
           s.local[Main(u)] <=> ~ s.unit[u].backup,
           NEW t, t = CleanUp(s, u)
    PROVE  /\ t \in Kernel /\ Good(t, c) /\ t.copyCount = s.copyCount
           /\ t.unit = [s.unit EXCEPT ![u] = None]
           /\ t.told = s.told /\ t.deleted = s.deleted
<1> DEFINE r == Main(u)
<1>1. r \in Save
  BY UnitFacts
<1>2. CASE s.local[r]
  <2> DEFINE v == [s EXCEPT !.storageCnt = Reduced(@, 1),
                            !.requests = IF IsMaster(u) THEN @ \ {r} ELSE @]
  <2>1. /\ v \in Kernel /\ Only(s, v, {"storageCnt", "requests"})
        /\ v.requests = IF IsMaster(u) THEN s.requests \ {r} ELSE s.requests
    <3>1. Reduced(s.storageCnt, 1) \in Nat
      BY KernelTypes DEF Reduced
    <3> QED BY <3>1 DEF Kernel, Only, Fields
  <2>2. t = ForgetUnit(v, u)
    BY <1>2 DEF CleanUp
  <2> HIDE DEF v
  <2>3. t \in Kernel /\ Only(v, t, {"unit"}) /\ t.unit = [v.unit EXCEPT ![u] = None]
    BY <2>1, <2>2, ForgetUnitIs
  <2>4. /\ Only(s, t, {"unit", "routerSize", "tenders", "requests", "backup", "storageCnt"})
        /\ t.unit = [s.unit EXCEPT ![u] = None] /\ t.backup = s.backup
        /\ t.tenders = s.tenders /\ t.told = s.told /\ t.deleted = s.deleted
        /\ t.copyCount = s.copyCount /\ t.key = s.key /\ t.ims = s.ims
        /\ t.routerSize = s.routerSize
        /\ t.requests = IF IsMaster(u) THEN s.requests \ {r} ELSE s.requests
    BY <2>1, <2>3 DEF Only, Fields
  <2>5. \A v1 \in Unit : /\ Known(t, v1) <=> v1 # u /\ Known(s, v1)
                         /\ v1 # u => t.unit[v1] = s.unit[v1]
    BY <2>4, ForgottenIs
  <2>6. IsMaster(u) => r \notin s.ims
    <3>1. u \in UnitsOf(r) /\ (IsMaster(u) => u = Master(r))
      BY UnitFacts
    <3> QED BY <3>1, <1>1, KernelTypes DEF Good, UnitsKept, UnitsKeptOf
  <2>7. ASSUME NEW v1 \in Unit, Known(t, v1), IsMaster(u) PROVE Main(v1) # r
    <3>1. v1 # u /\ Known(s, v1)
      BY <2>5, <2>7
    <3>2. s.unit[v1].bkp \in Nat
      BY <3>1, KernelTypes
    <3>3. s.unit[v1].bkp < 1
      BY <3>1 DEF Below
    <3>4. s.unit[v1].bkp = 0
      BY <3>2, <3>3
    <3> QED BY <3>1, <3>4, <2>6, <2>7 DEF Good, Counted
  <2>8. Requests(t)
    <3>1. \A v1 \in Unit : v1 # r
      BY <1>1, UnitFacts
    <3>2. \A q \in t.ims : q \in t.requests /\ q \in t.backup[q]
      BY <2>4, <2>6 DEF Good, Requests
    <3>3. \A v1 \in Unit : Known(t, v1) =>
            /\ Main(v1) \in t.requests
            /\ (IF IsMaster(v1) THEN Main(v1) ELSE v1) \in t.backup[Main(v1)]
      BY <2>4, <2>5, <2>7 DEF Good, Requests
    <3>4. \A v1 \in Unit : Asked(t, "unit", v1) => v1 \in t.requests
      BY <2>4, <3>1 DEF Good, Requests, Asked
    <3> QED BY <3>2, <3>3, <3>4 DEF Requests
  <2> QED BY <1>2, <2>3, <2>4, <2>8, Forgetting
<1>3. CASE ~ s.local[r]
  <2>1. t = LastBackup(s, u)
    BY <1>3 DEF CleanUp, LastBackup
  <2>2. s.unit[u].backup
    BY <1>1, <1>3, KernelTypes
  <2> QED BY <2>1, <2>2, LastBackupGood
<1> QED BY <1>2, <1>3
-----------------------------------------------------------------------------
(* A whole save is given up. *)

\* process_not_backed_up_save_unit keeps the invariant: the units without a copy
\* go, the client is told, and what was saved is deleted.
LEMMA AbandonGood ==
    ASSUME NEW s \in Kernel, NEW c \in [Unit -> Nat], Good(s, c),
           NEW u \in Unit, Known(s, u), s.unit[u].bkp = 0,
           NEW r, r = Main(u),
           NEW t, t = Abandon(s, r)
    PROVE  /\ t \in Kernel /\ Good(t, c) /\ t.copyCount = s.copyCount
           /\ \A v \in Unit : Known(t, v) => Known(s, v) /\ t.unit[v] = s.unit[v]
           /\ r \in s.ims /\ t.told = [s.told EXCEPT ![r] = <<"failed">>]
           /\ t.deleted = s.deleted \cup s.saved[r]
<1> DEFINE lost == s.units[r]
           away == {v \in lost : s.unit[v].backup}
           w == [s EXCEPT !.unit = [v \in Unit |-> IF v \in lost THEN None ELSE @[v]],
                          !.routerSize = Reduced(@, Cardinality(away)),
                          !.deleted = @ \cup s.saved[r]]
<1>1. r \in Save /\ r \in s.ims /\ u \in UnitsOf(r) /\ u \in s.units[r]
  BY UnitFacts DEF Good, Counted, UnitsKept, UnitsKeptOf
<1>2. /\ lost \subseteq UnitsOf(r) /\ lost \subseteq Unit
      /\ \A v \in UnitsOf(r) : v \in lost <=> Known(s, v) /\ s.unit[v].bkp = 0
  BY <1>1, UnitsOfFacts DEF Good, UnitsKept, UnitsKeptOf
<1>3. IsFiniteSet(Sent(s)) /\ away \subseteq Sent(s) /\ Sent(s) \cap away = away
  BY <1>2, UnitFinite, FS_Subset DEF Sent
<1>4. /\ Cardinality(away) \in Nat /\ Cardinality(Sent(s) \ away) \in Nat
      /\ Cardinality(Sent(s) \ away) = Cardinality(Sent(s)) - Cardinality(away)
      /\ Cardinality(Sent(s)) \in Nat
  <2> HIDE DEF away
  <2>1. IsFiniteSet(away) /\ IsFiniteSet(Sent(s) \ away)
    BY <1>3, FS_Subset
  <2> QED BY <1>3, <2>1, FS_Difference, FS_CardinalityType, ZenonT(30)
<1>5. Reduced(s.routerSize, Cardinality(away)) = Cardinality(Sent(s) \ away)
  <2> HIDE DEF away
  <2>1. s.routerSize = Cardinality(Sent(s))
    BY DEF Good, Account
  <2> QED BY <1>4, <2>1 DEF Reduced
<1>6. /\ w \in Kernel /\ Only(s, w, {"unit", "routerSize", "deleted"})
      /\ w.unit = [v \in Unit |-> IF v \in lost THEN None ELSE s.unit[v]]
      /\ w.routerSize = Cardinality(Sent(s) \ away)
      /\ w.deleted = s.deleted \cup s.saved[r]
  <2> DEFINE f == [v \in Unit |-> IF v \in lost THEN None ELSE s.unit[v]]
             n == Cardinality(Sent(s) \ away)
  <2>1. f \in [Unit -> SaveUnit \cup {None}] /\ s.saved[r] \subseteq Unit
    BY <1>1, KernelTypes
  <2>2. n \in Nat
    BY <1>4
  <2>3. w = [s EXCEPT !.unit = f, !.routerSize = n, !.deleted = @ \cup s.saved[r]]
    BY <1>5
  <2> HIDE DEF f, n, w
  <2>4. w \in Kernel /\ Only(s, w, {"unit", "routerSize", "deleted"})
        /\ w.unit = f /\ w.routerSize = n /\ w.deleted = s.deleted \cup s.saved[r]
    BY <2>1, <2>2, <2>3 DEF Kernel, Only, Fields
  <2> QED BY <2>4 DEF f, n
<1>7. t = Require(TRUE, Answer(w, r, "failed"))
  <2>1. {v \in lost : Known(s, v)} = lost
    BY <1>2
  <2>2. {v \in {v \in lost : Known(s, v)} : s.unit[v].backup} = away
    BY <2>1
  <2> QED BY <2>1, <2>2 DEF Abandon, LostUnits
<1> HIDE DEF w, away, lost
<1>8. t = Answer(w, r, "failed") /\ r \in w.ims
  <2>1. r \in w.ims
    BY <1>1, <1>6 DEF Only, Fields
  <2>2. Answer(w, r, "failed") \in Kernel
    BY <1>1, <1>6, <2>1, AnswerIs
  <2> QED BY <1>7, <2>1, <2>2, RequireIs
<1>9. /\ t \in Kernel /\ Only(w, t, {"told", "ims"})
      /\ t.told = [w.told EXCEPT ![r] = Append(@, "failed")] /\ t.ims = w.ims \ {r}
  <2> DEFINE a == "failed"
  <2>1. a \in {"saved", "failed"} /\ t = Answer(w, r, a) /\ w \in Kernel
    BY <1>6, <1>8
  <2> HIDE DEF a
  <2>2. /\ t \in Kernel /\ Only(w, t, {"told", "ims"})
        /\ t.told = ToldAlso(w, r, a) /\ t.ims = w.ims \ {r}
    BY <1>1, <1>8, <2>1, AnswerIs
  <2> QED BY <2>2 DEF a, ToldAlso
<1>10. /\ t.copyCount = s.copyCount /\ t.requests = s.requests /\ t.local = s.local
       /\ t.units = s.units /\ t.saved = s.saved /\ t.pending = s.pending
       /\ t.backup = s.backup
       /\ t.pendingRouter = s.pendingRouter /\ t.key = s.key /\ t.storage = s.storage
       /\ t.tenders = s.tenders /\ t.garbled = s.garbled /\ t.aborted = s.aborted
       /\ t.deleted = s.deleted \cup s.saved[r] /\ t.ims = s.ims \ {r}
       /\ t.told = [s.told EXCEPT ![r] = Append(@, "failed")]
       /\ t.unit = [v \in Unit |-> IF v \in lost THEN None ELSE s.unit[v]]
       /\ t.routerSize = Cardinality(Sent(s) \ away)
  BY <1>6, <1>9, ZenonT(30) DEF Only, Fields
<1>11. \A v \in Unit : /\ Known(t, v) <=> v \notin lost /\ Known(s, v)
                       /\ v \notin lost => t.unit[v] = s.unit[v]
  BY <1>10 DEF Known
<1>12. t.told = [s.told EXCEPT ![r] = <<"failed">>]
  BY <1>1, <1>10 DEF Good, Answers
<1>13. \A q \in Save \ {r} : /\ Untouched(s, c, q) => Untouched(t, c, q)
                             /\ \A v \in UnitsOf(q) : v \notin lost
  BY <1>1, <1>2, <1>10, <1>11, UnitsOfFacts DEF Untouched, Nowhere, Asked
<1>14. ~ Untouched(s, c, r)
  BY <1>1 DEF Untouched
<1>15. OnePlace(t)
  BY <1>10 DEF Good, OnePlace, Asked
<1>16. Answers(t) /\ MasterJobs(t) /\ ~ t.aborted
  <2>1. \A q \in Save : /\ q # r => t.told[q] = s.told[q]
                        /\ q = r => t.told[q] = <<"failed">>
    BY <1>12, KernelTypes
  <2>2. Answers(t)
    BY <1>1, <1>10, <2>1 DEF Good, Answers
  <2>3. \A q \in Save : Asked(s, "master", q) => q # r
    BY <1>1 DEF Good, MasterJobs
  <2> QED BY <1>10, <2>2, <2>3 DEF Good, MasterJobs, Asked
<1>17. Begun(t, c)
  <2> SUFFICES ASSUME NEW q \in Save
               PROVE  /\ Asked(t, "key", q) => q \in t.ims /\ Untouched(t, c, q)
                      /\ q \notin t.ims /\ t.told[q] = <<>> => Untouched(t, c, q)
    BY DEF Begun
  <2>1. Asked(t, "key", q) => q # r
    BY <1>10, <1>14 DEF Good, Begun, Asked
  <2>2. q # r => t.told[q] = s.told[q]
    BY <1>12, KernelTypes
  <2>3. q = r => t.told[q] # <<>>
    BY <1>12, KernelTypes
  <2> QED BY <1>10, <1>13, <2>1, <2>2, <2>3 DEF Good, Begun, Asked
<1>18. Requests(t)
  BY <1>10, <1>11 DEF Good, Requests, Asked
<1>19. Counted(t, c)
  <2> SUFFICES ASSUME NEW v \in Unit, Known(t, v)
               PROVE  /\ t.unit[v].bkp <= t.copyCount
                      /\ t.unit[v].bkp = 0 => Main(v) \in t.ims
                      /\ t.unit[v].bkp > 0 => c[v] > 0
    BY DEF Counted
  <2>1. Known(s, v) /\ v \notin lost /\ t.unit[v] = s.unit[v]
    BY <1>11
  <2>2. s.unit[v].bkp = 0 => Main(v) # r
    BY <1>2, <2>1, UnitFacts
  <2> QED BY <1>10, <2>1, <2>2 DEF Good, Counted
<1>20. UnitsKept(t, c)
  <2> SUFFICES ASSUME NEW q \in Save, q \in t.ims
               PROVE  /\ \A v \in UnitsOf(q) : v \in t.units[q] <=> Known(t, v) /\ t.unit[v].bkp = 0
                      /\ \A v \in PiecesOf(q) : c[v] > 0 => v \in t.saved[q]
                      /\ Untouched(t, c, q) \/ PiecesOf(q) \subseteq t.units[q] \cup t.saved[q]
                      /\ Known(t, Master(q)) => t.units[q] = {Master(q)}
                      /\ ~ Known(t, Master(q)) => Nowhere(t, Master(q))
    BY <1>10 DEF Good, UnitsKept, UnitsKeptOf
  <2>1. q # r /\ q \in s.ims
    BY <1>10
  <2>2. \A v \in UnitsOf(q) : v \in Unit /\ t.unit[v] = s.unit[v] /\ (Known(t, v) <=> Known(s, v))
    BY <2>1, <1>11, <1>13, UnitsOfFacts
  <2>3. Nowhere(s, Master(q)) => Nowhere(t, Master(q))
    BY <1>10 DEF Nowhere, Asked
  <2>4. Master(q) \in UnitsOf(q) /\ PiecesOf(q) \subseteq UnitsOf(q)
    BY MasterFacts, UnitsOfFacts
  <2>5. /\ \A v \in UnitsOf(q) : v \in s.units[q] <=> Known(s, v) /\ s.unit[v].bkp = 0
        /\ \A v \in PiecesOf(q) : c[v] > 0 => v \in s.saved[q]
        /\ Untouched(s, c, q) \/ PiecesOf(q) \subseteq s.units[q] \cup s.saved[q]
        /\ Known(s, Master(q)) => s.units[q] = {Master(q)}
        /\ ~ Known(s, Master(q)) => Nowhere(s, Master(q))
    BY <2>1 DEF Good, UnitsKept, UnitsKeptOf
  <2>6. /\ \A v \in UnitsOf(q) : v \in t.units[q] <=> Known(t, v) /\ t.unit[v].bkp = 0
        /\ \A v \in PiecesOf(q) : c[v] > 0 => v \in t.saved[q]
    <3>1. t.units = s.units /\ t.saved = s.saved
      BY <1>10
    <3> QED BY <2>2, <2>5, <3>1
  <2>7. Untouched(t, c, q) \/ PiecesOf(q) \subseteq t.units[q] \cup t.saved[q]
    BY <2>1, <2>5, <1>10, <1>13
  <2>8. /\ Known(t, Master(q)) => t.units[q] = {Master(q)}
        /\ ~ Known(t, Master(q)) => Nowhere(t, Master(q))
    BY <2>2, <2>3, <2>4, <2>5, <1>10
  <2> QED BY <2>6, <2>7, <2>8
<1>21. Flags(t)
  BY <1>10, <1>11 DEF Good, Flags, FlagsOf, Asked
<1>22. Account(t)
  <2>1. Sent(t) = Sent(s) \ away
    BY <1>11 DEF Sent, away
  <2> QED BY <2>1, <1>10 DEF Account
<1>23. Outcome(t, c)
  <2>1. \A v \in s.saved[r] : Main(v) = r
    BY <1>1, UnitsOfFacts DEF Good, UnitsKept, UnitsKeptOf
  <2>2. \A v \in t.deleted : t.told[Main(v)] = <<"failed">>
    <3> SUFFICES ASSUME NEW v \in t.deleted PROVE t.told[Main(v)] = <<"failed">>
      OBVIOUS
    <3>1. v \in Unit /\ Main(v) \in Save
      BY <1>9, KernelTypes, UnitFacts
    <3>2. s.told \in [Save -> Seq({"saved", "failed"})]
      BY KernelTypes
    <3>3. Main(v) # r => v \in s.deleted
      BY <1>10, <2>1
    <3> QED BY <1>12, <3>1, <3>2, <3>3 DEF Good, Outcome
  <2>3. \A q \in Save : t.told[q] = <<"saved">> => s.told[q] = <<"saved">>
    BY <1>12, KernelTypes
  <2> QED BY <2>2, <2>3, <1>10 DEF Good, Outcome
<1> QED
  BY <1>1, <1>9, <1>10, <1>11, <1>12, <1>15, <1>16, <1>17, <1>18, <1>19, <1>20, <1>21, <1>22, <1>23
  DEF Good
-----------------------------------------------------------------------------
(* The master is saved, or encrypted first. *)

\* What starting the master of r leaves as it was.
MasterStarted(s, t, r) ==
    /\ t.copyCount = s.copyCount /\ t.told = s.told /\ t.deleted = s.deleted
    /\ t.local = s.local
    /\ \A v \in Unit \ {Master(r)} :
          t.unit[v] = s.unit[v] /\ (Nowhere(s, v) => Nowhere(t, v))
    /\ Known(t, Master(r)) => t.unit[Master(r)].bkp = 0

\* The pieces of r have their copies and nobody works on its master.
ReadyFor(s, r) ==
    /\ r \in s.ims /\ s.units[r] = {} /\ PiecesOf(r) \subseteq s.saved[r]
    /\ ~ Asked(s, "key", r) /\ ~ Asked(s, "master", r)

\* save_master_object keeps the invariant.
LEMMA SaveMasterGood ==
    ASSUME NEW s \in Kernel, NEW c \in [Unit -> Nat], Good(s, c),
           NEW r \in Save, ReadyFor(s, r),
           NEW t, t = SaveMaster(s, r)
    PROVE  t \in Kernel /\ Good(t, c) /\ MasterStarted(s, t, r)
<1> DEFINE m == Master(r)
           there == s.local[r]
           us == Append(s.storage, m)
           first == [bkp |-> 0, backup |-> ~ there]
<1>1. /\ m \in Unit /\ m \in UnitsOf(r) /\ Main(m) = r /\ IsMaster(m) /\ there \in BOOLEAN
  BY MasterFacts, KernelTypes
<1>2. ~ Known(s, m) /\ Nowhere(s, m) /\ r \in s.ims
  BY <1>1 DEF ReadyFor, Good, UnitsKept, UnitsKeptOf
<1>3. us \in Seq(Unit) /\ ElementsOf(us) = ElementsOf(s.storage) \cup {m} /\ Once(us)
  <2>1. s.storage \in Seq(Unit) /\ Once(s.storage) /\ m \notin ElementsOf(s.storage)
    BY <1>2, KernelTypes DEF Good, OnePlace, Nowhere
  <2> HIDE DEF m
  <2> QED BY <1>1, <2>1, AppendedElements
<1>4. first \in SaveUnit /\ first # None /\ first.bkp = 0 /\ (first.backup <=> ~ there)
  <2> HIDE DEF there, m
  <2>1. (~ there) \in BOOLEAN /\ first.bkp = 0 /\ first.backup = ~ there
    BY <1>1
  <2>2. first \in SaveUnit
    BY <2>1 DEF SaveUnit
  <2>3. first # None
    BY <2>2, NoneAssumption
  <2> QED BY <1>1, <2>1, <2>2, <2>3
<1> HIDE DEF m, us, first, there
<1>5. /\ t \in Kernel
      /\ Only(s, t, {"unit", "units", "storageCnt", "storage", "routerSize", "tenders"})
      /\ t.unit = [s.unit EXCEPT ![m] = first]
      /\ t.units = [s.units EXCEPT ![r] = @ \cup {m}]
      /\ t.storage = IF there THEN us ELSE s.storage
      /\ t.tenders = IF there THEN s.tenders ELSE s.tenders \cup {m}
      /\ t.routerSize = IF there THEN s.routerSize ELSE s.routerSize + 1
  <2> DEFINE f == [s.unit EXCEPT ![m] = first]
             g == [s.units EXCEPT ![r] = @ \cup {m}]
  <2>1. f \in [Unit -> SaveUnit \cup {None}] /\ g \in [Save -> SUBSET Unit]
    BY <1>1, <1>4, KernelTypes
  <2>2. t = IF there THEN [[s EXCEPT !.unit = f, !.units = g]
                              EXCEPT !.storageCnt = @ + 1, !.storage = Append(@, m)]
            ELSE [[s EXCEPT !.unit = f, !.units = g]
                     EXCEPT !.routerSize = @ + 1, !.tenders = @ \cup {m}]
    BY DEF SaveMaster, m, first, there
  <2>3. /\ there => t = [s EXCEPT !.unit = f, !.units = g, !.storageCnt = s.storageCnt + 1,
                                  !.storage = us]
        /\ ~ there => t = [s EXCEPT !.unit = f, !.units = g, !.routerSize = s.routerSize + 1,
                                    !.tenders = s.tenders \cup {m}]
    <3> HIDE DEF f, g
    <3> QED BY <2>2 DEF us, Kernel
  <2> HIDE DEF f, g
  <2>4. CASE there
    <3>1. t = [s EXCEPT !.unit = f, !.units = g, !.storageCnt = s.storageCnt + 1,
                        !.storage = us]
      BY <2>3, <2>4
    <3>2. t \in Kernel
      <4>1. s.storageCnt + 1 \in Nat
        BY KernelTypes
      <4> QED BY <1>3, <2>1, <3>1, <4>1, ZenonT(30) DEF Kernel
    <3>3. /\ Only(s, t, {"unit", "units", "storageCnt", "storage", "routerSize", "tenders"})
          /\ t.unit = f /\ t.units = g /\ t.storage = us /\ t.tenders = s.tenders
          /\ t.routerSize = s.routerSize
      BY <3>1 DEF Kernel, Only, Fields
    <3> QED BY <2>4, <3>2, <3>3 DEF f, g
  <2>5. CASE ~ there
    <3>1. t = [s EXCEPT !.unit = f, !.units = g, !.routerSize = s.routerSize + 1,
                        !.tenders = s.tenders \cup {m}]
      BY <2>3, <2>5
    <3>2. t \in Kernel
      <4>1. s.routerSize + 1 \in Nat /\ s.tenders \cup {m} \subseteq Unit
        BY <1>1, KernelTypes
      <4> QED BY <2>1, <3>1, <4>1, ZenonT(30) DEF Kernel
    <3>3. /\ Only(s, t, {"unit", "units", "storageCnt", "storage", "routerSize", "tenders"})
          /\ t.unit = f /\ t.units = g /\ t.storage = s.storage
          /\ t.tenders = s.tenders \cup {m} /\ t.routerSize = s.routerSize + 1
      BY <3>1 DEF Kernel, Only, Fields
    <3> QED BY <2>5, <3>2, <3>3 DEF f, g
  <2> QED BY <2>4, <2>5
<1>6. /\ t.copyCount = s.copyCount /\ t.requests = s.requests /\ t.local = s.local
      /\ t.saved = s.saved /\ t.pending = s.pending /\ t.backup = s.backup
      /\ t.pendingRouter = s.pendingRouter /\ t.key = s.key
      /\ t.garbled = s.garbled /\ t.aborted = s.aborted
      /\ t.deleted = s.deleted /\ t.ims = s.ims /\ t.told = s.told
  BY <1>5 DEF Only, Fields
<1>7. /\ \A v \in Unit \ {m} : t.unit[v] = s.unit[v] /\ (Known(t, v) <=> Known(s, v))
      /\ Known(t, m) /\ t.unit[m].bkp = 0 /\ (t.unit[m].backup <=> ~ there)
      /\ \A q \in Save \ {r} : t.units[q] = s.units[q]
      /\ t.units[r] = {m}
  BY <1>1, <1>4, <1>5, KernelTypes DEF Known, ReadyFor
<1>8. /\ ElementsOf(t.storage) = IF there THEN ElementsOf(s.storage) \cup {m}
                                 ELSE ElementsOf(s.storage)
      /\ Once(t.storage)
  BY <1>3, <1>5 DEF Good, OnePlace
<1>9. \A v \in Unit \ {m} : /\ Nowhere(s, v) => Nowhere(t, v)
                            /\ v \in t.tenders <=> v \in s.tenders
                            /\ v \in ElementsOf(t.storage) <=> v \in ElementsOf(s.storage)
  BY <1>5, <1>6, <1>8 DEF Nowhere, Asked
<1>10. OnePlace(t)
  BY <1>2, <1>5, <1>6, <1>8 DEF Good, OnePlace, Nowhere, Asked
<1>11. \A q \in Save \ {r} : /\ SameFor(s, c, t, c, q)
                             /\ Untouched(s, c, q) => Untouched(t, c, q)
  <2> SUFFICES ASSUME NEW q \in Save \ {r} PROVE SameFor(s, c, t, c, q)
    BY SameForKeeps
  <2>1. \A v \in UnitsOf(q) : v \in Unit /\ v # m
    BY <1>1, UnitsOfFacts
  <2> QED BY <2>1, <1>6, <1>7, <1>9 DEF SameFor, Known, Asked
<1>12. Answers(t) /\ MasterJobs(t) /\ ~ t.aborted /\ Outcome(t, c)
  BY <1>6, <1>7 DEF Good, Answers, MasterJobs, Outcome, Asked, ReadyFor
<1>13. Begun(t, c)
  BY <1>6, <1>11 DEF Good, Begun, Asked, ReadyFor
<1>14. Requests(t)
  BY <1>1, <1>2, <1>6, <1>7 DEF Good, Requests, Asked
<1>15. Counted(t, c)
  BY <1>1, <1>2, <1>6, <1>7, KernelTypes, SMTT(30) DEF Good, Counted
<1>16. UnitsKept(t, c)
  <2> SUFFICES ASSUME NEW q \in Save PROVE UnitsKeptOf(t, c, q)
    BY DEF UnitsKept
  <2>1. CASE q = r
    <3>1. \A v \in UnitsOf(r) \ {m} : ~ (Known(t, v) /\ t.unit[v].bkp = 0)
      BY <1>2, <1>7, UnitsOfFacts DEF Good, UnitsKept, UnitsKeptOf, ReadyFor
    <3>2. s.saved[r] \subseteq PiecesOf(r) /\ \A v \in s.saved[r] : c[v] > 0
      BY DEF Good, UnitsKept, UnitsKeptOf
    <3>3. \A v \in PiecesOf(r) : c[v] > 0 => v \in s.saved[r]
      BY <1>2 DEF Good, UnitsKept, UnitsKeptOf
    <3> QED BY <1>1, <1>6, <1>7, <2>1, <3>1, <3>2, <3>3 DEF ReadyFor, UnitsKeptOf, m
  <2>2. CASE q # r
    BY <1>6, <1>11, <2>2, SameForKeeps DEF Good, UnitsKept
  <2> QED BY <2>1, <2>2
<1>17. Flags(t)
  <2> SUFFICES ASSUME NEW v \in Unit
               PROVE  /\ v \in ElementsOf(t.pending) => ~ IsMaster(v)
                      /\ v \in ElementsOf(t.pendingRouter) /\ IsMaster(v) => Local[Main(v)]
                      /\ Asked(t, "unit", v) => ~ IsMaster(v)
                      /\ Known(t, v) => FlagsOf(t, v)
    BY <1>6 DEF Good, Flags
  <2>1. CASE v = m
    <3>1. /\ v \notin ElementsOf(t.pending) /\ v \notin ElementsOf(t.pendingRouter)
          /\ ~ Asked(t, "unit", v) /\ s.local[Main(v)] = there
      BY <1>1, <1>2, <1>6, <2>1 DEF Nowhere, Asked, there
    <3>2. /\ v \in ElementsOf(t.storage) => there
          /\ v \in t.tenders => ~ there
      BY <1>2, <1>5, <1>8, <2>1 DEF Nowhere
    <3> QED BY <1>6, <1>7, <2>1, <3>1, <3>2 DEF FlagsOf
  <2>2. CASE v # m
    BY <1>6, <1>7, <1>9, <2>2 DEF FlagsOf, Asked, Good, Flags
  <2> QED BY <2>1, <2>2
<1>18. Account(t)
  <2>1. IsFiniteSet(Sent(s)) /\ s.routerSize = Cardinality(Sent(s)) /\ m \notin Sent(s)
    BY <1>2, UnitFinite, FS_Subset DEF Sent, Good, Account
  <2>2. CASE there
    <3>1. Sent(t) = Sent(s)
      BY <1>1, <1>2, <1>7, <2>2 DEF Sent
    <3> QED BY <1>5, <2>1, <2>2, <3>1 DEF Account
  <2>3. CASE ~ there
    <3>1. Sent(t) = Sent(s) \cup {m}
      BY <1>1, <1>2, <1>7, <2>3 DEF Sent
    <3>2. Cardinality(Sent(s) \cup {m}) = Cardinality(Sent(s)) + 1
      BY <2>1, FS_AddElement
    <3> QED BY <1>5, <2>1, <2>3, <3>1, <3>2 DEF Account
  <2> QED BY <2>2, <2>3
<1>19. MasterStarted(s, t, r)
  BY <1>6, <1>7, <1>9 DEF MasterStarted, m
<1> QED
  BY <1>5, <1>10, <1>12, <1>13, <1>14, <1>15, <1>16, <1>17, <1>18, <1>19 DEF Good
\* A new job is asked once.
LEMMA AskedAfter ==
    ASSUME NEW s \in Kernel, Once(s.key), NEW what, NEW x, Job(what, x) \in KeyJob,
           ~ Asked(s, what, x),
           NEW t, t = AskKey(s, what, x)
    PROVE  /\ Once(t.key)
           /\ \A w, y : Asked(t, w, y) <=> Asked(s, w, y) \/ (w = what /\ y = x)
<1> DEFINE j == Job(what, x)
<1>1. t.key = Append(s.key, j) /\ s.key \in Seq(KeyJob)
  BY AskKeyIs, KernelTypes
<1>2. \A w, y : Job(w, y) = j <=> w = what /\ y = x
  BY DEF Job
<1> HIDE DEF j
<1>3. j \in KeyJob /\ j \notin ElementsOf(s.key)
  BY DEF j, Asked
<1>4. ElementsOf(t.key) = ElementsOf(s.key) \cup {j} /\ Once(t.key)
  BY <1>1, <1>3, AppendedElements
<1> QED BY <1>2, <1>4 DEF Asked

\* The key manager is asked for the key, or for the master, of r.
LEMMA AskForSaveGood ==
    ASSUME NEW s \in Kernel, NEW c \in [Unit -> Nat], Good(s, c),
           NEW r \in Save, NEW what,
           \/ what = "key" /\ r \in s.ims /\ Untouched(s, c, r) /\ ~ Asked(s, "key", r)
           \/ what = "master" /\ ReadyFor(s, r),
           NEW t, t = AskKey(s, what, r)
    PROVE  /\ t \in Kernel /\ Good(t, c) /\ MasterStarted(s, t, r) /\ t.unit = s.unit
<1>1. Job(what, r) \in KeyJob /\ ~ Asked(s, what, r)
  BY DEF KeyJob, Job, ReadyFor
<1>2. t \in Kernel /\ Only(s, t, {"key"})
  BY <1>1, AskKeyIs
<1>3. /\ t.copyCount = s.copyCount /\ t.requests = s.requests /\ t.local = s.local
      /\ t.units = s.units /\ t.saved = s.saved /\ t.pending = s.pending
      /\ t.backup = s.backup /\ t.unit = s.unit /\ t.routerSize = s.routerSize
      /\ t.pendingRouter = s.pendingRouter /\ t.storage = s.storage
      /\ t.tenders = s.tenders /\ t.garbled = s.garbled /\ t.aborted = s.aborted
      /\ t.deleted = s.deleted /\ t.ims = s.ims /\ t.told = s.told
  BY <1>2 DEF Only, Fields
<1>4. Once(t.key) /\ \A w, y : Asked(t, w, y) <=> Asked(s, w, y) \/ (w = what /\ y = r)
  BY <1>1, AskedAfter DEF Good, OnePlace
<1>5. \A y : Asked(t, "unit", y) <=> Asked(s, "unit", y)
  BY <1>4
<1>6. \A v : Known(t, v) <=> Known(s, v)
  BY <1>3 DEF Known
<1>7. \A v \in Unit : Nowhere(t, v) <=> Nowhere(s, v)
  BY <1>3, <1>5 DEF Nowhere
<1>8. OnePlace(t)
  BY <1>3, <1>4, <1>5 DEF Good, OnePlace
<1>9. Answers(t) /\ Requests(t) /\ Counted(t, c) /\ Outcome(t, c) /\ ~ t.aborted
  BY <1>3, <1>5, <1>6 DEF Good, Answers, Requests, Counted, Outcome
<1>10. Account(t)
  BY <1>3, <1>6 DEF Good, Account, Sent
<1>11. Flags(t)
  BY <1>3, <1>5, <1>6 DEF Good, Flags, FlagsOf
<1>12. MasterJobs(t)
  BY <1>3, <1>4 DEF Good, MasterJobs, ReadyFor
<1>13. \A q \in Save : (q # r \/ what = "key") => SameFor(s, c, t, c, q)
  BY <1>3, <1>4, <1>7, UnitsOfFacts DEF SameFor, Known
<1>14. Begun(t, c)
  <2> SUFFICES ASSUME NEW q \in Save
               PROVE  /\ Asked(t, "key", q) => q \in t.ims /\ Untouched(t, c, q)
                      /\ q \notin t.ims /\ t.told[q] = <<>> => Untouched(t, c, q)
    BY DEF Begun
  <2>1. CASE q # r \/ what = "key"
    <3>1. Untouched(s, c, q) => Untouched(t, c, q)
      BY <1>13, <2>1, SameForKeeps
    <3> QED BY <1>3, <1>4, <2>1, <3>1 DEF Good, Begun
  <2>2. CASE q = r /\ what = "master"
    BY <1>3, <1>4, <2>2 DEF ReadyFor
  <2> QED BY <2>1, <2>2
<1>15. UnitsKept(t, c)
  <2> SUFFICES ASSUME NEW q \in Save PROVE UnitsKeptOf(t, c, q)
    BY DEF UnitsKept
  <2>1. CASE q # r \/ what = "key"
    BY <1>3, <1>13, <2>1, SameForKeeps DEF Good, UnitsKept
  <2>2. CASE q = r /\ what = "master"
    <3>1. UnitsKeptOf(s, c, r) /\ Master(r) \in Unit
      BY MasterFacts DEF Good, UnitsKept
    <3>2. PiecesOf(r) \subseteq s.units[r] \cup s.saved[r]
      BY <2>2 DEF ReadyFor
    <3> QED BY <1>3, <1>6, <1>7, <2>2, <3>1, <3>2 DEF UnitsKeptOf
  <2> QED BY <2>1, <2>2
<1>16. MasterStarted(s, t, r)
  <2>1. ~ Known(s, Master(r))
    <3>1. s.units[r] = {} /\ r \in s.ims
      BY DEF ReadyFor, Untouched
    <3> QED BY <3>1 DEF Good, UnitsKept, UnitsKeptOf
  <2> QED BY <1>3, <1>6, <1>7, <2>1 DEF MasterStarted
<1> QED
  BY <1>2, <1>3, <1>8, <1>9, <1>10, <1>11, <1>12, <1>14, <1>15, <1>16 DEF Good

\* The master goes to the storage, to the peers or to the key manager.
LEMMA StartMasterGood ==
    ASSUME NEW s \in Kernel, NEW c \in [Unit -> Nat], Good(s, c),
           NEW r \in Save, ReadyFor(s, r),
           NEW t, t = StartMaster(s, r)
    PROVE  t \in Kernel /\ Good(t, c) /\ MasterStarted(s, t, r)
<1>1. CASE Enc[r] = "none"
  BY <1>1, SaveMasterGood DEF StartMaster
<1>2. CASE Enc[r] # "none"
  <2>1. t = AskKey(s, "master", r)
    BY <1>2 DEF StartMaster
  <2> QED BY <2>1, AskForSaveGood
<1> QED BY <1>1, <1>2

-----------------------------------------------------------------------------
(* The pieces are cut. *)

\* The list of pieces, in the order they are pushed, has each of them once.
LEMMA ListOfPieces ==
    ASSUME NEW r \in Save, NEW list, list = [i \in 1 .. Pieces[r] |-> <<r, Pieces[r] + 1 - i>>]
    PROVE  list \in Seq(Unit) /\ ElementsOf(list) = PiecesOf(r) /\ Once(list)
<1> DEFINE n == Pieces[r]
<1>1. n \in Nat
  BY SaveAssumption
<1>2. \A i \in 1 .. n : n + 1 - i \in 1 .. n /\ list[i] = <<r, n + 1 - i>>
  BY <1>1
<1>3. PiecesOf(r) = {<<r, i>> : i \in 1 .. n}
  BY <1>1 DEF PiecesOf
<1>4. \A i \in 1 .. n : list[i] \in PiecesOf(r)
  BY <1>2, <1>3
<1>5. list \in Seq(Unit) /\ DOMAIN list = 1 .. n
  <2>1. \A i \in 1 .. n : list[i] \in Unit
    BY <1>4, UnitsOfFacts
  <2>2. list = [i \in 1 .. n |-> list[i]]
    OBVIOUS
  <2> HIDE DEF n
  <2>3. list \in [1 .. n -> Unit]
    BY <2>1, <2>2
  <2>4. list \in Seq(Unit)
    BY <1>1, <2>3, SeqDef, Zenon
  <2> QED BY <2>3, <2>4
<1>6. ASSUME NEW v \in PiecesOf(r) PROVE v \in ElementsOf(list)
  <2>1. PICK i \in 1 .. n : v = <<r, i>>
    BY <1>3
  <2>2. n + 1 - i \in 1 .. n /\ n + 1 - (n + 1 - i) = i
    BY <1>1
  <2>3. list[n + 1 - i] = v
    BY <1>2, <2>1, <2>2
  <2> QED BY <1>5, <2>2, <2>3 DEF ElementsOf
<1>7. ElementsOf(list) = PiecesOf(r)
  BY <1>4, <1>5, <1>6 DEF ElementsOf
<1>8. Once(list)
  <2> SUFFICES ASSUME NEW i \in 1 .. n, NEW j \in 1 .. n, list[i] = list[j] PROVE i = j
    BY <1>5 DEF Once
  <2>1. n + 1 - i = n + 1 - j
    BY <1>2
  <2> QED BY <1>1, <2>1
<1> QED BY <1>5, <1>7, <1>8

\* prepare_pieces_for_save keeps the invariant.
LEMMA PreparePiecesGood ==
    ASSUME NEW s \in Kernel, NEW c \in [Unit -> Nat], Good(s, c),
           NEW r \in Save, r \in s.ims, Untouched(s, c, r), ~ Asked(s, "key", r),
           NEW t, t = PreparePieces(s, r)
    PROVE  /\ t \in Kernel /\ Good(t, c)
           /\ Below(s, {}) => Below(t, {})
           /\ t.told = s.told /\ t.deleted = s.deleted
<1> DEFINE P == PiecesOf(r)
           there == s.local[r]
           list == [i \in 1 .. Pieces[r] |-> <<r, Pieces[r] + 1 - i>>]
           first == [bkp |-> 0, backup |-> FALSE]
           f == [v \in Unit |-> IF v \in P THEN first ELSE s.unit[v]]
           g == [s.units EXCEPT ![r] = @ \cup P]
           h == [s.backup EXCEPT ![r] = @ \cup P]
<1>1. list \in Seq(Unit) /\ ElementsOf(list) = P /\ Once(list)
  BY ListOfPieces
<1>2. /\ P \subseteq Unit /\ P \subseteq UnitsOf(r) /\ \A v \in P : ~ IsMaster(v) /\ Main(v) = r
      /\ Master(r) \notin P /\ Master(r) \in UnitsOf(r) /\ Master(r) \in Unit
      /\ there \in BOOLEAN
  BY UnitsOfFacts, MasterFacts, KernelTypes
<1>3. \A v \in UnitsOf(r) : ~ Known(s, v) /\ Nowhere(s, v) /\ c[v] = 0
  BY DEF Untouched
<1>4. first \in SaveUnit /\ first # None /\ first.bkp = 0 /\ ~ first.backup
  <2>1. first \in SaveUnit
    BY DEF SaveUnit
  <2> QED BY <2>1, NoneAssumption
<1> HIDE DEF first
<1>5. /\ f \in [Unit -> SaveUnit \cup {None}] /\ g \in [Save -> SUBSET Unit]
      /\ h \in [Save -> SUBSET (Save \cup Unit)]
  <2> HIDE DEF P
  <2> QED BY <1>2, <1>4, KernelTypes
<1>6. t = IF there THEN [s EXCEPT !.unit = f, !.units = g, !.backup = h,
                                  !.pending = list \o s.pending]
                   ELSE [s EXCEPT !.unit = f, !.units = g, !.backup = h,
                                  !.pendingRouter = list \o s.pendingRouter]
  <2> DEFINE ready == [s EXCEPT !.unit = f, !.units = g, !.backup = h]
  <2>1. t = IF ready.local[r] THEN [ready EXCEPT !.pending = list \o @]
                              ELSE [ready EXCEPT !.pendingRouter = list \o @]
    BY DEF PreparePieces, first
  <2>2. ready.local[r] = there
    BY DEF Kernel
  <2> HIDE DEF f, g, h, list, P, there
  <2> QED BY <2>1, <2>2 DEF Kernel
<1>7. /\ \A v \in P : f[v] = first
      /\ \A v \in Unit \ P : f[v] = s.unit[v]
      /\ g[r] = P /\ \A q \in Save \ {r} : g[q] = s.units[q]
      /\ h[r] = s.backup[r] \cup P /\ \A q \in Save \ {r} : h[q] = s.backup[q]
  <2> HIDE DEF P
  <2> QED BY <1>2, KernelTypes DEF Untouched
<1> HIDE DEF f, g, h, list, P, there
<1>8. /\ t \in Kernel
      /\ Only(s, t, {"unit", "units", "backup", "pending", "pendingRouter"})
      /\ t.unit = f /\ t.units = g /\ t.backup = h
      /\ t.pending = IF there THEN list \o s.pending ELSE s.pending
      /\ t.pendingRouter = IF there THEN s.pendingRouter ELSE list \o s.pendingRouter
  <2>1. list \o s.pending \in Seq(Unit) /\ list \o s.pendingRouter \in Seq(Unit)
    BY <1>1, KernelTypes
  <2>2. CASE there
    <3>1. t = [s EXCEPT !.unit = f, !.units = g, !.backup = h, !.pending = list \o s.pending]
      BY <1>6, <2>2
    <3>2. t \in Kernel
      BY <1>5, <2>1, <3>1, ZenonT(30) DEF Kernel
    <3> QED BY <2>2, <3>1, <3>2 DEF Kernel, Only, Fields
  <2>3. CASE ~ there
    <3>1. t = [s EXCEPT !.unit = f, !.units = g, !.backup = h,
                        !.pendingRouter = list \o s.pendingRouter]
      BY <1>6, <2>3
    <3>2. t \in Kernel
      BY <1>5, <2>1, <3>1, ZenonT(30) DEF Kernel
    <3> QED BY <2>3, <3>1, <3>2 DEF Kernel, Only, Fields
  <2> QED BY <2>2, <2>3
<1>9. /\ t.copyCount = s.copyCount /\ t.requests = s.requests /\ t.local = s.local
      /\ t.saved = s.saved /\ t.routerSize = s.routerSize /\ t.storage = s.storage
      /\ t.tenders = s.tenders /\ t.key = s.key
      /\ t.garbled = s.garbled /\ t.aborted = s.aborted
      /\ t.deleted = s.deleted /\ t.ims = s.ims /\ t.told = s.told
  BY <1>8 DEF Only, Fields
<1>10. /\ \A v \in P : Known(t, v) /\ t.unit[v] = first
       /\ \A v \in Unit \ P : t.unit[v] = s.unit[v] /\ (Known(t, v) <=> Known(s, v))
  BY <1>2, <1>4, <1>7, <1>8 DEF Known
<1>11. /\ ElementsOf(t.pending) = ElementsOf(s.pending) \cup (IF there THEN P ELSE {})
       /\ ElementsOf(t.pendingRouter) = ElementsOf(s.pendingRouter) \cup (IF there THEN {} ELSE P)
       /\ Once(t.pending) /\ Once(t.pendingRouter)
  <2>1. \A v \in P : v \notin ElementsOf(s.pending) /\ v \notin ElementsOf(s.pendingRouter)
    BY <1>2, <1>3 DEF Nowhere
  <2>2. /\ s.pending \in Seq(Unit) /\ s.pendingRouter \in Seq(Unit)
        /\ Once(s.pending) /\ Once(s.pendingRouter)
    BY KernelTypes DEF Good, OnePlace
  <2>3. ElementsOf(list \o s.pending) = P \cup ElementsOf(s.pending) /\ Once(list \o s.pending)
    BY <1>1, <2>1, <2>2, JoinedElements
  <2>4. /\ ElementsOf(list \o s.pendingRouter) = P \cup ElementsOf(s.pendingRouter)
        /\ Once(list \o s.pendingRouter)
    BY <1>1, <2>1, <2>2, JoinedElements
  <2> QED BY <1>8, <2>2, <2>3, <2>4
<1>12. \A v \in Unit \ P : /\ Nowhere(s, v) => Nowhere(t, v)
                           /\ v \in ElementsOf(t.pending) <=> v \in ElementsOf(s.pending)
                           /\ v \in ElementsOf(t.pendingRouter) <=> v \in ElementsOf(s.pendingRouter)
  BY <1>9, <1>11 DEF Nowhere, Asked
<1>13. \A v \in P : /\ v \notin ElementsOf(t.storage) /\ v \notin t.tenders /\ ~ Asked(t, "unit", v)
                    /\ v \in ElementsOf(t.pending) <=> there
                    /\ v \in ElementsOf(t.pendingRouter) <=> ~ there
  BY <1>2, <1>3, <1>9, <1>11 DEF Nowhere, Asked
<1>14. OnePlace(t)
  <2>1. Once(t.storage) /\ Once(t.key)
    BY <1>9 DEF Good, OnePlace
  <2> SUFFICES ASSUME NEW v \in Unit
               PROVE  /\ v \in ElementsOf(t.pending) =>
                             v \notin ElementsOf(t.pendingRouter) /\ v \notin ElementsOf(t.storage)
                             /\ v \notin t.tenders /\ ~ Asked(t, "unit", v)
                      /\ v \in ElementsOf(t.pendingRouter) =>
                             v \notin ElementsOf(t.storage) /\ v \notin t.tenders
                             /\ ~ Asked(t, "unit", v)
                      /\ v \in ElementsOf(t.storage) => v \notin t.tenders /\ ~ Asked(t, "unit", v)
                      /\ v \in t.tenders => ~ Asked(t, "unit", v)
    BY <1>11, <2>1 DEF OnePlace
  <2>2. CASE v \in P
    BY <1>13, <2>2
  <2>3. CASE v \notin P
    BY <1>9, <1>12, <2>3 DEF Good, OnePlace, Asked
  <2> QED BY <2>2, <2>3
<1>15. \A q \in Save \ {r} : /\ SameFor(s, c, t, c, q)
                             /\ Untouched(s, c, q) => Untouched(t, c, q)
  <2> SUFFICES ASSUME NEW q \in Save \ {r} PROVE SameFor(s, c, t, c, q)
    BY SameForKeeps
  <2>1. \A v \in UnitsOf(q) : v \in Unit \ P
    BY <1>2, UnitsOfFacts
  <2> QED BY <2>1, <1>7, <1>8, <1>9, <1>10, <1>12 DEF SameFor, Known, Asked
<1>16. Answers(t) /\ ~ t.aborted /\ Outcome(t, c)
  BY <1>9 DEF Good, Answers, Outcome
<1>17. MasterJobs(t)
  <2>1. ~ Asked(t, "master", r)
    BY <1>9 DEF Untouched, Asked
  <2> QED BY <2>1, <1>7, <1>8, <1>9 DEF Good, MasterJobs, Asked
<1>18. Begun(t, c)
  BY <1>9, <1>15 DEF Good, Begun, Asked
<1>19. Requests(t)
  <2>1. r \in s.requests
    BY DEF Good, Requests
  <2>2. \A q \in Save : s.backup[q] \subseteq t.backup[q] /\ (q = r => P \subseteq t.backup[q])
    BY <1>7, <1>8
  <2>3. ASSUME NEW v \in Unit, Known(t, v)
        PROVE  /\ Main(v) \in t.requests
               /\ (IF IsMaster(v) THEN Main(v) ELSE v) \in t.backup[Main(v)]
    <3>1. CASE v \in P
      BY <1>2, <1>9, <2>1, <2>2, <3>1
    <3>2. CASE v \notin P
      BY <1>9, <1>10, <2>2, <2>3, <3>2, UnitFacts DEF Good, Requests
    <3> QED BY <3>1, <3>2
  <2>4. \A q \in t.ims : q \in t.requests /\ q \in t.backup[q]
    BY <1>9, <2>2, KernelTypes DEF Good, Requests
  <2> QED BY <1>9, <2>3, <2>4 DEF Good, Requests, Asked
<1>20. Counted(t, c)
  <2>1. t.copyCount \in Nat
    BY <1>8, KernelTypes
  <2> QED BY <1>2, <1>4, <1>9, <1>10, <2>1 DEF Good, Counted
<1>21. UnitsKept(t, c)
  <2> SUFFICES ASSUME NEW q \in Save PROVE UnitsKeptOf(t, c, q)
    BY DEF UnitsKept
  <2>1. CASE q = r
    <3>1. \A v \in UnitsOf(r) : v \in P <=> Known(t, v) /\ t.unit[v].bkp = 0
      BY <1>2, <1>3, <1>4, <1>10, UnitsOfFacts
    <3>2. t.units[r] = P /\ t.saved[r] = {} /\ ~ Known(t, Master(r)) /\ Nowhere(t, Master(r))
      BY <1>2, <1>3, <1>7, <1>8, <1>9, <1>10, <1>12 DEF Untouched
    <3>3. \A v \in P : ~ (c[v] > 0)
      BY <1>2, <1>3
    <3> QED BY <1>2, <2>1, <3>1, <3>2, <3>3 DEF UnitsKeptOf, P
  <2>2. CASE q # r
    BY <1>9, <1>15, <2>2, SameForKeeps DEF Good, UnitsKept
  <2> QED BY <2>1, <2>2
<1>22. Flags(t)
  <2> SUFFICES ASSUME NEW v \in Unit
               PROVE  /\ v \in ElementsOf(t.pending) => ~ IsMaster(v)
                      /\ v \in ElementsOf(t.pendingRouter) /\ IsMaster(v) => Local[Main(v)]
                      /\ Asked(t, "unit", v) => ~ IsMaster(v)
                      /\ Known(t, v) => FlagsOf(t, v)
    BY <1>9 DEF Good, Flags
  <2>1. CASE v \in P
    <3>1. t.local[Main(v)] = there
      BY <1>2, <1>9, <2>1 DEF there
    <3> QED BY <1>2, <1>4, <1>10, <1>13, <2>1, <3>1 DEF FlagsOf
  <2>2. CASE v \notin P
    BY <1>9, <1>10, <1>12, <2>2 DEF FlagsOf, Asked, Good, Flags
  <2> QED BY <2>1, <2>2
<1>23. Account(t)
  <2>1. Sent(t) = Sent(s)
    BY <1>2, <1>3, <1>4, <1>10 DEF Sent
  <2> QED BY <1>9, <2>1 DEF Good, Account
<1>24. Below(s, {}) => Below(t, {})
  <2>1. t.copyCount \in Nat \ {0}
    BY <1>8, KernelTypes
  <2> QED BY <1>2, <1>4, <1>9, <1>10, <2>1 DEF Below
<1> QED
  BY <1>8, <1>9, <1>14, <1>16, <1>17, <1>18, <1>19, <1>20, <1>21, <1>22, <1>23, <1>24 DEF Good

-----------------------------------------------------------------------------
(* A save is accepted. *)

\* The client is accepted; nothing is asked or saved yet.
Accepted(s, r) == [s EXCEPT !.requests = @ \cup {r}, !.ims = @ \cup {r},
                            !.backup[r] = FirstBackupUnits(r)]

\* A request is added for a client that has not asked before.
LEMMA AcceptedGood ==
    ASSUME NEW s \in Kernel, NEW c \in [Unit -> Nat], Good(s, c),
           NEW r \in Save, r \notin s.ims, s.told[r] = <<>>,
           NEW t, t = Accepted(s, r)
    PROVE  /\ t \in Kernel /\ Good(t, c)
           /\ Below(s, {}) => Below(t, {})
           /\ t.told = s.told /\ t.deleted = s.deleted
           /\ r \in t.ims /\ Untouched(t, c, r) /\ ~ Asked(t, "key", r)
<1> DEFINE h == [s.backup EXCEPT ![r] = {r}]
<1>1. h \in [Save -> SUBSET (Save \cup Unit)]
  BY KernelTypes
<1>2. h[r] = {r} /\ \A q \in Save \ {r} : h[q] = s.backup[q]
  BY KernelTypes
<1>3. t = [s EXCEPT !.requests = @ \cup {r}, !.ims = @ \cup {r}, !.backup = h]
  BY DEF Accepted, FirstBackupUnits
<1> HIDE DEF h
<1>4. /\ t \in Kernel /\ Only(s, t, {"requests", "ims", "backup"})
      /\ t.requests = s.requests \cup {r} /\ t.ims = s.ims \cup {r} /\ t.backup = h
  <2>1. s.requests \cup {r} \subseteq Save \cup Unit /\ s.ims \cup {r} \subseteq Save
    BY KernelTypes
  <2>2. t \in Kernel
    BY <1>1, <1>3, <2>1, ZenonT(30) DEF Kernel
  <2> QED BY <1>3, <2>2 DEF Kernel, Only, Fields
<1>5. /\ t.copyCount = s.copyCount /\ t.units = s.units /\ t.local = s.local
      /\ t.saved = s.saved /\ t.routerSize = s.routerSize /\ t.storage = s.storage
      /\ t.tenders = s.tenders /\ t.key = s.key /\ t.unit = s.unit
      /\ t.pending = s.pending /\ t.pendingRouter = s.pendingRouter
      /\ t.garbled = s.garbled /\ t.aborted = s.aborted
      /\ t.deleted = s.deleted /\ t.told = s.told
  BY <1>4 DEF Only, Fields
<1>6. Untouched(s, c, r) /\ ~ Asked(s, "key", r)
  BY DEF Good, Begun
<1>7. \A v : /\ Known(t, v) <=> Known(s, v)
             /\ Nowhere(t, v) <=> Nowhere(s, v)
  BY <1>5 DEF Known, Nowhere, Asked
<1>8. \A x, y : Asked(t, x, y) <=> Asked(s, x, y)
  BY <1>5 DEF Asked
<1>9. \A q \in Save : /\ SameFor(s, c, t, c, q)
                      /\ Untouched(s, c, q) => Untouched(t, c, q)
  <2> SUFFICES ASSUME NEW q \in Save PROVE SameFor(s, c, t, c, q)
    BY SameForKeeps
  <2> QED BY <1>5, <1>7, <1>8, UnitsOfFacts DEF SameFor, Known
<1>10. OnePlace(t) /\ Account(t) /\ Outcome(t, c) /\ ~ t.aborted
  BY <1>5, <1>7, <1>8 DEF Good, OnePlace, Account, Sent, Outcome
<1>11. Answers(t) /\ MasterJobs(t)
  BY <1>4, <1>5, <1>8 DEF Good, Answers, MasterJobs
<1>12. Begun(t, c)
  BY <1>4, <1>5, <1>8, <1>9 DEF Good, Begun
<1>13. Requests(t)
  <2>1. ASSUME NEW v \in Unit, Known(t, v)
        PROVE  /\ Main(v) \in t.requests
               /\ (IF IsMaster(v) THEN Main(v) ELSE v) \in t.backup[Main(v)]
    <3>1. Known(s, v) /\ Main(v) \in Save /\ Main(v) # r
      BY <1>6, <1>7, <2>1, UnitFacts DEF Untouched
    <3> QED BY <1>2, <1>4, <3>1 DEF Good, Requests
  <2>2. \A q \in t.ims : q \in t.requests /\ q \in t.backup[q]
    BY <1>2, <1>4, KernelTypes DEF Good, Requests
  <2> QED BY <1>4, <1>8, <2>1, <2>2 DEF Good, Requests
<1>14. Counted(t, c)
  BY <1>4, <1>5, <1>7 DEF Good, Counted
<1>15. UnitsKept(t, c)
  <2> SUFFICES ASSUME NEW q \in Save PROVE UnitsKeptOf(t, c, q)
    BY DEF UnitsKept
  <2>1. CASE q = r
    <3>1. /\ t.units[r] = {} /\ t.saved[r] = {} /\ Untouched(t, c, r)
          /\ \A v \in UnitsOf(r) : ~ Known(t, v) /\ Nowhere(t, v) /\ c[v] = 0
      BY <1>6, <1>9 DEF Untouched
    <3> QED BY <2>1, <3>1, MasterFacts, UnitsOfFacts DEF UnitsKeptOf
  <2>2. CASE q # r
    <3>1. q \in t.ims => q \in s.ims
      BY <1>4, <2>2
    <3> QED BY <1>9, <3>1, SameForKeeps DEF Good, UnitsKept
  <2> QED BY <2>1, <2>2
<1>16. Flags(t)
  BY <1>5, <1>7, <1>8 DEF Good, Flags, FlagsOf
<1>17. Below(s, {}) => Below(t, {})
  BY <1>5, <1>7 DEF Below
<1> QED
  BY <1>4, <1>5, <1>6, <1>8, <1>9, <1>10, <1>11, <1>12, <1>13, <1>14, <1>15, <1>16, <1>17 DEF Good

-----------------------------------------------------------------------------
(* An answer is taken from where it waits. *)

\* An answer that is taken from a neighbour keeps the invariant.
LEMMA LeavingGood ==
    ASSUME NEW s \in Kernel, NEW c \in [Unit -> Nat], Good(s, c),
           NEW t \in Kernel, Only(s, t, {"key", "storage", "tenders"}),
           Once(t.key), Once(t.storage),
           ElementsOf(t.key) \subseteq ElementsOf(s.key),
           ElementsOf(t.storage) \subseteq ElementsOf(s.storage),
           t.tenders \subseteq s.tenders
    PROVE  Good(t, c) /\ (Below(s, {}) => Below(t, {}))
<1>1. /\ t.copyCount = s.copyCount /\ t.units = s.units /\ t.local = s.local
      /\ t.saved = s.saved /\ t.routerSize = s.routerSize /\ t.ims = s.ims
      /\ t.unit = s.unit /\ t.requests = s.requests /\ t.backup = s.backup
      /\ t.pending = s.pending /\ t.pendingRouter = s.pendingRouter
      /\ t.garbled = s.garbled /\ t.aborted = s.aborted
      /\ t.deleted = s.deleted /\ t.told = s.told
  BY DEF Only, Fields
<1>2. /\ \A v : Known(t, v) <=> Known(s, v)
      /\ \A x, y : Asked(t, x, y) => Asked(s, x, y)
  BY <1>1 DEF Known, Asked
<1>3. \A v : Nowhere(s, v) => Nowhere(t, v)
  BY <1>1, <1>2 DEF Nowhere
<1>4. \A q \in Save : /\ SameFor(s, c, t, c, q)
                      /\ Untouched(s, c, q) => Untouched(t, c, q)
  <2> SUFFICES ASSUME NEW q \in Save PROVE SameFor(s, c, t, c, q)
    BY SameForKeeps
  <2> QED BY <1>1, <1>2, <1>3, UnitsOfFacts DEF SameFor, Known
<1>5. OnePlace(t)
  BY <1>1, <1>2 DEF Good, OnePlace
<1>6. Answers(t) /\ Account(t) /\ Outcome(t, c) /\ ~ t.aborted
  BY <1>1, <1>2 DEF Good, Answers, Account, Sent, Outcome
<1>7. Begun(t, c) /\ MasterJobs(t)
  BY <1>1, <1>2, <1>4 DEF Good, Begun, MasterJobs
<1>8. Requests(t) /\ Counted(t, c)
  BY <1>1, <1>2 DEF Good, Requests, Counted
<1>9. UnitsKept(t, c)
  BY <1>1, <1>4, SameForKeeps DEF Good, UnitsKept
<1>10. Flags(t)
  BY <1>1, <1>2 DEF Good, Flags, FlagsOf
<1>11. Below(s, {}) => Below(t, {})
  BY <1>1, <1>2 DEF Below
<1> QED BY <1>5, <1>6, <1>7, <1>8, <1>9, <1>10, <1>11 DEF Good

\* The next answer of the key manager.
LEMMA TakeKeyGood ==
    ASSUME NEW s \in Kernel, NEW c \in [Unit -> Nat], Good(s, c), s.key # <<>>,
           NEW t, t = [s EXCEPT !.key = Tail(@)],
           NEW j, j = Head(s.key)
    PROVE  /\ t \in Kernel /\ Only(s, t, {"key"}) /\ Good(t, c)
           /\ Below(s, {}) => Below(t, {})
           /\ j \in KeyJob /\ j \in ElementsOf(s.key) /\ j \notin ElementsOf(t.key)
           /\ ElementsOf(t.key) \subseteq ElementsOf(s.key)
<1>1. s.key \in Seq(KeyJob) /\ Once(s.key)
  BY KernelTypes DEF Good, OnePlace
<1> DEFINE q == Tail(s.key)
<1>2. /\ j \in KeyJob /\ q \in Seq(KeyJob) /\ Once(q)
      /\ ElementsOf(s.key) = ElementsOf(q) \cup {j} /\ j \notin ElementsOf(q)
  BY <1>1, TailElements
<1>3. t = [s EXCEPT !.key = q]
  OBVIOUS
<1> HIDE DEF q
<1>4. t \in Kernel /\ Only(s, t, {"key"}) /\ t.key = q
  BY <1>2, <1>3 DEF Kernel, Only, Fields
<1>5. t.storage = s.storage /\ t.tenders = s.tenders /\ Only(s, t, {"key", "storage", "tenders"})
  BY <1>4 DEF Only, Fields
<1>6. Once(t.storage)
  BY <1>5 DEF Good, OnePlace
<1>7. Good(t, c) /\ (Below(s, {}) => Below(t, {}))
  BY <1>2, <1>4, <1>5, <1>6, LeavingGood
<1> QED BY <1>2, <1>4, <1>7

\* The next answer of the storage writer; its unit is nowhere else.
LEMMA TakeStorageGood ==
    ASSUME NEW s \in Kernel, NEW c \in [Unit -> Nat], Good(s, c), s.storage # <<>>,
           NEW t, t = [s EXCEPT !.storage = Tail(@)],
           NEW u, u = Head(s.storage)
    PROVE  /\ t \in Kernel /\ Only(s, t, {"storage"}) /\ Good(t, c)
           /\ Below(s, {}) => Below(t, {})
           /\ u \in Unit /\ u \in ElementsOf(s.storage) /\ Nowhere(t, u)
<1>1. s.storage \in Seq(Unit) /\ Once(s.storage)
  BY KernelTypes DEF Good, OnePlace
<1> DEFINE q == Tail(s.storage)
<1>2. /\ u \in Unit /\ q \in Seq(Unit) /\ Once(q)
      /\ ElementsOf(s.storage) = ElementsOf(q) \cup {u} /\ u \notin ElementsOf(q)
  BY <1>1, TailElements
<1>3. t = [s EXCEPT !.storage = q]
  OBVIOUS
<1> HIDE DEF q
<1>4. t \in Kernel /\ Only(s, t, {"storage"}) /\ t.storage = q
  BY <1>2, <1>3 DEF Kernel, Only, Fields
<1>5. /\ t.key = s.key /\ t.tenders = s.tenders /\ Only(s, t, {"key", "storage", "tenders"})
      /\ t.pending = s.pending /\ t.pendingRouter = s.pendingRouter
  BY <1>4 DEF Only, Fields
<1>6. Once(t.key)
  BY <1>5 DEF Good, OnePlace
<1>7. Good(t, c) /\ (Below(s, {}) => Below(t, {}))
  BY <1>2, <1>4, <1>5, <1>6, LeavingGood
<1>8. Nowhere(t, u)
  BY <1>2, <1>4, <1>5 DEF Nowhere, Good, OnePlace, Asked
<1> QED BY <1>2, <1>4, <1>7, <1>8

\* A tender that has ended.
LEMMA DropTenderGood ==
    ASSUME NEW s \in Kernel, NEW c \in [Unit -> Nat], Good(s, c),
           NEW u \in Unit, u \in s.tenders,
           NEW t, t = [s EXCEPT !.tenders = @ \ {u}]
    PROVE  /\ t \in Kernel /\ Only(s, t, {"tenders"}) /\ Good(t, c)
           /\ Below(s, {}) => Below(t, {})
           /\ Nowhere(t, u)
<1>1. t \in Kernel /\ Only(s, t, {"tenders"}) /\ t.tenders = s.tenders \ {u}
  BY DEF Kernel, Only, Fields
<1>2. /\ t.key = s.key /\ t.storage = s.storage /\ Only(s, t, {"key", "storage", "tenders"})
      /\ t.pending = s.pending /\ t.pendingRouter = s.pendingRouter
  BY <1>1 DEF Only, Fields
<1>3. Once(t.key) /\ Once(t.storage)
  BY <1>2 DEF Good, OnePlace
<1>4. Good(t, c) /\ (Below(s, {}) => Below(t, {}))
  BY <1>1, <1>2, <1>3, LeavingGood
<1>5. Nowhere(t, u)
  BY <1>1, <1>2 DEF Nowhere, Good, OnePlace, Asked
<1> QED BY <1>1, <1>4, <1>5

-----------------------------------------------------------------------------
(* Waiting units go to the storage or to the router, or are encrypted. *)

\* Each of the units is asked to be encrypted, once.
LEMMA EncryptUnitsIs ==
    ASSUME NEW s \in Kernel, Once(s.key), NEW us \in Seq(Unit), Once(us),
           \A v \in ElementsOf(us) : ~ Asked(s, "unit", v),
           NEW t, t = EncryptUnits(s, us)
    PROVE  /\ t \in Kernel /\ Only(s, t, {"requests", "key"})
           /\ t.requests = s.requests \cup ElementsOf(us) /\ Once(t.key)
           /\ \A w, y : Asked(t, w, y) <=> Asked(s, w, y) \/ (w = "unit" /\ y \in ElementsOf(us))
<1> DEFINE jobs == [i \in DOMAIN us |-> [job |-> "unit", id |-> us[i]]]
           q == s.key \o jobs
<1>1. \A i \in DOMAIN us : us[i] \in Unit
  OBVIOUS
<1>2. jobs \in Seq(KeyJob) /\ DOMAIN jobs = DOMAIN us /\ \A i \in DOMAIN us : jobs[i] = Job("unit", us[i])
  <2>1. \A i \in DOMAIN us : jobs[i] = Job("unit", us[i]) /\ jobs[i] \in KeyJob
    BY <1>1 DEF Job, KeyJob
  <2>2. Len(us) \in Nat /\ DOMAIN us = 1 .. Len(us)
    OBVIOUS
  <2>3. jobs \in [1 .. Len(us) -> KeyJob]
    BY <2>1, <2>2
  <2>4. jobs \in Seq(KeyJob)
    BY <2>2, <2>3, SeqDef, Zenon
  <2> QED BY <2>1, <2>4
<1> HIDE DEF jobs
<1>3. \A w, y : Job(w, y) \in ElementsOf(jobs) <=> w = "unit" /\ y \in ElementsOf(us)
  BY <1>2 DEF ElementsOf, Job
<1>4. Once(jobs)
  BY <1>2 DEF Once, Job
<1>5. s.key \in Seq(KeyJob)
  BY KernelTypes
<1>6. ElementsOf(s.key) \cap ElementsOf(jobs) = {}
  <2> SUFFICES ASSUME NEW i \in DOMAIN us, jobs[i] \in ElementsOf(s.key) PROVE FALSE
    BY <1>2 DEF ElementsOf
  <2>1. us[i] \in ElementsOf(us) /\ jobs[i] = Job("unit", us[i])
    BY <1>2 DEF ElementsOf
  <2> QED BY <2>1 DEF Asked
<1>7. /\ q \in Seq(KeyJob) /\ ElementsOf(q) = ElementsOf(s.key) \cup ElementsOf(jobs)
      /\ Once(q)
  BY <1>2, <1>4, <1>5, <1>6, JoinedElements DEF Good, OnePlace
<1> HIDE DEF q
<1>8. t = [s EXCEPT !.requests = s.requests \cup ElementsOf(us), !.key = q]
  BY DEF EncryptUnits, q, jobs
<1>9. s.requests \cup ElementsOf(us) \subseteq Save \cup Unit
  BY <1>1, KernelTypes DEF ElementsOf
<1>10. t \in Kernel
  BY <1>7, <1>8, <1>9, ZenonT(30) DEF Kernel
<1>11. /\ Only(s, t, {"requests", "key"})
       /\ t.requests = s.requests \cup ElementsOf(us) /\ t.key = q
  BY <1>8 DEF Kernel, Only, Fields
<1> QED BY <1>3, <1>7, <1>10, <1>11 DEF Asked

\* A limit lets no more pass than there are.
LEMMA RoomIs ==
    ASSUME NEW max \in Nat, NEW used \in Nat, NEW us, Len(us) \in Nat
    PROVE  Room(max, used, us) \in 0 .. Len(us)
BY DEF Room

\* The units that are left of a list are known.
LEMMA AliveIs ==
    ASSUME NEW s \in Kernel, NEW us \in Seq(Unit)
    PROVE  /\ Alive(s, us) \in Seq(Unit)
           /\ \A v : v \in ElementsOf(Alive(s, us)) <=> v \in ElementsOf(us) /\ v \in Unit /\ Known(s, v)
           /\ Once(us) => Once(Alive(s, us))
BY KeptElements DEF Alive

\* process_storage_pending_save_requests keeps the invariant; its assertion holds
\* because no save that waits for the storage has been refused.
LEMMA ProcessStoragePendingGood ==
    ASSUME NEW s \in Kernel, NEW c \in [Unit -> Nat], Good(s, c),
           NEW t, t = ProcessStoragePending(s)
    PROVE  /\ t \in Kernel /\ Good(t, c)
           /\ Below(s, {}) => Below(t, {})
           /\ t.told = s.told /\ t.deleted = s.deleted
<1> DEFINE us == Alive(s, s.pending)
           n == IF Len(s.pendingRouter) < MaxStorage
                THEN Room(MaxStorage, s.storageCnt, us) ELSE 0
           taken == Front(us, n)
           behind == Behind(us, n)
           plain == Plain(taken)
           enc == Encrypted(taken)
           ok == \A u \in ElementsOf(taken) : s.local[Main(u)]
           T == ElementsOf(taken)
           posted == [s EXCEPT !.pending = behind, !.storageCnt = @ + n,
                               !.storage = @ \o plain]
<1>1. /\ us \in Seq(Unit) /\ Once(us)
      /\ \A v : v \in ElementsOf(us) <=> v \in ElementsOf(s.pending) /\ v \in Unit /\ Known(s, v)
  BY AliveIs, KernelTypes DEF Good, OnePlace
<1>2. t = Require(ok, EncryptUnits(posted, enc))
  BY DEF ProcessStoragePending
<1> HIDE DEF us
<1>3. n \in 0 .. Len(us) /\ n \in Nat
  <2>1. Len(us) \in Nat /\ s.storageCnt \in Nat /\ MaxStorage \in Nat
    BY <1>1, KernelTypes, LimitAssumption
  <2>2. Room(MaxStorage, s.storageCnt, us) \in 0 .. Len(us)
    BY <2>1, RoomIs
  <2> QED BY <2>1, <2>2
<1> HIDE DEF n
<1>4. /\ taken \in Seq(Unit) /\ behind \in Seq(Unit) /\ Once(taken) /\ Once(behind)
      /\ T \cap ElementsOf(behind) = {}
      /\ \A v \in T \cup ElementsOf(behind) : v \in Unit /\ Known(s, v) /\ v \in ElementsOf(s.pending)
  <2>1. /\ taken \in Seq(Unit) /\ behind \in Seq(Unit)
        /\ ElementsOf(us) = T \cup ElementsOf(behind)
        /\ Once(taken) /\ Once(behind) /\ T \cap ElementsOf(behind) = {}
    BY <1>1, <1>3, CutElements
  <2> QED BY <1>1, <2>1
<1> HIDE DEF taken, behind
<1>5. /\ plain \in Seq(Unit) /\ Once(plain) /\ enc \in Seq(Unit) /\ Once(enc)
      /\ ElementsOf(plain) = T \cap (Unit \ ToEncrypt)
      /\ ElementsOf(enc) = T \cap ToEncrypt
  BY <1>4, KeptElements DEF Plain, Encrypted
<1> HIDE DEF plain, enc, T
<1>6. \A v \in T : /\ v \notin ElementsOf(s.pendingRouter) /\ v \notin ElementsOf(s.storage)
                   /\ v \notin s.tenders /\ ~ Asked(s, "unit", v)
                   /\ s.local[Main(v)] /\ s.unit[v].bkp = 0 /\ ~ s.unit[v].backup
                   /\ ~ IsMaster(v)
  BY <1>4 DEF Good, OnePlace, Flags, FlagsOf
<1>7. ok
  BY <1>6 DEF T
<1>8. /\ s.storage \o plain \in Seq(Unit) /\ Once(s.storage \o plain)
      /\ ElementsOf(s.storage \o plain) = ElementsOf(s.storage) \cup ElementsOf(plain)
  <2>1. s.storage \in Seq(Unit) /\ Once(s.storage) /\ ElementsOf(s.storage) \cap ElementsOf(plain) = {}
    BY <1>5, <1>6, KernelTypes DEF Good, OnePlace
  <2> QED BY <1>5, <2>1, JoinedElements
<1>9. /\ posted \in Kernel /\ Only(s, posted, {"pending", "storageCnt", "storage"})
      /\ posted.pending = behind /\ posted.storage = s.storage \o plain
  <2>1. s.storageCnt + n \in Nat
    BY <1>3, KernelTypes
  <2>2. posted \in Kernel
    BY <1>4, <1>8, <2>1 DEF Kernel
  <2> QED BY <2>2 DEF Kernel, Only, Fields
<1> DEFINE w == EncryptUnits(posted, enc)
<1>10. posted.key = s.key /\ posted.requests = s.requests
  BY <1>9 DEF Only, Fields
<1> HIDE DEF posted, ok
<1>11. /\ w \in Kernel /\ Only(posted, w, {"requests", "key"})
       /\ w.requests = posted.requests \cup ElementsOf(enc) /\ Once(w.key)
       /\ \A x, y : Asked(w, x, y) <=> Asked(posted, x, y) \/ (x = "unit" /\ y \in ElementsOf(enc))
  <2>1. Once(posted.key)
    BY <1>10 DEF Good, OnePlace
  <2>2. \A v \in ElementsOf(enc) : ~ Asked(posted, "unit", v)
    BY <1>5, <1>6, <1>10 DEF Asked
  <2> QED BY <1>5, <1>9, <2>1, <2>2, EncryptUnitsIs
<1>12. t = w
  BY <1>2, <1>7, <1>11, RequireIs
<1> HIDE DEF w
<1>13. /\ t \in Kernel /\ t.copyCount = s.copyCount /\ t.units = s.units /\ t.local = s.local
       /\ t.saved = s.saved /\ t.routerSize = s.routerSize /\ t.ims = s.ims
       /\ t.unit = s.unit /\ t.backup = s.backup /\ t.pendingRouter = s.pendingRouter
       /\ t.garbled = s.garbled /\ t.aborted = s.aborted /\ t.tenders = s.tenders
       /\ t.deleted = s.deleted /\ t.told = s.told
       /\ t.requests = s.requests \cup ElementsOf(enc) /\ Once(t.key)
       /\ t.pending = behind /\ t.storage = s.storage \o plain
  BY <1>9, <1>10, <1>11, <1>12 DEF Only, Fields
<1>14. \A x, y : Asked(t, x, y) <=> Asked(s, x, y) \/ (x = "unit" /\ y \in ElementsOf(enc))
  BY <1>10, <1>11, <1>12 DEF Asked
<1>15. \A v \in Unit : /\ v \in ElementsOf(t.pending) => v \in ElementsOf(s.pending) /\ v \notin T
                       /\ v \in ElementsOf(t.storage) <=> v \in ElementsOf(s.storage)
                                                       \/ v \in T \ ToEncrypt
                       /\ Asked(t, "unit", v) <=> Asked(s, "unit", v) \/ v \in T \cap ToEncrypt
                       /\ v \in T => v \in ElementsOf(s.pending) /\ Known(s, v)
                       /\ Known(t, v) <=> Known(s, v)
  BY <1>4, <1>5, <1>8, <1>13, <1>14 DEF Known
<1>16. OnePlace(t)
  <2>1. Once(t.pending) /\ Once(t.pendingRouter) /\ Once(t.storage) /\ Once(t.key)
    BY <1>4, <1>8, <1>13 DEF Good, OnePlace
  <2> QED BY <2>1, <1>6, <1>13, <1>15 DEF Good, OnePlace
<1>17. \A v \in Unit : Nowhere(s, v) => Nowhere(t, v)
  BY <1>13, <1>15 DEF Nowhere
<1>18. \A q \in Save : /\ SameFor(s, c, t, c, q)
                       /\ Untouched(s, c, q) => Untouched(t, c, q)
  <2> SUFFICES ASSUME NEW q \in Save PROVE SameFor(s, c, t, c, q)
    BY SameForKeeps
  <2> QED BY <1>13, <1>14, <1>15, <1>17, UnitsOfFacts DEF SameFor
<1>19. Answers(t) /\ Account(t) /\ Outcome(t, c) /\ Counted(t, c) /\ ~ t.aborted
  BY <1>13, <1>15 DEF Good, Answers, Account, Sent, Outcome, Counted
<1>20. Begun(t, c) /\ MasterJobs(t)
  BY <1>13, <1>14, <1>18 DEF Good, Begun, MasterJobs
<1>21. Requests(t)
  BY <1>5, <1>13, <1>15 DEF Good, Requests
<1>22. UnitsKept(t, c)
  BY <1>13, <1>18, SameForKeeps DEF Good, UnitsKept
<1>23. Flags(t)
  <2> SUFFICES ASSUME NEW v \in Unit
               PROVE  /\ v \in ElementsOf(t.pending) => ~ IsMaster(v)
                      /\ v \in ElementsOf(t.pendingRouter) /\ IsMaster(v) => Local[Main(v)]
                      /\ Asked(t, "unit", v) => ~ IsMaster(v)
                      /\ Known(t, v) => FlagsOf(t, v)
    BY <1>13 DEF Good, Flags
  <2>1. CASE v \in T
    BY <1>6, <1>13, <1>15, <2>1 DEF FlagsOf
  <2>2. CASE v \notin T
    BY <1>13, <1>15, <2>2 DEF FlagsOf, Good, Flags
  <2> QED BY <2>1, <2>2
<1>24. Below(s, {}) => Below(t, {})
  BY <1>13, <1>15 DEF Below
<1> QED
  BY <1>13, <1>16, <1>19, <1>20, <1>21, <1>22, <1>23, <1>24 DEF Good

\* process_router_pending_save_requests keeps the invariant.
LEMMA ProcessRouterPendingGood ==
    ASSUME OnlySmallPlainRefused,
           NEW s \in Kernel, NEW c \in [Unit -> Nat], Good(s, c),
           NEW t, t = ProcessRouterPending(s)
    PROVE  /\ t \in Kernel /\ Good(t, c)
           /\ Below(s, {}) => Below(t, {})
           /\ t.told = s.told /\ t.deleted = s.deleted
<1> DEFINE us == Alive(s, s.pendingRouter)
           n == Room(MaxRouter, s.routerSize, us)
           taken == Front(us, n)
           behind == Behind(us, n)
           Far == {v \in Unit : ~ s.local[Main(v)]}
           Near == {v \in Unit : s.local[Main(v)]}
           away == Kept(taken, Far)
           here == Kept(taken, Near)
           plain == Plain(away)
           enc == Encrypted(away)
           T == ElementsOf(taken)
           sent == here \o plain
           f == [v \in Unit |-> IF v \in T THEN [s.unit[v] EXCEPT !.backup = TRUE] ELSE s.unit[v]]
           posted == [s EXCEPT !.pendingRouter = behind, !.routerSize = @ + n, !.unit = f,
                               !.tenders = @ \cup ElementsOf(sent),
                               !.garbled = @ \cup {v \in ElementsOf(away) : IsMaster(v)}]
<1>1. /\ us \in Seq(Unit) /\ Once(us)
      /\ \A v : v \in ElementsOf(us) <=> v \in ElementsOf(s.pendingRouter) /\ v \in Unit /\ Known(s, v)
  BY AliveIs, KernelTypes DEF Good, OnePlace
<1>2. t = EncryptUnits(posted, enc)
  BY DEF ProcessRouterPending
<1> HIDE DEF us
<1>3. n \in 0 .. Len(us) /\ n \in Nat
  <2>1. Len(us) \in Nat /\ s.routerSize \in Nat /\ MaxRouter \in Nat
    BY <1>1, KernelTypes, LimitAssumption
  <2>2. Room(MaxRouter, s.routerSize, us) \in 0 .. Len(us)
    BY <2>1, RoomIs
  <2> QED BY <2>1, <2>2
<1> HIDE DEF n
<1>4. /\ taken \in Seq(Unit) /\ behind \in Seq(Unit) /\ Once(taken) /\ Once(behind)
      /\ T \cap ElementsOf(behind) = {} /\ Len(taken) = n
      /\ \A v \in T \cup ElementsOf(behind) :
            v \in Unit /\ Known(s, v) /\ v \in ElementsOf(s.pendingRouter)
  <2>1. /\ taken \in Seq(Unit) /\ behind \in Seq(Unit) /\ Len(taken) = n
        /\ ElementsOf(us) = T \cup ElementsOf(behind)
        /\ Once(taken) /\ Once(behind) /\ T \cap ElementsOf(behind) = {}
    BY <1>1, <1>3, CutElements
  <2> QED BY <1>1, <2>1
<1> HIDE DEF taken, behind
<1>5. /\ away \in Seq(Unit) /\ Once(away) /\ here \in Seq(Unit)
      /\ ElementsOf(away) = T \cap Far /\ ElementsOf(here) = T \cap Near
  BY <1>4, KeptElements
<1> HIDE DEF away, here
<1>6. /\ plain \in Seq(Unit) /\ enc \in Seq(Unit) /\ Once(enc)
      /\ ElementsOf(plain) = ElementsOf(away) \cap (Unit \ ToEncrypt)
      /\ ElementsOf(enc) = ElementsOf(away) \cap ToEncrypt
  BY <1>5, KeptElements DEF Plain, Encrypted
<1> HIDE DEF plain, enc
<1>7. ElementsOf(sent) = (T \cap Near) \cup ((T \cap Far) \ ToEncrypt)
  <2>1. ElementsOf(sent) = ElementsOf(here) \cup ElementsOf(plain)
    BY <1>5, <1>6, JoinedElements
  <2> QED BY <1>5, <1>6, <2>1
<1> HIDE DEF sent, T, Far, Near
<1>8. /\ \A v \in Unit : v \in Far <=> ~ s.local[Main(v)]
      /\ \A v \in Unit : v \in Near <=> s.local[Main(v)]
  BY DEF Far, Near
<1>9. \A v \in T : /\ v \notin ElementsOf(s.pending) /\ v \notin ElementsOf(s.storage)
                   /\ v \notin s.tenders /\ ~ Asked(s, "unit", v)
                   /\ ~ s.unit[v].backup
                   /\ s.local[Main(v)] => s.unit[v].bkp > 0
                   /\ s.unit[v] \in SaveUnit
  BY <1>4, KernelTypes DEF Good, OnePlace, Flags, FlagsOf
<1>10. \A v \in T : IsMaster(v) /\ ~ s.local[Main(v)] => Main(v) \notin Fits /\ v \notin ToEncrypt
  <2> SUFFICES ASSUME NEW v \in T, IsMaster(v), ~ s.local[Main(v)]
               PROVE  Main(v) \notin Fits /\ v \notin ToEncrypt
    OBVIOUS
  <2>1. v \in Unit /\ v \in ElementsOf(s.pendingRouter) /\ Main(v) \in Save
    BY <1>4, UnitFacts
  <2>2. Local[Main(v)]
    BY <2>1 DEF Good, Flags
  <2>3. Main(v) \notin Fits
    BY <2>1, <2>2 DEF Good, Flags
  <2> QED BY <2>1, <2>2, <2>3 DEF OnlySmallPlainRefused, ToEncrypt
<1>11. /\ f \in [Unit -> SaveUnit \cup {None}]
       /\ \A v \in T : f[v] # None /\ f[v].bkp = s.unit[v].bkp /\ f[v].backup
       /\ \A v \in Unit \ T : f[v] = s.unit[v]
  <2>1. \A v \in T : /\ [s.unit[v] EXCEPT !.backup = TRUE] \in SaveUnit
                     /\ [s.unit[v] EXCEPT !.backup = TRUE].bkp = s.unit[v].bkp
                     /\ [s.unit[v] EXCEPT !.backup = TRUE].backup
    BY <1>9 DEF SaveUnit
  <2>2. \A v \in T : v \in Unit /\ f[v] = [s.unit[v] EXCEPT !.backup = TRUE]
    BY <1>4
  <2>3. \A v \in Unit \ T : f[v] = s.unit[v]
    OBVIOUS
  <2>4. \A v \in T : f[v] # None
    BY <2>1, <2>2, NoneAssumption
  <2>5. \A v \in Unit : f[v] \in SaveUnit \cup {None}
    BY <2>1, <2>2, <2>3, KernelTypes
  <2>6. f = [v \in Unit |-> f[v]]
    OBVIOUS
  <2> HIDE DEF f
  <2>7. f \in [Unit -> SaveUnit \cup {None}]
    BY <2>5, <2>6
  <2> QED BY <2>1, <2>2, <2>3, <2>4, <2>7
<1> HIDE DEF f
<1>12. /\ posted \in Kernel
       /\ Only(s, posted, {"pendingRouter", "routerSize", "unit", "tenders", "garbled"})
       /\ posted.pendingRouter = behind /\ posted.routerSize = s.routerSize + n
       /\ posted.unit = f /\ posted.tenders = s.tenders \cup ElementsOf(sent)
       /\ posted.garbled = s.garbled \cup {v \in ElementsOf(away) : IsMaster(v)}
  <2>1. s.routerSize + n \in Nat
    BY <1>3, KernelTypes
  <2>2. /\ s.tenders \cup ElementsOf(sent) \subseteq Unit
        /\ s.garbled \cup {v \in ElementsOf(away) : IsMaster(v)} \subseteq Unit
    BY <1>4, <1>5, <1>7, KernelTypes
  <2>3. posted \in Kernel
    BY <1>4, <1>11, <2>1, <2>2, ZenonT(30) DEF Kernel
  <2> QED BY <2>3, ZenonT(30) DEF Kernel, Only, Fields
<1>13. posted.key = s.key /\ posted.requests = s.requests
  BY <1>12, ZenonT(30) DEF Only, Fields
<1> HIDE DEF posted
<1>14. /\ t \in Kernel /\ Only(posted, t, {"requests", "key"})
       /\ t.requests = posted.requests \cup ElementsOf(enc) /\ Once(t.key)
       /\ \A x, y : Asked(t, x, y) <=> Asked(posted, x, y) \/ (x = "unit" /\ y \in ElementsOf(enc))
  <2>1. Once(posted.key)
    BY <1>13 DEF Good, OnePlace
  <2>2. \A v \in ElementsOf(enc) : ~ Asked(posted, "unit", v)
    BY <1>5, <1>6, <1>9, <1>13 DEF Asked
  <2> QED BY <1>2, <1>6, <1>12, <2>1, <2>2, EncryptUnitsIs
<1>15. /\ t.copyCount = s.copyCount /\ t.units = s.units /\ t.local = s.local
       /\ t.saved = s.saved /\ t.routerSize = s.routerSize + n /\ t.ims = s.ims
       /\ t.unit = f /\ t.backup = s.backup /\ t.pendingRouter = behind
       /\ t.garbled = s.garbled \cup {v \in ElementsOf(away) : IsMaster(v)}
       /\ t.aborted = s.aborted /\ t.tenders = s.tenders \cup ElementsOf(sent)
       /\ t.deleted = s.deleted /\ t.told = s.told
       /\ t.requests = s.requests \cup ElementsOf(enc)
       /\ t.pending = s.pending /\ t.storage = s.storage
  BY <1>12, <1>13, <1>14 DEF Only, Fields
<1>16. \A x, y : Asked(t, x, y) <=> Asked(s, x, y) \/ (x = "unit" /\ y \in ElementsOf(enc))
  BY <1>13, <1>14 DEF Asked
<1>17. \A v \in Unit : /\ v \in ElementsOf(t.pendingRouter) => v \in ElementsOf(s.pendingRouter) /\ v \notin T
                       /\ v \in t.tenders <=> \/ v \in s.tenders
                                              \/ v \in T /\ (s.local[Main(v)] \/ v \notin ToEncrypt)
                       /\ Asked(t, "unit", v) <=> \/ Asked(s, "unit", v)
                                                  \/ v \in T /\ ~ s.local[Main(v)] /\ v \in ToEncrypt
                       /\ v \in T => v \in ElementsOf(s.pendingRouter) /\ Known(s, v)
                       /\ v \notin T => t.unit[v] = s.unit[v]
                       /\ Known(t, v) <=> Known(s, v)
                       /\ Known(s, v) => t.unit[v].bkp = s.unit[v].bkp
                       /\ v \in T => t.unit[v].backup
  <2>1. \A v \in Unit : Asked(t, "unit", v) <=> \/ Asked(s, "unit", v)
                                                \/ v \in T /\ ~ s.local[Main(v)] /\ v \in ToEncrypt
    BY <1>5, <1>6, <1>8, <1>16
  <2>2. \A v \in Unit : v \in t.tenders <=> \/ v \in s.tenders
                                            \/ v \in T /\ (s.local[Main(v)] \/ v \notin ToEncrypt)
    BY <1>7, <1>8, <1>15
  <2>3. \A v \in Unit : /\ v \in ElementsOf(t.pendingRouter) => v \in ElementsOf(s.pendingRouter) /\ v \notin T
                        /\ v \in T => v \in ElementsOf(s.pendingRouter) /\ Known(s, v)
    BY <1>4, <1>15
  <2>4. \A v \in Unit : /\ v \notin T => t.unit[v] = s.unit[v]
                        /\ Known(t, v) <=> Known(s, v)
                        /\ Known(s, v) => t.unit[v].bkp = s.unit[v].bkp
                        /\ v \in T => t.unit[v].backup
    BY <1>4, <1>11, <1>15 DEF Known
  <2> QED BY <2>1, <2>2, <2>3, <2>4
<1>18. OnePlace(t)
  <2>1. Once(t.pending) /\ Once(t.pendingRouter) /\ Once(t.storage) /\ Once(t.key)
    BY <1>4, <1>14, <1>15 DEF Good, OnePlace
  <2> QED BY <2>1, <1>9, <1>15, <1>17 DEF Good, OnePlace
<1>19. \A v \in Unit : Nowhere(s, v) => Nowhere(t, v)
  BY <1>15, <1>17 DEF Nowhere
<1>20. \A q \in Save : /\ SameFor(s, c, t, c, q)
                       /\ Untouched(s, c, q) => Untouched(t, c, q)
  <2> SUFFICES ASSUME NEW q \in Save PROVE SameFor(s, c, t, c, q)
    BY SameForKeeps
  <2> QED BY <1>15, <1>16, <1>17, <1>19, UnitsOfFacts DEF SameFor
<1>21. Answers(t) /\ Counted(t, c) /\ ~ t.aborted
  BY <1>15, <1>17 DEF Good, Answers, Counted
<1>22. Outcome(t, c)
  <2>1. \A v \in t.garbled : Main(v) \notin Fits
    BY <1>4, <1>5, <1>8, <1>10, <1>15 DEF Good, Outcome
  <2> QED BY <2>1, <1>15 DEF Good, Outcome
<1>23. Begun(t, c) /\ MasterJobs(t)
  BY <1>15, <1>16, <1>20 DEF Good, Begun, MasterJobs
<1>24. Requests(t)
  <2>1. \A v \in Unit : Asked(t, "unit", v) => v \in t.requests
    BY <1>15, <1>16 DEF Good, Requests
  <2> QED BY <2>1, <1>15, <1>17 DEF Good, Requests
<1>25. UnitsKept(t, c)
  BY <1>15, <1>20, SameForKeeps DEF Good, UnitsKept
<1>26. Flags(t)
  <2> SUFFICES ASSUME NEW v \in Unit
               PROVE  /\ v \in ElementsOf(t.pending) => ~ IsMaster(v)
                      /\ v \in ElementsOf(t.pendingRouter) /\ IsMaster(v) => Local[Main(v)]
                      /\ Asked(t, "unit", v) => ~ IsMaster(v)
                      /\ Known(t, v) => FlagsOf(t, v)
    BY <1>15 DEF Good, Flags
  <2>1. CASE v \in T
    <3>1. s.local[Main(v)] \in BOOLEAN /\ s.unit[v].bkp \in Nat
      BY <1>4, <2>1, KernelTypes, UnitFacts
    <3> QED BY <3>1, <1>9, <1>10, <1>15, <1>17, <2>1 DEF FlagsOf
  <2>2. CASE v \notin T
    BY <1>15, <1>17, <2>2 DEF FlagsOf, Good, Flags
  <2> QED BY <2>1, <2>2
<1>27. Account(t)
  <2>1. IsFiniteSet(Sent(s)) /\ s.routerSize = Cardinality(Sent(s))
    BY UnitFinite, FS_Subset DEF Sent, Good, Account
  <2>2. IsFiniteSet(T) /\ Cardinality(T) = n
    BY <1>4, FiniteElements DEF T
  <2>3. Sent(t) = Sent(s) \cup T
    BY <1>4, <1>17 DEF Sent
  <2>4. Sent(s) \cap T = {}
    BY <1>9 DEF Sent
  <2>5. Cardinality(Sent(s) \cup T) = Cardinality(Sent(s)) + n
    <3>1. /\ Cardinality(Sent(s) \cup T)
                = Cardinality(Sent(s)) + Cardinality(T) - Cardinality(Sent(s) \cap T)
      BY <2>1, <2>2, FS_Union
    <3>2. Cardinality(Sent(s) \cap T) = 0
      BY <2>4, FS_EmptySet
    <3>3. Cardinality(Sent(s)) \in Nat
      BY <2>1, FS_CardinalityType
    <3> QED BY <1>3, <2>2, <3>1, <3>2, <3>3
  <2> QED BY <1>15, <2>1, <2>3, <2>5 DEF Account
<1>28. Below(s, {}) => Below(t, {})
  BY <1>15, <1>17 DEF Below
<1> QED
  BY <1>14, <1>15, <1>18, <1>21, <1>22, <1>23, <1>24, <1>25, <1>26, <1>27, <1>28 DEF Good

\* process_pending_save_requests looks at the storage first.
LEMMA ThenIs ==
    ASSUME NEW s
    PROVE  /\ ProcessPending(s) = ProcessRouterPending(ProcessStoragePending(s))
<1>1. Then(s, ProcessStoragePending) = ProcessStoragePending(s)
  BY DEF Then
<1>2. ProcessPending(s) = Then(ProcessStoragePending(s), ProcessRouterPending)
  BY <1>1 DEF ProcessPending
<1>3. Then(ProcessStoragePending(s), ProcessRouterPending)
        = ProcessRouterPending(ProcessStoragePending(s))
  BY DEF Then
<1> QED BY <1>2, <1>3

\* process_pending_save_requests keeps the invariant.
LEMMA ProcessPendingGood ==
    ASSUME OnlySmallPlainRefused,
           NEW s \in Kernel, NEW c \in [Unit -> Nat], Good(s, c),
           NEW t, t = ProcessPending(s)
    PROVE  /\ t \in Kernel /\ Good(t, c)
           /\ Below(s, {}) => Below(t, {})
           /\ t.told = s.told /\ t.deleted = s.deleted
<1> DEFINE v == ProcessStoragePending(s)
<1>1. /\ v \in Kernel /\ Good(v, c) /\ (Below(s, {}) => Below(v, {}))
      /\ v.told = s.told /\ v.deleted = s.deleted
  BY ProcessStoragePendingGood
<1>2. t = ProcessRouterPending(v)
  BY ThenIs
<1> HIDE DEF v
<1> QED BY <1>1, <1>2, ProcessRouterPendingGood

-----------------------------------------------------------------------------
(* A unit is encrypted; a save goes on after its key is there. *)

\* handle_save_of_unencrypted_data keeps the invariant.
LEMMA SaveDataGood ==
    ASSUME OnlySmallPlainRefused,
           NEW s \in Kernel, NEW c \in [Unit -> Nat], Good(s, c), Below(s, {}),
           NEW r \in Save, r \in s.ims, Untouched(s, c, r), ~ Asked(s, "key", r),
           NEW t, t = SaveData(s, r)
    PROVE  /\ t \in Kernel /\ Good(t, c) /\ Below(t, {})
           /\ t.told = s.told /\ t.deleted = s.deleted
<1>1. CASE Pieces[r] = 0
  <2>1. PiecesOf(r) = {}
    BY <1>1 DEF PiecesOf
  <2>2. ReadyFor(s, r)
    BY <2>1 DEF ReadyFor, Untouched
  <2>3. t = StartMaster(s, r)
    BY <1>1 DEF SaveData
  <2>4. t \in Kernel /\ Good(t, c) /\ MasterStarted(s, t, r)
    BY <2>2, <2>3, StartMasterGood
  <2>5. t.copyCount \in Nat \ {0}
    BY <2>4, KernelTypes
  <2>6. Below(t, {})
    BY <2>4, <2>5 DEF MasterStarted, Below, Known
  <2> QED BY <2>4, <2>6 DEF MasterStarted
<1>2. CASE Pieces[r] # 0
  <2> DEFINE v == PreparePieces(s, r)
  <2>1. /\ v \in Kernel /\ Good(v, c) /\ Below(v, {})
        /\ v.told = s.told /\ v.deleted = s.deleted
    BY PreparePiecesGood
  <2>2. t = ProcessPending(v)
    BY <1>2 DEF SaveData
  <2> HIDE DEF v
  <2> QED BY <2>1, <2>2, ProcessPendingGood
<1> QED BY <1>1, <1>2

\* handle_ims_save_request keeps the invariant.
LEMMA AcceptGood ==
    ASSUME OnlySmallPlainRefused,
           NEW s \in Kernel, NEW c \in [Unit -> Nat], Good(s, c), Below(s, {}),
           NEW r \in Save, r \notin s.ims, s.told[r] = <<>>,
           NEW t, t = Accept(s, r)
    PROVE  /\ t \in Kernel /\ Good(t, c) /\ Below(t, {})
           /\ t.told = s.told /\ t.deleted = s.deleted
<1> DEFINE v == Accepted(s, r)
<1>1. /\ v \in Kernel /\ Good(v, c) /\ Below(v, {})
      /\ v.told = s.told /\ v.deleted = s.deleted
      /\ r \in v.ims /\ Untouched(v, c, r) /\ ~ Asked(v, "key", r)
  BY AcceptedGood
<1>2. t = IF Enc[r] = "new" THEN AskKey(v, "key", r) ELSE SaveData(v, r)
  BY DEF Accept, Accepted
<1> HIDE DEF v
<1>3. CASE Enc[r] = "new"
  <2>1. t = AskKey(v, "key", r)
    BY <1>2, <1>3
  <2>2. t \in Kernel /\ Good(t, c) /\ MasterStarted(v, t, r) /\ t.unit = v.unit
    BY <1>1, <2>1, AskForSaveGood
  <2>3. Below(t, {})
    BY <1>1, <2>2 DEF MasterStarted, Below, Known
  <2> QED BY <1>1, <2>2, <2>3 DEF MasterStarted
<1>4. CASE Enc[r] # "new"
  BY <1>1, <1>2, <1>4, SaveDataGood
<1> QED BY <1>3, <1>4

\* handle_save_after_piece_encrypt keeps the invariant.
LEMMA UnitEncryptedGood ==
    ASSUME NEW s \in Kernel, NEW c \in [Unit -> Nat], Good(s, c), Below(s, {}),
           NEW u \in Unit, u \in s.requests, ~ IsMaster(u), Nowhere(s, u),
           Known(s, u) => /\ s.local[Main(u)] <=> ~ s.unit[u].backup
                          /\ s.local[Main(u)] => s.unit[u].bkp = 0,
           NEW t, t = UnitEncrypted(s, u)
    PROVE  /\ t \in Kernel /\ Good(t, c) /\ Below(t, {})
           /\ t.told = s.told /\ t.deleted = s.deleted
<1> DEFINE there == s.local[Main(u)]
           us == Append(s.storage, u)
           w == IF there THEN [s EXCEPT !.requests = @ \ {u}, !.storage = us]
                         ELSE [s EXCEPT !.requests = @ \ {u}, !.tenders = @ \cup {u}]
<1>1. Main(u) \in Save /\ u \notin Save /\ there \in BOOLEAN /\ u \in UnitsOf(Main(u))
  BY UnitFacts, KernelTypes
<1>2. us \in Seq(Unit) /\ ElementsOf(us) = ElementsOf(s.storage) \cup {u} /\ Once(us)
  <2>1. s.storage \in Seq(Unit) /\ Once(s.storage) /\ u \notin ElementsOf(s.storage)
    BY KernelTypes DEF Good, OnePlace, Nowhere
  <2> QED BY <2>1, AppendedElements
<1>3. CASE ~ Known(s, u)
  BY <1>3, RequireIs DEF UnitEncrypted
<1>4. CASE Known(s, u)
  <2>1. t = Require(TRUE, Require(TRUE, w))
    <3>1. t = Require(TRUE, Require(TRUE,
                [IF there THEN [s EXCEPT !.storage = Append(@, u)]
                          ELSE [s EXCEPT !.tenders = @ \cup {u}] EXCEPT !.requests = @ \ {u}]))
      BY <1>4 DEF UnitEncrypted
    <3>2. w = [IF there THEN [s EXCEPT !.storage = Append(@, u)]
                        ELSE [s EXCEPT !.tenders = @ \cup {u}] EXCEPT !.requests = @ \ {u}]
      <4>1. CASE there
        <5> HIDE DEF there
        <5> QED BY <4>1 DEF Kernel
      <4>2. CASE ~ there
        <5> HIDE DEF there
        <5> QED BY <4>2 DEF Kernel
      <4> QED BY <1>1, <4>1, <4>2
    <3> HIDE DEF w, there
    <3> QED BY <3>1, <3>2
  <2> HIDE DEF us, there
  <2>2. /\ w \in Kernel /\ Only(s, w, {"requests", "storage", "tenders"})
        /\ w.requests = s.requests \ {u}
        /\ w.storage = IF there THEN us ELSE s.storage
        /\ w.tenders = IF there THEN s.tenders ELSE s.tenders \cup {u}
    <3>1. s.requests \ {u} \subseteq Save \cup Unit /\ s.tenders \cup {u} \subseteq Unit
      BY KernelTypes
    <3>2. CASE there
      <4>1. w = [s EXCEPT !.requests = @ \ {u}, !.storage = us]
        BY <3>2
      <4>2. w \in Kernel
        BY <1>2, <3>1, <4>1 DEF Kernel
      <4> QED BY <3>2, <4>1, <4>2 DEF Kernel, Only, Fields
    <3>3. CASE ~ there
      <4>1. w = [s EXCEPT !.requests = @ \ {u}, !.tenders = @ \cup {u}]
        BY <3>3
      <4>2. w \in Kernel
        BY <3>1, <4>1 DEF Kernel
      <4> QED BY <3>3, <4>1, <4>2 DEF Kernel, Only, Fields
    <3> QED BY <3>2, <3>3
  <2> HIDE DEF w
  <2>3. t = w
    BY <2>1, <2>2, RequireIs
  <2>4. /\ t.copyCount = s.copyCount /\ t.units = s.units /\ t.local = s.local
        /\ t.saved = s.saved /\ t.routerSize = s.routerSize /\ t.ims = s.ims
        /\ t.unit = s.unit /\ t.backup = s.backup /\ t.pendingRouter = s.pendingRouter
        /\ t.garbled = s.garbled /\ t.aborted = s.aborted /\ t.key = s.key
        /\ t.deleted = s.deleted /\ t.told = s.told /\ t.pending = s.pending
        /\ t.requests = s.requests \ {u}
        /\ t.storage = IF there THEN us ELSE s.storage
        /\ t.tenders = IF there THEN s.tenders ELSE s.tenders \cup {u}
    BY <2>2, <2>3 DEF Only, Fields
  <2>5. /\ \A v : Known(t, v) <=> Known(s, v)
        /\ \A x, y : Asked(t, x, y) <=> Asked(s, x, y)
    BY <2>4 DEF Known, Asked
  <2>6. /\ \A v \in Unit \ {u} : /\ v \in ElementsOf(t.storage) <=> v \in ElementsOf(s.storage)
                                 /\ v \in t.tenders <=> v \in s.tenders
                                 /\ Nowhere(s, v) => Nowhere(t, v)
        /\ u \in ElementsOf(t.storage) <=> there
        /\ u \in t.tenders <=> ~ there
        /\ Once(t.storage)
    BY <1>1, <1>2, <2>4, <2>5 DEF Nowhere, Good, OnePlace
  <2>7. OnePlace(t)
    <3>1. Once(t.pending) /\ Once(t.pendingRouter) /\ Once(t.key)
      BY <2>4 DEF Good, OnePlace
    <3> SUFFICES ASSUME NEW v \in Unit
                 PROVE  /\ v \in ElementsOf(t.pending) =>
                               v \notin ElementsOf(t.pendingRouter) /\ v \notin ElementsOf(t.storage)
                               /\ v \notin t.tenders /\ ~ Asked(t, "unit", v)
                        /\ v \in ElementsOf(t.pendingRouter) =>
                               v \notin ElementsOf(t.storage) /\ v \notin t.tenders
                               /\ ~ Asked(t, "unit", v)
                        /\ v \in ElementsOf(t.storage) => v \notin t.tenders /\ ~ Asked(t, "unit", v)
                        /\ v \in t.tenders => ~ Asked(t, "unit", v)
      BY <2>6, <3>1 DEF OnePlace
    <3>2. CASE v = u
      BY <2>4, <2>5, <2>6, <3>2 DEF Nowhere
    <3>3. CASE v # u
      BY <2>4, <2>5, <2>6, <3>3 DEF Good, OnePlace
    <3> QED BY <3>2, <3>3
  <2>8. ~ Untouched(s, c, Main(u)) /\ \A q \in Save \ {Main(u)} : SameFor(s, c, t, c, q)
    <3>1. ~ Untouched(s, c, Main(u))
      BY <1>1, <1>4 DEF Untouched
    <3>2. ASSUME NEW q \in Save \ {Main(u)} PROVE SameFor(s, c, t, c, q)
      <4>1. \A v \in UnitsOf(q) : v \in Unit \ {u}
        BY UnitsOfFacts
      <4> QED BY <4>1, <2>4, <2>5, <2>6 DEF SameFor
    <3> QED BY <3>1, <3>2
  <2>9. Answers(t) /\ Counted(t, c) /\ Outcome(t, c) /\ MasterJobs(t) /\ ~ t.aborted
    BY <2>4, <2>5 DEF Good, Answers, Counted, Outcome, MasterJobs
  <2>10. Begun(t, c)
    BY <2>4, <2>5, <2>8, SameForKeeps DEF Good, Begun
  <2>11. Requests(t)
    <3>1. \A q \in Save : q # u
      BY <1>1
    <3>2. ~ Asked(t, "unit", u)
      BY <2>5 DEF Nowhere
    <3>3. \A q \in t.ims : q \in t.requests /\ q \in t.backup[q]
      BY <2>4, <3>1, KernelTypes DEF Good, Requests
    <3>4. \A v \in Unit : Known(t, v) =>
            /\ Main(v) \in t.requests
            /\ (IF IsMaster(v) THEN Main(v) ELSE v) \in t.backup[Main(v)]
      BY <2>4, <2>5, <3>1, UnitFacts DEF Good, Requests
    <3>5. \A v \in Unit : Asked(t, "unit", v) => v \in t.requests
      BY <2>4, <2>5, <3>2 DEF Good, Requests
    <3> QED BY <3>3, <3>4, <3>5 DEF Requests
  <2>12. UnitsKept(t, c)
    <3> SUFFICES ASSUME NEW q \in Save PROVE UnitsKeptOf(t, c, q)
      BY DEF UnitsKept
    <3>1. CASE q = Main(u)
      <4>1. UnitsKeptOf(s, c, q) /\ ~ Untouched(s, c, q)
        BY <2>8, <3>1 DEF Good, UnitsKept
      <4>2. Master(q) # u /\ Master(q) \in Unit
        BY MasterFacts
      <4> QED BY <4>1, <4>2, <2>4, <2>5, <2>6 DEF UnitsKeptOf
    <3>2. CASE q # Main(u)
      BY <2>4, <2>8, <3>2, SameForKeeps DEF Good, UnitsKept
    <3> QED BY <3>1, <3>2
  <2>13. Flags(t)
    <3> SUFFICES ASSUME NEW v \in Unit
                 PROVE  /\ v \in ElementsOf(t.pending) => ~ IsMaster(v)
                        /\ v \in ElementsOf(t.pendingRouter) /\ IsMaster(v) => Local[Main(v)]
                        /\ Asked(t, "unit", v) => ~ IsMaster(v)
                        /\ Known(t, v) => FlagsOf(t, v)
      BY <2>4 DEF Good, Flags
    <3>1. CASE v = u
      <4>1. /\ v \notin ElementsOf(t.pending) /\ v \notin ElementsOf(t.pendingRouter)
            /\ ~ Asked(t, "unit", v) /\ t.local[Main(v)] = there /\ t.unit[v] = s.unit[v]
        BY <2>4, <2>5, <3>1 DEF Nowhere, there
      <4> QED BY <1>1, <1>4, <2>6, <3>1, <4>1, KernelTypes DEF FlagsOf, there
    <3>2. CASE v # u
      BY <2>4, <2>5, <2>6, <3>2 DEF FlagsOf, Good, Flags
    <3> QED BY <3>1, <3>2
  <2>14. Account(t)
    BY <2>4, <2>5 DEF Good, Account, Sent
  <2>15. Below(t, {})
    BY <2>4, <2>5 DEF Below
  <2> QED
    BY <2>2, <2>3, <2>4, <2>7, <2>9, <2>10, <2>11, <2>12, <2>13, <2>14, <2>15 DEF Good
<1> QED BY <1>3, <1>4

-----------------------------------------------------------------------------
(* A unit is confirmed. *)

\* A copy more of u.
Another(c, u) == [c EXCEPT ![u] = @ + 1]

\* Another copy of u is counted for u only.
LEMMA AnotherIs ==
    ASSUME NEW c \in [Unit -> Nat], NEW u \in Unit
    PROVE  /\ Another(c, u) \in [Unit -> Nat]
           /\ Another(c, u)[u] > 0 /\ Another(c, u)[u] # 0
           /\ \A v \in Unit \ {u} : Another(c, u)[v] = c[v]
           /\ \A v \in Unit : c[v] > 0 => Another(c, u)[v] > 0
           /\ \A v \in Unit : c[v] \in Nat
BY DEF Another

\* The copies of u are n now.
Counting(s, u, n) == [s EXCEPT !.unit[u].bkp = n]

\* Setting the count of u changes nothing else.
LEMMA CountingIs ==
    ASSUME NEW s \in Kernel, NEW u \in Unit, Known(s, u), NEW n \in Nat
    PROVE  /\ Counting(s, u, n) \in Kernel /\ Only(s, Counting(s, u, n), {"unit"})
           /\ Counting(s, u, n).unit[u].bkp = n
           /\ Counting(s, u, n).unit[u].backup = s.unit[u].backup
           /\ \A v \in Unit \ {u} : Counting(s, u, n).unit[v] = s.unit[v]
           /\ \A v \in Unit : Known(Counting(s, u, n), v) <=> Known(s, v)
<1> DEFINE e == [s.unit[u] EXCEPT !.bkp = n]
           f == [s.unit EXCEPT ![u] = e]
           t == Counting(s, u, n)
<1>1. e \in SaveUnit /\ e.bkp = n /\ e.backup = s.unit[u].backup
  <2>1. s.unit[u] \in SaveUnit
    BY KernelTypes
  <2> QED BY <2>1 DEF SaveUnit
<1>2. e # None
  <2> HIDE DEF e
  <2> QED BY <1>1, NoneAssumption
<1>3. t = [s EXCEPT !.unit = f]
  BY DEF Counting
<1> HIDE DEF e
<1>4. /\ f \in [Unit -> SaveUnit \cup {None}] /\ f[u] = e
      /\ \A v \in Unit \ {u} : f[v] = s.unit[v]
  BY <1>1, KernelTypes
<1> HIDE DEF f, t
<1>5. t \in Kernel /\ Only(s, t, {"unit"}) /\ t.unit = f
  BY <1>3, <1>4 DEF Kernel, Only, Fields
<1>6. /\ t.unit[u].bkp = n /\ t.unit[u].backup = s.unit[u].backup
      /\ \A v \in Unit \ {u} : t.unit[v] = s.unit[v]
      /\ \A v \in Unit : Known(t, v) <=> Known(s, v)
  BY <1>1, <1>2, <1>4, <1>5 DEF Known
<1> QED BY <1>5, <1>6 DEF t

\* A copy that is not the first.
LEMMA CountedAgainGood ==
    ASSUME NEW s \in Kernel, NEW c \in [Unit -> Nat], Good(s, c), Below(s, {}),
           NEW u \in Unit, Known(s, u), s.unit[u].bkp > 0,
           NEW n \in Nat, n > 0, n <= s.copyCount
    PROVE  Good(Counting(s, u, n), Another(c, u))
<1> DEFINE t == Counting(s, u, n)
           d == Another(c, u)
<1>1. s.unit[u].bkp \in Nat
  BY KernelTypes
<1>2. /\ t \in Kernel /\ Only(s, t, {"unit"})
      /\ t.unit[u].bkp = n /\ t.unit[u].backup = s.unit[u].backup
      /\ \A v \in Unit \ {u} : t.unit[v] = s.unit[v]
      /\ \A v \in Unit : Known(t, v) <=> Known(s, v)
  BY CountingIs
<1> HIDE DEF t
<1>3. /\ t.copyCount = s.copyCount /\ t.units = s.units /\ t.local = s.local
      /\ t.saved = s.saved /\ t.routerSize = s.routerSize /\ t.storage = s.storage
      /\ t.tenders = s.tenders /\ t.key = s.key /\ t.ims = s.ims /\ t.backup = s.backup
      /\ t.pending = s.pending /\ t.pendingRouter = s.pendingRouter
      /\ t.requests = s.requests /\ t.garbled = s.garbled /\ t.aborted = s.aborted
      /\ t.deleted = s.deleted /\ t.told = s.told
  BY <1>2 DEF Only, Fields
<1>4. /\ \A v \in Unit : Nowhere(t, v) <=> Nowhere(s, v)
      /\ \A x, y : Asked(t, x, y) <=> Asked(s, x, y)
  BY <1>3 DEF Nowhere, Asked
<1>5. c[u] > 0
  BY DEF Good, Counted
<1>6. /\ \A v \in Unit : (d[v] = 0 <=> c[v] = 0) /\ (d[v] > 0 <=> c[v] > 0)
      /\ \A v \in Unit : Known(s, v) => /\ t.unit[v].bkp = 0 <=> s.unit[v].bkp = 0
                                        /\ t.unit[v].bkp > 0 <=> s.unit[v].bkp > 0
                                        /\ t.unit[v].backup = s.unit[v].backup
  <2>1. d[u] > 0 /\ d[u] # 0 /\ c[u] # 0
    BY <1>5, AnotherIs
  <2>2. \A v \in Unit \ {u} : d[v] = c[v]
    BY AnotherIs
  <2> HIDE DEF d
  <2>3. \A v \in Unit : (d[v] = 0 <=> c[v] = 0) /\ (d[v] > 0 <=> c[v] > 0)
    BY <1>5, <2>1, <2>2
  <2>4. t.unit[u].bkp # 0 /\ t.unit[u].bkp > 0 /\ s.unit[u].bkp # 0
    BY <1>1, <1>2
  <2>5. \A v \in Unit : Known(s, v) => /\ t.unit[v].bkp = 0 <=> s.unit[v].bkp = 0
                                       /\ t.unit[v].bkp > 0 <=> s.unit[v].bkp > 0
                                       /\ t.unit[v].backup = s.unit[v].backup
    BY <1>2, <2>4
  <2> QED BY <2>3, <2>5
<1> HIDE DEF d
<1>7. \A q \in Save : /\ SameFor(s, c, t, d, q)
                      /\ Untouched(s, c, q) => Untouched(t, d, q)
  <2> SUFFICES ASSUME NEW q \in Save PROVE SameFor(s, c, t, d, q)
    BY SameForKeeps
  <2> QED BY <1>2, <1>3, <1>4, <1>6, UnitsOfFacts DEF SameFor
<1>8. OnePlace(t) /\ Answers(t) /\ MasterJobs(t) /\ ~ t.aborted
  BY <1>3, <1>4 DEF Good, OnePlace, Answers, MasterJobs
<1>9. Begun(t, d)
  BY <1>3, <1>4, <1>7 DEF Good, Begun
<1>10. Requests(t)
  BY <1>2, <1>3, <1>4 DEF Good, Requests
<1>11. Counted(t, d)
  <2> SUFFICES ASSUME NEW v \in Unit, Known(t, v)
               PROVE  /\ t.unit[v].bkp <= t.copyCount
                      /\ t.unit[v].bkp = 0 => Main(v) \in t.ims
                      /\ t.unit[v].bkp > 0 => d[v] > 0
    BY DEF Counted
  <2> QED BY <1>1, <1>2, <1>3, <1>6 DEF Good, Counted
<1>12. UnitsKept(t, d)
  BY <1>3, <1>7, SameForKeeps DEF Good, UnitsKept
<1>13. Flags(t)
  BY <1>2, <1>3, <1>4, <1>6 DEF Good, Flags, FlagsOf
<1>14. Account(t)
  <2>1. Sent(t) = Sent(s)
    BY <1>2, <1>6 DEF Sent
  <2> QED BY <2>1, <1>3 DEF Good, Account
<1>15. Outcome(t, d)
  <2>1. \A r \in Save : t.told[r] = <<"saved">> => \A v \in UnitsOf(r) : v \in Unit /\ c[v] > 0
    BY <1>3, UnitsOfFacts DEF Good, Outcome
  <2>2. \A r \in Save : t.told[r] = <<"saved">> => \A v \in UnitsOf(r) : d[v] > 0
    BY <1>6, <2>1
  <2> QED BY <1>3, <2>2 DEF Good, Outcome
<1> QED
  BY <1>8, <1>9, <1>10, <1>11, <1>12, <1>13, <1>14, <1>15 DEF Good, t, d

\* The unit waits nowhere but, perhaps, for the answers of its tender.
Free(s, u) ==
    /\ u \notin ElementsOf(s.pending) /\ u \notin ElementsOf(s.pendingRouter)
    /\ u \notin ElementsOf(s.storage) /\ ~ Asked(s, "unit", u)

\* The piece u is no longer to be saved.
Noted(s, u) == [s EXCEPT !.units[Main(u)] = @ \ {u}, !.saved[Main(u)] = @ \cup {u}]

\* What counting the first copy of u leaves as it was.
FirstCounted(s, t, u) ==
    /\ t.copyCount = s.copyCount /\ t.local = s.local /\ t.deleted = s.deleted
    /\ Known(t, u) /\ t.unit[u].bkp = 1 /\ t.unit[u].backup = s.unit[u].backup
    /\ Below(s, {}) => Below(t, {u})
    /\ Nowhere(s, u) => Nowhere(t, u)
    /\ \A q \in Save : t.told[q] = <<"failed">> => s.told[q] = <<"failed">>

\* The first copy of a piece.
LEMMA NotedGood ==
    ASSUME NEW s \in Kernel, NEW c \in [Unit -> Nat], Good(s, c),
           NEW u \in Unit, Known(s, u), s.unit[u].bkp = 0, Free(s, u), ~ IsMaster(u),
           NEW t, t = Noted(Counting(s, u, 1), u),
           NEW d, d = Another(c, u)
    PROVE  /\ t \in Kernel /\ Good(t, d) /\ FirstCounted(s, t, u)
           /\ Main(u) \in t.ims /\ t.units[Main(u)] = s.units[Main(u)] \ {u}
           /\ ~ Asked(t, "key", Main(u)) /\ ~ Asked(t, "master", Main(u))
           /\ PiecesOf(Main(u)) \subseteq t.units[Main(u)] \cup t.saved[Main(u)]
<1> DEFINE w == Counting(s, u, 1)
           r == Main(u)
           g == [w.units EXCEPT ![r] = @ \ {u}]
           h == [w.saved EXCEPT ![r] = @ \cup {u}]
<1>1. /\ r \in Save /\ u \in UnitsOf(r) /\ u \in PiecesOf(r) /\ r \in s.ims /\ u \in s.units[r]
      /\ u # Master(r) /\ Master(r) \in UnitsOf(r) /\ Master(r) \in Unit
  BY UnitFacts, MasterFacts DEF Good, Counted, UnitsKept, UnitsKeptOf
<1>2. /\ w \in Kernel /\ Only(s, w, {"unit"})
      /\ w.unit[u].bkp = 1 /\ w.unit[u].backup = s.unit[u].backup
      /\ \A v \in Unit \ {u} : w.unit[v] = s.unit[v]
      /\ \A v \in Unit : Known(w, v) <=> Known(s, v)
  <2>1. 1 \in Nat
    OBVIOUS
  <2> QED BY <2>1, CountingIs
<1> HIDE DEF w
<1>3. t = [w EXCEPT !.units = g, !.saved = h]
  BY DEF Noted, w
<1> HIDE DEF r
<1>4. /\ g \in [Save -> SUBSET Unit] /\ h \in [Save -> SUBSET Unit]
      /\ g[r] = w.units[r] \ {u} /\ \A q \in Save \ {r} : g[q] = w.units[q]
      /\ h[r] = w.saved[r] \cup {u} /\ \A q \in Save \ {r} : h[q] = w.saved[q]
  BY <1>1, <1>2, KernelTypes
<1> HIDE DEF g, h
<1>5. /\ t \in Kernel /\ Only(w, t, {"units", "saved"}) /\ t.units = g /\ t.saved = h
  <2>1. t \in Kernel
    BY <1>2, <1>3, <1>4, ZenonT(30) DEF Kernel
  <2> QED BY <1>2, <1>3, <2>1 DEF Kernel, Only, Fields
<1>6. /\ t.copyCount = s.copyCount /\ t.unit = w.unit /\ t.local = s.local
      /\ t.routerSize = s.routerSize /\ t.storage = s.storage
      /\ t.tenders = s.tenders /\ t.key = s.key /\ t.ims = s.ims /\ t.backup = s.backup
      /\ t.pending = s.pending /\ t.pendingRouter = s.pendingRouter
      /\ t.requests = s.requests /\ t.garbled = s.garbled /\ t.aborted = s.aborted
      /\ t.deleted = s.deleted /\ t.told = s.told
      /\ w.units = s.units /\ w.saved = s.saved
  BY <1>2, <1>5 DEF Only, Fields
<1>7. /\ \A v \in Unit : Nowhere(t, v) <=> Nowhere(s, v)
      /\ \A x, y : Asked(t, x, y) <=> Asked(s, x, y)
      /\ \A v \in Unit : Known(t, v) <=> Known(s, v)
  BY <1>2, <1>6 DEF Nowhere, Asked, Known
<1>8. /\ \A q \in Save \ {r} : t.units[q] = s.units[q] /\ t.saved[q] = s.saved[q]
      /\ t.units[r] = s.units[r] \ {u} /\ t.saved[r] = s.saved[r] \cup {u}
      /\ \A v \in Unit \ {u} : t.unit[v] = s.unit[v]
      /\ t.unit[u].bkp = 1 /\ t.unit[u].backup = s.unit[u].backup
  BY <1>2, <1>4, <1>5, <1>6
<1>9. \A q \in Save \ {r} : /\ SameFor(s, c, t, d, q)
                            /\ Untouched(s, c, q) => Untouched(t, d, q)
  <2> SUFFICES ASSUME NEW q \in Save \ {r} PROVE SameFor(s, c, t, d, q)
    BY SameForKeeps
  <2>1. \A v \in UnitsOf(q) : v \in Unit \ {u}
    BY <1>1, UnitsOfFacts
  <2>2. \A v \in UnitsOf(q) : d[v] = c[v]
    BY <2>1, AnotherIs
  <2> QED BY <2>1, <2>2, <1>6, <1>7, <1>8 DEF SameFor
<1>10. ~ Untouched(s, c, r) /\ ~ Asked(s, "key", r) /\ ~ Asked(s, "master", r)
  <2>1. ~ Untouched(s, c, r)
    BY <1>1 DEF Untouched
  <2>2. ~ Asked(s, "key", r)
    BY <1>1, <2>1 DEF Good, Begun
  <2>3. ~ Asked(s, "master", r)
    BY <1>1 DEF Good, MasterJobs
  <2> QED BY <2>1, <2>2, <2>3
<1>11. OnePlace(t) /\ Answers(t) /\ ~ t.aborted
  BY <1>6, <1>7 DEF Good, OnePlace, Answers
<1>12. MasterJobs(t)
  BY <1>6, <1>7, <1>8, <1>10 DEF Good, MasterJobs
<1>13. Begun(t, d)
  BY <1>1, <1>6, <1>7, <1>9, <1>10 DEF Good, Begun
<1>14. Requests(t)
  BY <1>6, <1>7 DEF Good, Requests
<1>15. Counted(t, d)
  <2> SUFFICES ASSUME NEW v \in Unit, Known(t, v)
               PROVE  /\ t.unit[v].bkp <= t.copyCount
                      /\ t.unit[v].bkp = 0 => Main(v) \in t.ims
                      /\ t.unit[v].bkp > 0 => d[v] > 0
    BY DEF Counted
  <2>1. CASE v = u
    <3>1. s.copyCount \in Nat \ {0}
      BY KernelTypes
    <3> QED BY <1>6, <1>8, <2>1, <3>1, AnotherIs
  <2>2. CASE v # u
    BY <1>6, <1>7, <1>8, <2>2, AnotherIs DEF Good, Counted
  <2> QED BY <2>1, <2>2
<1>16. UnitsKeptOf(t, d, r) /\ PiecesOf(r) \subseteq t.units[r] \cup t.saved[r]
  <2>1. UnitsKeptOf(s, c, r)
    BY <1>1 DEF Good, UnitsKept
  <2>2. ~ Known(s, Master(r)) /\ Nowhere(s, Master(r))
    BY <1>1, <2>1 DEF UnitsKeptOf
  <2>3. PiecesOf(r) \subseteq s.units[r] \cup s.saved[r]
    BY <1>1, <1>10, <2>1 DEF UnitsKeptOf
  <2>4. \A v \in UnitsOf(r) : v \in t.units[r] <=> Known(t, v) /\ t.unit[v].bkp = 0
    BY <1>1, <1>7, <1>8, <2>1, UnitsOfFacts DEF UnitsKeptOf
  <2>5. \A v \in PiecesOf(r) : d[v] > 0 => v \in t.saved[r]
    BY <1>1, <1>8, <2>1, AnotherIs, UnitsOfFacts DEF UnitsKeptOf
  <2>6. /\ t.saved[r] \subseteq PiecesOf(r) /\ \A v \in t.saved[r] : d[v] > 0
        /\ t.units[r] \subseteq UnitsOf(r)
    BY <1>1, <1>8, <2>1, AnotherIs, UnitsOfFacts DEF UnitsKeptOf
  <2>7. PiecesOf(r) \subseteq t.units[r] \cup t.saved[r]
    BY <1>8, <2>3
  <2> QED BY <1>1, <1>7, <2>2, <2>4, <2>5, <2>6, <2>7 DEF UnitsKeptOf
<1>17. UnitsKept(t, d)
  BY <1>6, <1>9, <1>16, SameForKeeps DEF Good, UnitsKept
<1>18. Flags(t)
  <2> SUFFICES ASSUME NEW v \in Unit
               PROVE  /\ v \in ElementsOf(t.pending) => ~ IsMaster(v)
                      /\ v \in ElementsOf(t.pendingRouter) /\ IsMaster(v) => Local[Main(v)]
                      /\ Asked(t, "unit", v) => ~ IsMaster(v)
                      /\ Known(t, v) => FlagsOf(t, v)
    BY <1>6 DEF Good, Flags
  <2>1. CASE v = u
    BY <1>6, <1>7, <1>8, <2>1 DEF Free, FlagsOf, Good, Flags
  <2>2. CASE v # u
    BY <1>6, <1>7, <1>8, <2>2 DEF FlagsOf, Good, Flags
  <2> QED BY <2>1, <2>2
<1>19. Account(t)
  <2>1. Sent(t) = Sent(s)
    BY <1>7, <1>8 DEF Sent
  <2> QED BY <2>1, <1>6 DEF Good, Account
<1>20. Outcome(t, d)
  <2>1. \A q \in Save : t.told[q] = <<"saved">> => \A v \in UnitsOf(q) : v \in Unit /\ c[v] > 0
    BY <1>6, UnitsOfFacts DEF Good, Outcome
  <2>2. \A q \in Save : t.told[q] = <<"saved">> => \A v \in UnitsOf(q) : d[v] > 0
    BY <2>1, AnotherIs
  <2> QED BY <1>6, <2>2 DEF Good, Outcome
<1>21. FirstCounted(s, t, u)
  <2>1. Below(s, {}) => Below(t, {u})
    BY <1>6, <1>7, <1>8 DEF Below
  <2> QED BY <2>1, <1>6, <1>7, <1>8 DEF FirstCounted
<1> QED
  BY <1>1, <1>5, <1>6, <1>7, <1>8, <1>10, <1>11, <1>12, <1>13, <1>14, <1>15, <1>16, <1>17, <1>18,
     <1>19, <1>20, <1>21 DEF Good, r

\* The first copy of the master: the client is told.
LEMMA MasterSavedGood ==
    ASSUME NEW s \in Kernel, NEW c \in [Unit -> Nat], Good(s, c),
           NEW u \in Unit, Known(s, u), s.unit[u].bkp = 0, Free(s, u), IsMaster(u),
           NEW t, t = Answer(Counting(s, u, 1), Main(u), "saved"),
           NEW d, d = Another(c, u)
    PROVE  t \in Kernel /\ Good(t, d) /\ FirstCounted(s, t, u)
<1> DEFINE w == Counting(s, u, 1)
           r == Main(u)
<1>1. /\ r \in Save /\ u \in UnitsOf(r) /\ u = Master(r) /\ r \in s.ims /\ u \in s.units[r]
      /\ s.told[r] = <<>>
  BY UnitFacts, MasterFacts DEF Good, Counted, UnitsKept, UnitsKeptOf, Answers
<1>2. /\ w \in Kernel /\ Only(s, w, {"unit"})
      /\ w.unit[u].bkp = 1 /\ w.unit[u].backup = s.unit[u].backup
      /\ \A v \in Unit \ {u} : w.unit[v] = s.unit[v]
      /\ \A v \in Unit : Known(w, v) <=> Known(s, v)
  <2>1. 1 \in Nat
    OBVIOUS
  <2> QED BY <2>1, CountingIs
<1> HIDE DEF w
<1> HIDE DEF r
<1>3. t = Answer(w, r, "saved") /\ r \in w.ims
  BY <1>1, <1>2 DEF Only, Fields, w, r
<1>4. /\ t \in Kernel /\ Only(w, t, {"told", "ims"})
      /\ t.told = [w.told EXCEPT ![r] = Append(@, "saved")] /\ t.ims = w.ims \ {r}
  <2> DEFINE a == "saved"
  <2>1. a \in {"saved", "failed"} /\ t = Answer(w, r, a) /\ w \in Kernel
    BY <1>2, <1>3
  <2> HIDE DEF a
  <2>2. /\ t \in Kernel /\ Only(w, t, {"told", "ims"})
        /\ t.told = ToldAlso(w, r, a) /\ t.ims = w.ims \ {r}
    BY <1>1, <1>3, <2>1, AnswerIs
  <2> QED BY <2>2 DEF a, ToldAlso
<1>5. /\ t.copyCount = s.copyCount /\ t.unit = w.unit /\ t.local = s.local
      /\ t.routerSize = s.routerSize /\ t.storage = s.storage
      /\ t.tenders = s.tenders /\ t.key = s.key /\ t.ims = s.ims \ {r} /\ t.backup = s.backup
      /\ t.pending = s.pending /\ t.pendingRouter = s.pendingRouter
      /\ t.requests = s.requests /\ t.garbled = s.garbled /\ t.aborted = s.aborted
      /\ t.deleted = s.deleted /\ t.units = s.units /\ t.saved = s.saved
      /\ t.told = [s.told EXCEPT ![r] = Append(@, "saved")]
  BY <1>2, <1>4, ZenonT(30) DEF Only, Fields
<1>6. t.told[r] = <<"saved">> /\ \A q \in Save \ {r} : t.told[q] = s.told[q]
  BY <1>1, <1>5, KernelTypes
<1>7. /\ \A v \in Unit : Nowhere(t, v) <=> Nowhere(s, v)
      /\ \A x, y : Asked(t, x, y) <=> Asked(s, x, y)
      /\ \A v \in Unit : Known(t, v) <=> Known(s, v)
  BY <1>2, <1>5 DEF Nowhere, Asked, Known
<1>8. /\ \A v \in Unit \ {u} : t.unit[v] = s.unit[v]
      /\ t.unit[u].bkp = 1 /\ t.unit[u].backup = s.unit[u].backup
  BY <1>2, <1>5
<1>9. \A q \in Save \ {r} : /\ SameFor(s, c, t, d, q)
                            /\ Untouched(s, c, q) => Untouched(t, d, q)
  <2> SUFFICES ASSUME NEW q \in Save \ {r} PROVE SameFor(s, c, t, d, q)
    BY SameForKeeps
  <2>1. \A v \in UnitsOf(q) : v \in Unit \ {u}
    BY <1>1, UnitsOfFacts
  <2>2. \A v \in UnitsOf(q) : d[v] = c[v]
    BY <2>1, AnotherIs
  <2> QED BY <2>1, <2>2, <1>5, <1>7, <1>8 DEF SameFor
<1>10. ~ Untouched(s, c, r) /\ ~ Asked(s, "key", r) /\ ~ Asked(s, "master", r)
  <2>1. ~ Untouched(s, c, r)
    BY <1>1 DEF Untouched
  <2>2. ~ Asked(s, "key", r)
    BY <1>1, <2>1 DEF Good, Begun
  <2>3. ~ Asked(s, "master", r)
    BY <1>1 DEF Good, MasterJobs
  <2> QED BY <2>1, <2>2, <2>3
<1>11. /\ UnitsKeptOf(s, c, r) /\ s.units[r] = {u}
       /\ PiecesOf(r) \subseteq s.saved[r] /\ \A v \in s.saved[r] : c[v] > 0
  <2>1. UnitsKeptOf(s, c, r)
    BY <1>1 DEF Good, UnitsKept
  <2>2. s.units[r] = {u}
    BY <1>1, <2>1 DEF UnitsKeptOf
  <2>3. u \notin PiecesOf(r)
    BY <1>1, MasterFacts
  <2>4. PiecesOf(r) \subseteq s.units[r] \cup s.saved[r]
    BY <1>1, <1>10, <2>1 DEF UnitsKeptOf
  <2> QED BY <2>1, <2>2, <2>3, <2>4 DEF UnitsKeptOf
<1>12. OnePlace(t) /\ ~ t.aborted
  BY <1>5, <1>7 DEF Good, OnePlace
<1>13. Answers(t)
  <2> SUFFICES ASSUME NEW q \in Save
               PROVE  /\ t.told[q] \in {<<>>, <<"saved">>, <<"failed">>}
                      /\ q \in t.ims => t.told[q] = <<>>
    BY DEF Answers
  <2>1. CASE q = r
    BY <1>5, <1>6, <2>1
  <2>2. CASE q # r
    BY <1>5, <1>6, <2>2 DEF Good, Answers
  <2> QED BY <2>1, <2>2
<1>14. MasterJobs(t)
  BY <1>5, <1>7, <1>10 DEF Good, MasterJobs
<1>15. Begun(t, d)
  <2> SUFFICES ASSUME NEW q \in Save
               PROVE  /\ Asked(t, "key", q) => q \in t.ims /\ Untouched(t, d, q)
                      /\ q \notin t.ims /\ t.told[q] = <<>> => Untouched(t, d, q)
    BY DEF Begun
  <2>1. CASE q = r
    <3>1. <<"saved">> # <<>>
      OBVIOUS
    <3> QED BY <1>6, <1>7, <1>10, <2>1, <3>1
  <2>2. CASE q # r
    BY <1>5, <1>6, <1>7, <1>9, <2>2 DEF Good, Begun
  <2> QED BY <2>1, <2>2
<1>16. Requests(t)
  BY <1>5, <1>7 DEF Good, Requests
<1>17. Counted(t, d)
  <2> SUFFICES ASSUME NEW v \in Unit, Known(t, v)
               PROVE  /\ t.unit[v].bkp <= t.copyCount
                      /\ t.unit[v].bkp = 0 => Main(v) \in t.ims
                      /\ t.unit[v].bkp > 0 => d[v] > 0
    BY DEF Counted
  <2>1. CASE v = u
    <3>1. s.copyCount \in Nat \ {0}
      BY KernelTypes
    <3> QED BY <1>5, <1>8, <2>1, <3>1, AnotherIs
  <2>2. CASE v # u
    <3>1. Main(v) = r => ~ (Known(s, v) /\ s.unit[v].bkp = 0)
      <4> SUFFICES ASSUME Main(v) = r, Known(s, v), s.unit[v].bkp = 0 PROVE FALSE
        OBVIOUS
      <4>1. v \in UnitsOf(r)
        BY <1>1, UnitsOfFacts
      <4>2. v \in s.units[r]
        BY <1>1, <1>11, <4>1 DEF UnitsKeptOf
      <4> QED BY <1>11, <2>2, <4>2
    <3>2. /\ s.unit[v].bkp <= s.copyCount
          /\ s.unit[v].bkp = 0 => Main(v) \in s.ims
          /\ s.unit[v].bkp > 0 => c[v] > 0
      BY <1>7 DEF Good, Counted
    <3>3. t.unit[v] = s.unit[v] /\ d[v] = c[v]
      BY <1>8, <2>2, AnotherIs
    <3> QED BY <1>5, <1>7, <3>1, <3>2, <3>3
  <2> QED BY <2>1, <2>2
<1>18. UnitsKept(t, d)
  <2> SUFFICES ASSUME NEW q \in Save PROVE UnitsKeptOf(t, d, q)
    BY DEF UnitsKept
  <2>1. CASE q = r
    <3>1. \A v \in s.saved[r] : v \in Unit
      BY <1>1, KernelTypes
    <3>2. \A v \in s.saved[r] : d[v] > 0
      BY <1>11, <3>1, AnotherIs
    <3> QED BY <1>5, <1>11, <2>1, <3>2 DEF UnitsKeptOf
  <2>2. CASE q # r
    BY <1>5, <1>9, <2>2, SameForKeeps DEF Good, UnitsKept
  <2> QED BY <2>1, <2>2
<1>19. Flags(t)
  <2> SUFFICES ASSUME NEW v \in Unit
               PROVE  /\ v \in ElementsOf(t.pending) => ~ IsMaster(v)
                      /\ v \in ElementsOf(t.pendingRouter) /\ IsMaster(v) => Local[Main(v)]
                      /\ Asked(t, "unit", v) => ~ IsMaster(v)
                      /\ Known(t, v) => FlagsOf(t, v)
    BY <1>5 DEF Good, Flags
  <2>1. CASE v = u
    BY <1>5, <1>7, <1>8, <2>1 DEF Free, FlagsOf, Good, Flags
  <2>2. CASE v # u
    BY <1>5, <1>7, <1>8, <2>2 DEF FlagsOf, Good, Flags
  <2> QED BY <2>1, <2>2
<1>20. Account(t)
  <2>1. Sent(t) = Sent(s)
    BY <1>7, <1>8 DEF Sent
  <2> QED BY <2>1, <1>5 DEF Good, Account
<1>21. Outcome(t, d)
  <2>1. \A v \in t.deleted : t.told[Main(v)] = <<"failed">>
    <3> SUFFICES ASSUME NEW v \in t.deleted PROVE t.told[Main(v)] = <<"failed">>
      OBVIOUS
    <3>1. s.told[Main(v)] = <<"failed">> /\ Main(v) \in Save
      BY <1>5, KernelTypes, UnitFacts DEF Good, Outcome
    <3> QED BY <1>1, <1>6, <3>1
  <2>2. \A v \in UnitsOf(r) : d[v] > 0
    <3> SUFFICES ASSUME NEW v \in UnitsOf(r) PROVE d[v] > 0
      OBVIOUS
    <3>1. v \in Unit /\ (v = u \/ v \in PiecesOf(r))
      BY <1>1, UnitsOfFacts
    <3>2. v # u => c[v] > 0
      BY <1>11, <3>1
    <3> QED BY <3>1, <3>2, AnotherIs
  <2>3. ASSUME NEW q \in Save \ {r}, t.told[q] = <<"saved">> PROVE \A v \in UnitsOf(q) : d[v] > 0
    <3>1. \A v \in UnitsOf(q) : v \in Unit /\ c[v] > 0
      BY <1>6, <2>3, UnitsOfFacts DEF Good, Outcome
    <3> QED BY <3>1, AnotherIs
  <2> QED BY <1>5, <2>1, <2>2, <2>3 DEF Good, Outcome
<1>22. FirstCounted(s, t, u)
  <2>1. Below(s, {}) => Below(t, {u})
    BY <1>5, <1>7, <1>8 DEF Below
  <2>2. \A q \in Save : t.told[q] = <<"failed">> => s.told[q] = <<"failed">>
    BY <1>6
  <2> QED BY <2>1, <2>2, <1>5, <1>7, <1>8 DEF FirstCounted
<1> QED
  BY <1>4, <1>12, <1>13, <1>14, <1>15, <1>16, <1>17, <1>18, <1>19, <1>20, <1>21, <1>22 DEF Good

\* Counting the first copy of u, with all the code does for it until the unit
\* goes to the peers or away.
Confirmed(s, u) == IF IsMaster(u) THEN Answer(Counting(s, u, 1), Main(u), "saved")
                                  ELSE ConfirmPiece(Counting(s, u, 1), u)

\* The first copy of a unit, with what process_save_confirm_for_piece starts.
LEMMA ConfirmedGood ==
    ASSUME NEW s \in Kernel, NEW c \in [Unit -> Nat], Good(s, c),
           NEW u \in Unit, Known(s, u), s.unit[u].bkp = 0, Free(s, u),
           NEW t, t = Confirmed(s, u),
           NEW d, d = Another(c, u)
    PROVE  t \in Kernel /\ Good(t, d) /\ FirstCounted(s, t, u)
<1>1. CASE IsMaster(u)
  <2>1. t = Answer(Counting(s, u, 1), Main(u), "saved")
    BY <1>1 DEF Confirmed
  <2> QED BY <1>1, <2>1, MasterSavedGood
<1>2. CASE ~ IsMaster(u)
  <2> DEFINE w == Counting(s, u, 1)
             v == Noted(w, u)
             r == Main(u)
             rest == w.units[r] \ {u}
  <2>1. /\ v \in Kernel /\ Good(v, d) /\ FirstCounted(s, v, u)
        /\ r \in v.ims /\ v.units[r] = s.units[r] \ {u}
        /\ ~ Asked(v, "key", r) /\ ~ Asked(v, "master", r)
        /\ PiecesOf(r) \subseteq v.units[r] \cup v.saved[r]
    BY <1>2, NotedGood
  <2>2. r \in Save /\ u # Master(r) /\ d \in [Unit -> Nat]
    BY <1>2, UnitFacts, AnotherIs
  <2>3. w.units = s.units
    <3>1. 1 \in Nat
      OBVIOUS
    <3>2. Only(s, w, {"unit"})
      BY <3>1, CountingIs
    <3> HIDE DEF w
    <3> QED BY <3>2 DEF Only, Fields
  <2>4. t = IF rest = {} THEN StartMaster(v, r) ELSE v
    BY <1>2 DEF Confirmed, ConfirmPiece, SavedWith, AllPiecesSaved, Noted
  <2> HIDE DEF v, w, r
  <2>5. CASE rest = {}
    <3>1. ReadyFor(v, r)
      BY <2>1, <2>3, <2>5 DEF ReadyFor
    <3>2. t = StartMaster(v, r)
      BY <2>4, <2>5
    <3>3. t \in Kernel /\ Good(t, d) /\ MasterStarted(v, t, r)
      BY <2>1, <2>2, <3>1, <3>2, StartMasterGood
    <3>4. /\ t.copyCount = v.copyCount /\ t.local = v.local /\ t.deleted = v.deleted
          /\ t.told = v.told /\ t.unit[u] = v.unit[u] /\ (Nowhere(v, u) => Nowhere(t, u))
      BY <2>2, <3>3 DEF MasterStarted
    <3>5. t.copyCount \in Nat \ {0}
      BY <3>3, KernelTypes
    <3>6. Below(v, {u}) => Below(t, {u})
      BY <3>3, <3>5 DEF MasterStarted, Below, Known
    <3>7. FirstCounted(s, t, u)
      BY <2>1, <3>4, <3>6 DEF FirstCounted, Known
    <3> QED BY <3>3, <3>7
  <2>6. CASE rest # {}
    <3>1. t = v
      BY <2>4, <2>6
    <3> QED BY <2>1, <3>1
  <2> QED BY <2>5, <2>6
<1> QED BY <1>1, <1>2

\* It has a copy here, or it is the only unit of a save the storage refused.
Pushable(s, t, u) ==
    \/ t.local = s.local /\ s.unit[u].bkp > 0
    \/ /\ ~ t.local[Main(u)] /\ Main(u) \notin Fits /\ Local[Main(u)]
       /\ IsMaster(u) /\ PiecesOf(Main(u)) = {}

\* A unit in the list for the router keeps the invariant.
LEMMA PushedToRouterGood ==
    ASSUME NEW s \in Kernel, NEW c \in [Unit -> Nat], Good(s, c),
           NEW u \in Unit, Known(s, u), Nowhere(s, u), ~ s.unit[u].backup,
           NEW t \in Kernel, Only(s, t, {"local", "storageCnt", "pendingRouter"}),
           t.pendingRouter = <<u>> \o s.pendingRouter,
           \A q \in Save \ {Main(u)} : t.local[q] = s.local[q],
           IsMaster(u) => Local[Main(u)],
           Pushable(s, t, u)
    PROVE  /\ Good(t, c)
           /\ \A U : Below(s, U) => Below(t, U)
           /\ t.told = s.told /\ t.deleted = s.deleted
<1> DEFINE r == Main(u)
<1> USE DEF Pushable
<1>1. r \in Save /\ u \in UnitsOf(r) /\ s.local[r] \in BOOLEAN /\ t.local[r] \in BOOLEAN
  BY UnitFacts, KernelTypes
<1>2. /\ t.copyCount = s.copyCount /\ t.unit = s.unit /\ t.units = s.units
      /\ t.saved = s.saved
      /\ t.routerSize = s.routerSize /\ t.storage = s.storage
      /\ t.tenders = s.tenders /\ t.key = s.key /\ t.ims = s.ims /\ t.backup = s.backup
      /\ t.pending = s.pending
      /\ t.requests = s.requests /\ t.garbled = s.garbled /\ t.aborted = s.aborted
      /\ t.deleted = s.deleted /\ t.told = s.told
  BY DEF Only, Fields
<1>3. /\ \A v : Known(t, v) <=> Known(s, v)
      /\ \A x, y : Asked(t, x, y) <=> Asked(s, x, y)
  BY <1>2 DEF Known, Asked
<1>4. ElementsOf(t.pendingRouter) = ElementsOf(s.pendingRouter) \cup {u} /\ Once(t.pendingRouter)
  <2>1. s.pendingRouter \in Seq(Unit) /\ Once(s.pendingRouter) /\ u \notin ElementsOf(s.pendingRouter)
    BY KernelTypes DEF Good, OnePlace, Nowhere
  <2> QED BY <2>1, PushedElements
<1>5. \A v \in Unit \ {u} : /\ v \in ElementsOf(t.pendingRouter) <=> v \in ElementsOf(s.pendingRouter)
                            /\ Nowhere(s, v) => Nowhere(t, v)
  BY <1>2, <1>3, <1>4 DEF Nowhere
<1> HIDE DEF r
<1>6. ~ Untouched(s, c, r)
  BY <1>1 DEF Untouched
<1>7. \A q \in Save \ {r} : /\ SameFor(s, c, t, c, q)
                            /\ Untouched(s, c, q) => Untouched(t, c, q)
  <2> SUFFICES ASSUME NEW q \in Save \ {r} PROVE SameFor(s, c, t, c, q)
    BY SameForKeeps
  <2>1. \A v \in UnitsOf(q) : v \in Unit \ {u}
    BY <1>1, UnitsOfFacts DEF r
  <2> QED BY <2>1, <1>2, <1>3, <1>5 DEF SameFor, r
<1>8. OnePlace(t)
  <2>1. Once(t.pending) /\ Once(t.storage) /\ Once(t.key)
    BY <1>2 DEF Good, OnePlace
  <2> SUFFICES ASSUME NEW v \in Unit
               PROVE  /\ v \in ElementsOf(t.pending) =>
                             v \notin ElementsOf(t.pendingRouter) /\ v \notin ElementsOf(t.storage)
                             /\ v \notin t.tenders /\ ~ Asked(t, "unit", v)
                      /\ v \in ElementsOf(t.pendingRouter) =>
                             v \notin ElementsOf(t.storage) /\ v \notin t.tenders
                             /\ ~ Asked(t, "unit", v)
                      /\ v \in ElementsOf(t.storage) => v \notin t.tenders /\ ~ Asked(t, "unit", v)
                      /\ v \in t.tenders => ~ Asked(t, "unit", v)
    BY <1>4, <2>1 DEF OnePlace
  <2>2. CASE v = u
    BY <1>2, <1>3, <2>2 DEF Nowhere
  <2>3. CASE v # u
    BY <1>2, <1>3, <1>5, <2>3 DEF Good, OnePlace
  <2> QED BY <2>2, <2>3
<1>9. Answers(t) /\ Counted(t, c) /\ Outcome(t, c) /\ MasterJobs(t) /\ ~ t.aborted
  BY <1>2, <1>3 DEF Good, Answers, Counted, Outcome, MasterJobs
<1>10. Begun(t, c)
  BY <1>2, <1>3, <1>6, <1>7 DEF Good, Begun
<1>11. Requests(t)
  BY <1>2, <1>3 DEF Good, Requests
<1>12. UnitsKept(t, c)
  <2> SUFFICES ASSUME NEW q \in Save PROVE UnitsKeptOf(t, c, q)
    BY DEF UnitsKept
  <2>1. CASE q = r
    <3>1. UnitsKeptOf(s, c, q) /\ ~ Untouched(s, c, q)
      BY <1>6, <2>1 DEF Good, UnitsKept
    <3>2. Master(q) \in Unit /\ (~ Known(s, Master(q)) => Master(q) # u)
      BY MasterFacts
    <3> QED BY <3>1, <3>2, <1>2, <1>3, <1>5 DEF UnitsKeptOf
  <2>2. CASE q # r
    BY <1>2, <1>7, <2>2, SameForKeeps DEF Good, UnitsKept
  <2> QED BY <2>1, <2>2
<1>13. Flags(t)
  <2>1. \A q \in Save : t.local[q] # Local[q] => q \notin Fits /\ Local[q]
    BY DEF Good, Flags, r
  <2> SUFFICES ASSUME NEW v \in Unit
               PROVE  /\ v \in ElementsOf(t.pending) => ~ IsMaster(v)
                      /\ v \in ElementsOf(t.pendingRouter) /\ IsMaster(v) => Local[Main(v)]
                      /\ Asked(t, "unit", v) => ~ IsMaster(v)
                      /\ Known(t, v) => FlagsOf(t, v)
    BY <2>1 DEF Flags
  <2>2. CASE v = u
    <3>1. /\ v \notin ElementsOf(t.pending) /\ v \notin ElementsOf(t.storage)
          /\ v \notin t.tenders /\ ~ Asked(t, "unit", v) /\ t.unit[v] = s.unit[v]
      BY <1>2, <1>3, <2>2 DEF Nowhere
    <3> QED BY <2>2, <3>1 DEF FlagsOf
  <2>3. CASE v # u
    <3>1. t.local[Main(v)] = s.local[Main(v)]
      <4>1. CASE t.local = s.local
        BY <4>1
      <4>2. CASE IsMaster(u) /\ PiecesOf(Main(u)) = {}
        <5>1. v \in UnitsOf(Main(v)) /\ Main(v) \in Save
          BY UnitFacts
        <5>2. Main(v) # Main(u)
          BY <2>3, <4>2, <5>1, UnitFacts DEF UnitsOf
        <5> QED BY <5>1, <5>2
      <4> QED BY <4>1, <4>2
    <3>2. /\ v \in ElementsOf(t.pending) <=> v \in ElementsOf(s.pending)
          /\ v \in ElementsOf(t.pendingRouter) <=> v \in ElementsOf(s.pendingRouter)
          /\ v \in ElementsOf(t.storage) <=> v \in ElementsOf(s.storage)
          /\ v \in t.tenders <=> v \in s.tenders
          /\ Asked(t, "unit", v) <=> Asked(s, "unit", v)
          /\ Known(t, v) <=> Known(s, v)
          /\ t.unit[v] = s.unit[v]
      BY <1>2, <1>3, <1>5, <2>3
    <3> QED BY <3>1, <3>2 DEF FlagsOf, Good, Flags
  <2> QED BY <2>2, <2>3
<1>14. Account(t)
  BY <1>2, <1>3 DEF Good, Account, Sent
<1>15. \A U : Below(s, U) => Below(t, U)
  BY <1>2, <1>3 DEF Below
<1> QED
  BY <1>2, <1>8, <1>9, <1>10, <1>11, <1>12, <1>13, <1>14, <1>15 DEF Good

\* A unit that has a copy here goes on to the peers.
ToTheRouter(s, u) == [s EXCEPT !.storageCnt = Reduced(@, 1),
                               !.pendingRouter = <<u>> \o @]

\* Both changes keep the invariant.
LEMMA ToTheRouterGood ==
    ASSUME NEW s \in Kernel, NEW c \in [Unit -> Nat], Good(s, c),
           NEW u \in Unit, Known(s, u), Nowhere(s, u), ~ s.unit[u].backup,
           s.unit[u].bkp > 0, IsMaster(u) => Local[Main(u)]
    PROVE  /\ ToTheRouter(s, u) \in Kernel /\ Good(ToTheRouter(s, u), c)
           /\ \A U : Below(s, U) => Below(ToTheRouter(s, u), U)
           /\ ToTheRouter(s, u).told = s.told /\ ToTheRouter(s, u).deleted = s.deleted
<1> DEFINE n == Reduced(s.storageCnt, 1)
           z == <<u>> \o s.pendingRouter
           t == ToTheRouter(s, u)
<1>1. s.storageCnt \in Nat /\ s.pendingRouter \in Seq(Unit)
  BY KernelTypes
<1>2. n \in Nat
  BY <1>1, ReducedIs
<1>3. z \in Seq(Unit)
  BY <1>1
<1>4. t = [s EXCEPT !.storageCnt = n, !.pendingRouter = z]
  BY DEF ToTheRouter
<1> HIDE DEF n, z, t
<1>5. /\ t \in Kernel /\ Only(s, t, {"local", "storageCnt", "pendingRouter"})
      /\ t.pendingRouter = z /\ t.local = s.local
  BY <1>2, <1>3, <1>4 DEF Kernel, Only, Fields
<1>6. /\ t.pendingRouter = <<u>> \o s.pendingRouter
      /\ \A q \in Save \ {Main(u)} : t.local[q] = s.local[q]
  BY <1>5 DEF z
<1>7. Pushable(s, t, u)
  BY <1>5 DEF Pushable
<1>8. /\ Good(t, c) /\ \A U : Below(s, U) => Below(t, U)
      /\ t.told = s.told /\ t.deleted = s.deleted
  BY <1>5, <1>6, <1>7, PushedToRouterGood, ZenonT(30)
<1> QED BY <1>5, <1>8 DEF t

\* handle_first_backup_of_save_unit keeps the invariant.
LEMMA FirstBackupGood ==
    ASSUME NEW s \in Kernel, NEW c \in [Unit -> Nat], Good(s, c), Below(s, {}),
           NEW u \in Unit, Known(s, u), s.unit[u].bkp = 0, Free(s, u),
           s.local[Main(u)] => Nowhere(s, u),
           s.local[Main(u)] <=> ~ s.unit[u].backup,
           NEW t, t = FirstBackup(Counting(s, u, 1), u),
           NEW d, d = Another(c, u)
    PROVE  /\ t \in Kernel /\ Good(t, d) /\ Below(t, {}) /\ t.deleted = s.deleted
           /\ \A q \in Save : t.told[q] = <<"failed">> => s.told[q] = <<"failed">>
<1> DEFINE v == Confirmed(s, u)
           w == Counting(s, u, 1)
           r == Main(u)
           x == ToTheRouter(v, u)
<1>1. v \in Kernel /\ Good(v, d) /\ FirstCounted(s, v, u)
  BY ConfirmedGood
<1>2. r \in Save /\ d \in [Unit -> Nat] /\ (IsMaster(u) => u \in Unit)
  BY UnitFacts, AnotherIs
<1>3. w.copyCount = s.copyCount /\ w.local = s.local
  <2>1. 1 \in Nat
    OBVIOUS
  <2>2. Only(s, w, {"unit"})
    BY <2>1, CountingIs
  <2> HIDE DEF w
  <2> QED BY <2>2 DEF Only, Fields
<1>4. t = IF s.copyCount = 1 THEN CleanUp(v, u) ELSE IF s.local[r] THEN x ELSE v
  BY <1>3 DEF FirstBackup, Confirmed, ToTheRouter
<1>5. /\ v.copyCount = s.copyCount /\ v.local = s.local /\ v.deleted = s.deleted
      /\ Known(v, u) /\ v.unit[u].bkp = 1 /\ v.unit[u].backup = s.unit[u].backup
      /\ Below(v, {u}) /\ (Nowhere(s, u) => Nowhere(v, u))
      /\ \A q \in Save : v.told[q] = <<"failed">> => s.told[q] = <<"failed">>
  BY <1>1 DEF FirstCounted
<1>6. s.copyCount \in Nat \ {0}
  BY KernelTypes
<1>7. CASE s.copyCount = 1
  <2> HIDE DEF v
  <2>1. t = CleanUp(v, u)
    BY <1>4, <1>7
  <2>2. v.copyCount = 1 /\ v.unit[u].bkp > 0 /\ (v.local[Main(u)] <=> ~ v.unit[u].backup)
    BY <1>5, <1>7
  <2>3. /\ t \in Kernel /\ Good(t, d) /\ t.copyCount = v.copyCount
        /\ t.unit = [v.unit EXCEPT ![u] = None] /\ t.told = v.told /\ t.deleted = v.deleted
    <3> HIDE DEF w, r, x
    <3>1. v \in Kernel /\ Good(v, d) /\ Known(v, u) /\ Below(v, {u})
      BY <1>1, <1>5
    <3> QED BY <1>2, <2>1, <2>2, <3>1, CleanUpGood, SMTT(30)
  <2>4. \A y \in Unit : /\ Known(t, y) <=> y # u /\ Known(v, y)
                        /\ y # u => t.unit[y] = v.unit[y]
    BY <1>1, <2>3, ForgottenIs, SMTT(30)
  <2>5. Below(t, {})
    BY <1>5, <2>3, <2>4 DEF Below
  <2> QED BY <1>5, <2>3, <2>5
<1>8. CASE s.copyCount # 1
  <2>1. Below(v, {})
    BY <1>5, <1>6, <1>8 DEF Below
  <2>2. CASE s.local[r]
    <3>1. t = x
      BY <1>4, <1>8, <2>2
    <3> HIDE DEF v, w
    <3>2. IsMaster(u) => Local[Main(u)]
      <4>1. s.local[r] # Local[r] => Local[r]
        BY <1>2 DEF Good, Flags
      <4> QED BY <2>2, <4>1
    <3>3. Nowhere(v, u) /\ ~ v.unit[u].backup /\ v.unit[u].bkp > 0
      BY <1>5, <2>2
    <3>4. /\ x \in Kernel /\ Good(x, d) /\ \A U : Below(v, U) => Below(x, U)
          /\ x.told = v.told /\ x.deleted = v.deleted
      BY <1>1, <1>2, <1>5, <3>2, <3>3, ToTheRouterGood
    <3> QED BY <1>5, <2>1, <3>1, <3>4
  <2>3. CASE ~ s.local[r]
    <3>1. t = v
      BY <1>4, <1>8, <2>3
    <3> QED BY <1>1, <1>5, <2>1, <3>1
  <2> QED BY <2>2, <2>3
<1> QED BY <1>7, <1>8

\* handle_save_confirm_for_local_save_unit keeps the invariant.
LEMMA ConfirmGood ==
    ASSUME OnlySmallPlainRefused,
           NEW s \in Kernel, NEW c \in [Unit -> Nat], Good(s, c), Below(s, {}),
           NEW u \in Unit, Known(s, u), Free(s, u),
           s.unit[u].bkp = 0 => /\ s.local[Main(u)] => Nowhere(s, u)
                                /\ s.local[Main(u)] <=> ~ s.unit[u].backup,
           s.unit[u].bkp > 0 => s.unit[u].backup,
           NEW t, t = Confirm(s, u),
           NEW d, d = Another(c, u)
    PROVE  /\ t \in Kernel /\ Good(t, d) /\ Below(t, {}) /\ t.deleted = s.deleted
           /\ \A q \in Save : t.told[q] = <<"failed">> => s.told[q] = <<"failed">>
<1> DEFINE n == s.unit[u].bkp + 1
           w == Counting(s, u, n)
           v == IF n = 1 THEN FirstBackup(w, u)
                ELSE IF LastCopy(s, n) THEN LastBackup(w, u) ELSE w
<1>1. s.unit[u].bkp \in Nat /\ s.copyCount \in Nat \ {0} /\ s.unit[u].bkp < s.copyCount
  BY KernelTypes DEF Below
<1>2. d \in [Unit -> Nat]
  BY AnotherIs
<1>3. t = ProcessPending(v)
  BY DEF Confirm, Counting
<1>4. /\ v \in Kernel /\ Good(v, d) /\ Below(v, {}) /\ v.deleted = s.deleted
      /\ \A q \in Save : v.told[q] = <<"failed">> => s.told[q] = <<"failed">>
  <2>1. CASE s.unit[u].bkp = 0
    <3>1. v = FirstBackup(Counting(s, u, 1), u)
      BY <2>1
    <3> HIDE DEF v
    <3> QED BY <2>1, <3>1, FirstBackupGood
  <2>2. CASE s.unit[u].bkp > 0
    <3>1. n \in Nat /\ n # 1 /\ n > 0
      BY <1>1, <2>2
    <3>2. /\ w \in Kernel /\ Only(s, w, {"unit"})
          /\ w.unit[u].bkp = n /\ w.unit[u].backup = s.unit[u].backup
          /\ \A y \in Unit \ {u} : w.unit[y] = s.unit[y]
          /\ \A y \in Unit : Known(w, y) <=> Known(s, y)
      BY <3>1, CountingIs, SMTT(30)
    <3>3. Good(w, d)
      <4>1. n <= s.copyCount
        BY <1>1
      <4> HIDE DEF n
      <4> QED BY <2>2, <3>1, <4>1, CountedAgainGood
    <3>4. v = IF n = s.copyCount THEN LastBackup(w, u) ELSE w
      BY <3>1 DEF LastCopy
    <3> HIDE DEF w, v
    <3>5. w.copyCount = s.copyCount /\ w.told = s.told /\ w.deleted = s.deleted
      BY <3>2 DEF Only, Fields
    <3>6. Below(w, {u})
      BY <3>2, <3>5 DEF Below
    <3>7. CASE n = s.copyCount
      <4>1. Known(w, u) /\ w.unit[u].bkp > 0 /\ w.unit[u].backup /\ v = LastBackup(w, u)
        BY <2>2, <3>1, <3>2, <3>4, <3>7
      <4>2. /\ v \in Kernel /\ Good(v, d) /\ v.copyCount = w.copyCount
            /\ v.unit = [w.unit EXCEPT ![u] = None]
            /\ v.told = w.told /\ v.deleted = w.deleted
        BY <1>2, <3>2, <3>3, <4>1, LastBackupGood
      <4>3. \A y \in Unit : /\ Known(v, y) <=> y # u /\ Known(w, y)
                            /\ y # u => v.unit[y] = w.unit[y]
        BY <3>2, <4>2, ForgottenIs
      <4>4. Below(v, {})
        BY <3>6, <4>2, <4>3 DEF Below
      <4> QED BY <3>5, <4>2, <4>4
    <3>8. CASE n # s.copyCount
      <4>1. w.unit[u].bkp < w.copyCount
        BY <1>1, <3>2, <3>5, <3>8
      <4>2. Below(w, {})
        BY <3>6, <4>1 DEF Below
      <4> QED BY <3>2, <3>3, <3>4, <3>5, <3>8, <4>2
    <3> QED BY <3>7, <3>8
  <2> QED BY <1>1, <2>1, <2>2, SMTT(30)
<1> HIDE DEF v
<1>5. /\ t \in Kernel /\ Good(t, d) /\ (Below(v, {}) => Below(t, {}))
      /\ t.told = v.told /\ t.deleted = v.deleted
  BY <1>2, <1>3, <1>4, ProcessPendingGood
<1> QED BY <1>4, <1>5

-----------------------------------------------------------------------------
(* A unit has failed, or the storage has no room for it. *)

\* Either nobody is told, or a client is told of the failure and what was saved
\* for it until then is to be deleted.
FailSays(s, t) ==
    \/ t.told = s.told /\ t.deleted = s.deleted
    \/ \E r \in s.ims : /\ t.told = [s.told EXCEPT ![r] = <<"failed">>]
                        /\ t.deleted = s.deleted \cup s.saved[r]

\* handle_failed_save_unit keeps the invariant.
LEMMA FailGood ==
    ASSUME OnlySmallPlainRefused,
           NEW s \in Kernel, NEW c \in [Unit -> Nat], Good(s, c), Below(s, {}),
           NEW u \in Unit, Known(s, u), s.unit[u].bkp > 0 => s.unit[u].backup,
           NEW t, t = Fail(s, u)
    PROVE  /\ t \in Kernel /\ Good(t, c) /\ Below(t, {})
           /\ FailSays(s, t)
<1> DEFINE v == IF s.unit[u].bkp = 0 THEN Abandon(s, Main(u)) ELSE StopBackup(s, u)
<1>1. s.unit[u].bkp \in Nat
  BY KernelTypes
<1>2. t = ProcessPending(v)
  BY DEF Fail
<1>3. v \in Kernel /\ Good(v, c) /\ Below(v, {}) /\ FailSays(s, v)
  <2>1. CASE s.unit[u].bkp = 0
    <3> DEFINE r == Main(u)
    <3>1. v = Abandon(s, r)
      BY <2>1
    <3> HIDE DEF v, r
    <3>2. /\ v \in Kernel /\ Good(v, c) /\ v.copyCount = s.copyCount
          /\ \A y \in Unit : Known(v, y) => Known(s, y) /\ v.unit[y] = s.unit[y]
          /\ r \in s.ims /\ v.told = [s.told EXCEPT ![r] = <<"failed">>]
          /\ v.deleted = s.deleted \cup s.saved[r]
      BY <2>1, <3>1, AbandonGood DEF r
    <3>3. Below(v, {})
      BY <3>2 DEF Below
    <3> QED BY <3>2, <3>3 DEF FailSays
  <2>2. CASE s.unit[u].bkp > 0
    <3>1. v = StopBackup(s, u)
      BY <2>2
    <3> HIDE DEF v
    <3>2. /\ v \in Kernel /\ Good(v, c) /\ v.copyCount = s.copyCount
          /\ v.unit = [s.unit EXCEPT ![u] = None]
          /\ v.told = s.told /\ v.deleted = s.deleted
      BY <2>2, <3>1, StopBackupGood
    <3>3. \A y \in Unit : /\ Known(v, y) <=> y # u /\ Known(s, y)
                          /\ y # u => v.unit[y] = s.unit[y]
      BY <3>2, ForgottenIs
    <3>4. Below(v, {})
      BY <3>2, <3>3 DEF Below
    <3> QED BY <3>2, <3>4 DEF FailSays
  <2> HIDE DEF v
  <2> QED BY <1>1, <2>1, <2>2
<1> HIDE DEF v
<1>4. /\ t \in Kernel /\ Good(t, c) /\ (Below(v, {}) => Below(t, {}))
      /\ t.told = v.told /\ t.deleted = v.deleted
  BY <1>2, <1>3, ProcessPendingGood
<1> QED BY <1>3, <1>4 DEF FailSays

\* handle_no_space_for_local_save_unit keeps the invariant.
LEMMA NoSpaceGood ==
    ASSUME OnlySmallPlainRefused,
           NEW s \in Kernel, NEW c \in [Unit -> Nat], Good(s, c), Below(s, {}),
           NEW u \in Unit, Known(s, u), Nowhere(s, u), Main(u) \notin Fits,
           s.local[Main(u)], s.unit[u].bkp = 0, ~ s.unit[u].backup,
           NEW t, t = NoSpace(s, u)
    PROVE  /\ t \in Kernel /\ Good(t, c) /\ Below(t, {})
           /\ t.told = s.told /\ t.deleted = s.deleted
<1> DEFINE r == Main(u)
           l == [s.local EXCEPT ![r] = FALSE]
           n == Reduced(s.storageCnt, 1)
           z == <<u>> \o s.pendingRouter
           v == [s EXCEPT !.local = l, !.storageCnt = n, !.pendingRouter = z]
<1>1. r \in Save /\ u \in UnitsOf(r)
  BY UnitFacts
<1>2. Local[r]
  <2>1. s.local[r] # Local[r] => Local[r]
    BY <1>1 DEF Good, Flags
  <2> QED BY <2>1
<1>3. Pieces[r] = 0
  BY <1>1, <1>2 DEF OnlySmallPlainRefused
<1>4. PiecesOf(r) = {}
  BY <1>3 DEF PiecesOf
<1>5. IsMaster(u)
  BY <1>1, <1>4, UnitFacts
<1>6. /\ l \in [Save -> BOOLEAN] /\ ~ l[r]
      /\ \A q \in Save \ {Main(u)} : l[q] = s.local[q]
  BY <1>1, KernelTypes
<1>7. n \in Nat /\ z \in Seq(Unit)
  <2>1. s.storageCnt \in Nat /\ s.pendingRouter \in Seq(Unit)
    BY KernelTypes
  <2>2. n \in Nat
    BY <2>1, ReducedIs
  <2>3. z \in Seq(Unit)
    BY <2>1
  <2> QED BY <2>2, <2>3
<1>8. t = ProcessPending(Require(s.unit[u].bkp = 0, v))
  BY DEF NoSpace
<1> HIDE DEF l, n, z
<1>9. /\ v \in Kernel /\ Only(s, v, {"local", "storageCnt", "pendingRouter"})
      /\ v.pendingRouter = z /\ v.local = l
  BY <1>6, <1>7 DEF Kernel, Only, Fields
<1> HIDE DEF v
<1>10. Require(s.unit[u].bkp = 0, v) = v
  BY <1>9, RequireIs
<1>11. /\ v.pendingRouter = <<u>> \o s.pendingRouter
       /\ \A q \in Save \ {Main(u)} : v.local[q] = s.local[q]
       /\ ~ v.local[Main(u)]
  BY <1>6, <1>9 DEF z
<1>15. Pushable(s, v, u)
  BY <1>2, <1>4, <1>5, <1>11 DEF Pushable
<1>12. /\ Good(v, c) /\ \A U : Below(s, U) => Below(v, U)
       /\ v.told = s.told /\ v.deleted = s.deleted
  BY <1>2, <1>9, <1>11, <1>15, PushedToRouterGood
<1>13. t = ProcessPending(v)
  BY <1>8, <1>10
<1>14. /\ t \in Kernel /\ Good(t, c) /\ (Below(v, {}) => Below(t, {}))
       /\ t.told = v.told /\ t.deleted = v.deleted
  BY <1>9, <1>12, <1>13, ProcessPendingGood
<1> QED BY <1>12, <1>14

-----------------------------------------------------------------------------
(* A copy of a unit the kernel has forgotten. *)

\* It changes nothing that matters.
LEMMA CopyGood ==
    ASSUME NEW s \in Kernel, NEW c \in [Unit -> Nat], Good(s, c),
           NEW u \in Unit, ~ Nowhere(s, u), ~ Known(s, u),
           NEW d, d = Another(c, u)
    PROVE  Good(s, d)
<1> DEFINE r == Main(u)
<1>1. r \in Save /\ u \in UnitsOf(r)
  BY UnitFacts
<1>2. /\ \A v \in Unit : c[v] > 0 => d[v] > 0
      /\ \A v \in Unit \ {u} : d[v] = c[v]
  BY AnotherIs
<1>3. ~ Untouched(s, c, r)
  BY <1>1 DEF Untouched
<1> HIDE DEF r
<1>4. \A q \in Save \ {r} : SameFor(s, c, s, d, q)
  <2> SUFFICES ASSUME NEW q \in Save \ {r} PROVE SameFor(s, c, s, d, q)
    OBVIOUS
  <2>1. \A v \in UnitsOf(q) : v \in Unit \ {u}
    BY <1>1, UnitsOfFacts DEF r
  <2> QED BY <1>2, <2>1 DEF SameFor
<1>5. Begun(s, d)
  BY <1>3, <1>4, SameForKeeps DEF Good, Begun
<1>6. Counted(s, d)
  BY <1>2 DEF Good, Counted
<1>7. UnitsKept(s, d)
  <2> SUFFICES ASSUME NEW q \in Save PROVE UnitsKeptOf(s, d, q)
    BY DEF UnitsKept
  <2>1. UnitsKeptOf(s, c, q)
    BY DEF Good, UnitsKept
  <2>2. CASE q = r
    <3>1. UnitsOf(q) \subseteq Unit /\ PiecesOf(q) \subseteq UnitsOf(q)
      BY UnitsOfFacts
    <3>2. /\ s.units[q] \subseteq UnitsOf(q) /\ s.saved[q] \subseteq PiecesOf(q)
          /\ \A v \in s.saved[q] : d[v] > 0
      BY <1>2, <2>1, <3>1 DEF UnitsKeptOf
    <3>3. ASSUME q \in s.ims, NEW v \in PiecesOf(q), d[v] > 0 PROVE v \in s.saved[q]
      <4>1. CASE v = u
        <5>1. v \in s.units[q] \cup s.saved[q]
          BY <1>3, <2>1, <2>2, <3>3 DEF UnitsKeptOf
        <5>2. v \notin s.units[q]
          BY <2>1, <3>1, <3>3, <4>1 DEF UnitsKeptOf
        <5> QED BY <5>1, <5>2
      <4>2. CASE v # u
        <5>1. c[v] > 0
          BY <1>2, <3>1, <3>3, <4>2
        <5> QED BY <2>1, <3>3, <5>1 DEF UnitsKeptOf
      <4> QED BY <4>1, <4>2
    <3>4. ASSUME q \in s.ims
          PROVE  /\ \A v \in UnitsOf(q) : v \in s.units[q] <=> Known(s, v) /\ s.unit[v].bkp = 0
                 /\ PiecesOf(q) \subseteq s.units[q] \cup s.saved[q]
                 /\ Known(s, Master(q)) => s.units[q] = {Master(q)}
                 /\ ~ Known(s, Master(q)) => Nowhere(s, Master(q))
      BY <1>3, <2>1, <2>2, <3>4 DEF UnitsKeptOf
    <3> QED BY <3>2, <3>3, <3>4 DEF UnitsKeptOf
  <2>3. CASE q # r
    BY <1>4, <2>1, <2>3, SameForKeeps
  <2> QED BY <2>2, <2>3
<1>8. Outcome(s, d)
  <2>1. \A q \in Save : s.told[q] = <<"saved">> => \A v \in UnitsOf(q) : v \in Unit /\ c[v] > 0
    BY UnitsOfFacts DEF Good, Outcome
  <2> QED BY <1>2, <2>1 DEF Good, Outcome
<1> QED BY <1>5, <1>6, <1>7, <1>8 DEF Good

-----------------------------------------------------------------------------
(* The invariant *)

\* What a step does to the answers: a client is told of a failure only when
\* every piece saved until then is to be deleted.
Told(s, t) ==
    \A r \in Save : t.told[r] = <<"failed">> /\ s.told[r] # <<"failed">> =>
        r \in s.ims /\ s.saved[r] \subseteq t.deleted

\* The invariant holds at the start.
LEMMA InitIInv ==
    ASSUME Init
    PROVE  IInv
<1>1. PICK n \in CopyCounts :
       k = [copyCount |-> n, requests |-> {}, ims |-> {}, local |-> Local,
            units |-> [r \in Save |-> {}], backup |-> [r \in Save |-> {}],
            saved |-> [r \in Save |-> {}], unit |-> [u \in Unit |-> None],
            pending |-> <<>>, pendingRouter |-> <<>>,
            storageCnt |-> 0, routerSize |-> 0,
            key |-> <<>>, storage |-> <<>>, tenders |-> {},
            deleted |-> {}, garbled |-> {},
            told |-> [r \in Save |-> <<>>], aborted |-> FALSE]
  BY DEF Init
<1>2. copies = [u \in Unit |-> 0] /\ failed = FALSE
  BY DEF Init
<1>3. k \in Kernel
  BY <1>1, SaveAssumption DEF Kernel
<1>4. /\ k.copyCount = n /\ k.requests = {} /\ k.ims = {} /\ k.local = Local
      /\ k.units = [r \in Save |-> {}] /\ k.backup = [r \in Save |-> {}]
      /\ k.saved = [r \in Save |-> {}] /\ k.unit = [u \in Unit |-> None]
      /\ k.pending = <<>> /\ k.pendingRouter = <<>> /\ k.storageCnt = 0 /\ k.routerSize = 0
      /\ k.key = <<>> /\ k.storage = <<>> /\ k.tenders = {} /\ k.deleted = {}
      /\ k.garbled = {} /\ k.told = [r \in Save |-> <<>>] /\ k.aborted = FALSE
  BY <1>1
<1>5. \A u \in Unit : ~ Known(k, u)
  BY <1>4 DEF Known
<1>6. /\ ElementsOf(k.pending) = {} /\ ElementsOf(k.pendingRouter) = {}
      /\ ElementsOf(k.storage) = {} /\ ElementsOf(k.key) = {}
      /\ Once(k.pending) /\ Once(k.pendingRouter) /\ Once(k.storage) /\ Once(k.key)
  BY <1>4, NoElements
<1>7. \A x, y : ~ Asked(k, x, y)
  BY <1>6 DEF Asked
<1>8. \A u \in Unit : Nowhere(k, u)
  BY <1>4, <1>6, <1>7 DEF Nowhere
<1>9. \A r \in Save : Untouched(k, copies, r)
  BY <1>2, <1>4, <1>5, <1>7, <1>8, UnitsOfFacts DEF Untouched
<1>10. OnePlace(k)
  BY <1>4, <1>6, <1>7 DEF OnePlace
<1>11. Answers(k) /\ Begun(k, copies) /\ Requests(k) /\ Counted(k, copies) /\ MasterJobs(k)
  BY <1>4, <1>5, <1>7, <1>9 DEF Answers, Begun, Requests, Counted, MasterJobs
<1>12. UnitsKept(k, copies)
  BY <1>4 DEF UnitsKept, UnitsKeptOf
<1>13. Flags(k)
  BY <1>4, <1>5, <1>6, <1>7 DEF Flags
<1>14. Account(k)
  <2>1. Sent(k) = {}
    BY <1>5 DEF Sent
  <2> QED BY <1>4, <2>1, FS_EmptySet DEF Account
<1>15. Outcome(k, copies)
  <2>1. \A r \in Save : k.told[r] # <<"saved">>
    BY <1>4
  <2> QED BY <1>4, <2>1 DEF Outcome
<1>16. copies \in [Unit -> Nat] /\ failed \in BOOLEAN
  BY <1>2
<1>17. Below(k, {})
  BY <1>5 DEF Below
<1> QED
  BY <1>3, <1>4, <1>10, <1>11, <1>12, <1>13, <1>14, <1>15, <1>16, <1>17 DEF IInv, Good

\* The invariant contains the types.
LEMMA IInvType ==
    ASSUME IInv
    PROVE  TypeOK
<1>1. k \in Kernel /\ copies \in [Unit -> Nat] /\ failed \in BOOLEAN
  BY DEF IInv
<1>2. \A u \in Unit : Known(k, u) => k.unit[u].bkp <= k.copyCount
  BY DEF IInv, Good, Counted
<1> QED BY <1>1, <1>2, KernelTypes DEF TypeOK

\* The steps of the inputs, one by one.
LEMMA ImsSaveStep ==
    ASSUME OnlySmallPlainRefused, IInv, NEW r \in Save, ImsSave(r)
    PROVE  IInv' /\ Told(k, k')
<1>1. /\ k \in Kernel /\ copies \in [Unit -> Nat] /\ Good(k, copies) /\ Below(k, {})
      /\ failed \in BOOLEAN
  BY DEF IInv
<1>2. /\ r \notin k.ims /\ k.told[r] = <<>> /\ k' = Accept(k, r)
      /\ copies' = copies /\ failed' = failed
  BY DEF ImsSave
<1>3. k' \in Kernel /\ Good(k', copies) /\ Below(k', {}) /\ k'.told = k.told
  BY <1>1, <1>2, AcceptGood
<1>4. IInv'
  BY <1>1, <1>2, <1>3 DEF IInv
<1>5. Told(k, k')
  BY <1>3 DEF Told
<1> QED BY <1>4, <1>5

\* The key manager is only asked for what still has its request, so that the
\* assertions of its handlers hold.
LEMMA KeyAnswerStep ==
    ASSUME OnlySmallPlainRefused, IInv, KeyAnswer
    PROVE  IInv' /\ Told(k, k')
<1> DEFINE j == Head(k.key)
           s == [k EXCEPT !.key = Tail(@)]
<1>1. /\ k \in Kernel /\ copies \in [Unit -> Nat] /\ Good(k, copies) /\ Below(k, {})
      /\ failed \in BOOLEAN
  BY DEF IInv
<1>2. /\ k.key # <<>> /\ copies' = copies /\ failed' = failed
      /\ k' = CASE j.job = "key" -> Require(j.id \in s.requests, SaveData(s, j.id))
                [] j.job = "master" -> Require(j.id \in s.requests, SaveMaster(s, j.id))
                [] j.job = "unit" -> UnitEncrypted(s, j.id)
  BY DEF KeyAnswer
<1>3. /\ s \in Kernel /\ Only(k, s, {"key"}) /\ Good(s, copies) /\ Below(s, {})
      /\ j \in KeyJob /\ j \in ElementsOf(k.key) /\ j \notin ElementsOf(s.key)
      /\ ElementsOf(s.key) \subseteq ElementsOf(k.key)
  <2>1. k \in Kernel /\ copies \in [Unit -> Nat] /\ Good(k, copies) /\ k.key # <<>>
    BY <1>1, <1>2
  <2>2. /\ s \in Kernel /\ Only(k, s, {"key"}) /\ Good(s, copies)
        /\ Below(k, {}) => Below(s, {})
    BY <2>1, TakeKeyGood, ZenonT(30)
  <2>3. /\ j \in KeyJob /\ j \in ElementsOf(k.key) /\ j \notin ElementsOf(s.key)
        /\ ElementsOf(s.key) \subseteq ElementsOf(k.key)
    BY <2>1, TakeKeyGood, ZenonT(30)
  <2> QED BY <1>1, <2>2, <2>3
<1> HIDE DEF s, j
<1>4. /\ s.copyCount = k.copyCount /\ s.units = k.units /\ s.local = k.local
      /\ s.saved = k.saved /\ s.storage = k.storage /\ s.unit = k.unit
      /\ s.tenders = k.tenders /\ s.ims = k.ims
      /\ s.pending = k.pending /\ s.pendingRouter = k.pendingRouter
      /\ s.requests = k.requests /\ s.deleted = k.deleted /\ s.told = k.told
  BY <1>3 DEF Only, Fields
<1>5. \A x, y : Asked(s, x, y) => Asked(k, x, y)
  BY <1>3 DEF Asked
<1>6. k' \in Kernel /\ Good(k', copies) /\ Below(k', {}) /\ k'.told = k.told
  <2>1. CASE j.job = "key"
    <3> DEFINE r == j.id
               t == SaveData(s, r)
    <3>1. r \in Save /\ j = Job("key", r)
      BY <1>3, <2>1 DEF KeyJob, Job
    <3>2. k' = Require(r \in s.requests, t)
      BY <1>2, <2>1
    <3> HIDE DEF r
    <3>3. Asked(k, "key", r) /\ ~ Asked(s, "key", r)
      BY <1>3, <3>1 DEF Asked
    <3>4. r \in k.ims /\ Untouched(k, copies, r)
      BY <1>1, <3>1, <3>3 DEF Good, Begun
    <3>5. r \in s.requests /\ r \in s.ims
      BY <1>1, <1>4, <3>4 DEF Good, Requests
    <3>6. Untouched(s, copies, r)
      BY <1>4, <1>5, <3>4 DEF Untouched, Nowhere, Known
    <3>7. t \in Kernel /\ Good(t, copies) /\ Below(t, {}) /\ t.told = s.told
      BY <1>1, <1>3, <3>1, <3>3, <3>5, <3>6, SaveDataGood
    <3> HIDE DEF t
    <3>8. k' = t
      BY <3>2, <3>5, <3>7, RequireIs
    <3> QED BY <1>4, <3>7, <3>8
  <2>2. CASE j.job = "master"
    <3> DEFINE r == j.id
               t == SaveMaster(s, r)
    <3>1. r \in Save /\ j = Job("master", r)
      BY <1>3, <2>2 DEF KeyJob, Job
    <3>2. k' = Require(r \in s.requests, t)
      BY <1>2, <2>2
    <3> HIDE DEF r
    <3>3. Asked(k, "master", r) /\ ~ Asked(s, "master", r)
      BY <1>3, <3>1 DEF Asked
    <3>4. r \in k.ims /\ k.units[r] = {} /\ PiecesOf(r) \subseteq k.saved[r]
      BY <1>1, <3>1, <3>3 DEF Good, MasterJobs
    <3>5. r \in s.requests
      BY <1>1, <1>4, <3>4 DEF Good, Requests
    <3>6. ~ Asked(s, "key", r)
      <4>1. ~ Untouched(k, copies, r)
        BY <3>3 DEF Untouched
      <4> QED BY <1>1, <1>5, <3>1, <4>1 DEF Good, Begun
    <3>7. ReadyFor(s, r)
      BY <1>4, <3>3, <3>4, <3>6 DEF ReadyFor
    <3>8. t \in Kernel /\ Good(t, copies) /\ MasterStarted(s, t, r)
      BY <1>1, <1>3, <3>1, <3>7, SaveMasterGood
    <3> HIDE DEF t
    <3>9. t.copyCount \in Nat \ {0}
      BY <3>8, KernelTypes
    <3>10. Below(t, {}) /\ t.told = s.told
      BY <1>3, <3>8, <3>9 DEF MasterStarted, Below, Known
    <3>11. k' = t
      BY <3>2, <3>5, <3>8, RequireIs
    <3> QED BY <1>4, <3>8, <3>10, <3>11
  <2>3. CASE j.job = "unit"
    <3> DEFINE u == j.id
    <3>1. u \in Unit /\ j = Job("unit", u)
      BY <1>3, <2>3 DEF KeyJob, Job
    <3>2. k' = UnitEncrypted(s, u)
      BY <1>2, <2>3
    <3> HIDE DEF u
    <3>3. Asked(k, "unit", u) /\ ~ Asked(s, "unit", u)
      BY <1>3, <3>1 DEF Asked
    <3>4. u \in s.requests /\ ~ IsMaster(u)
      BY <1>1, <1>4, <3>1, <3>3 DEF Good, Requests, Flags
    <3>5. Nowhere(s, u)
      BY <1>1, <1>4, <3>1, <3>3 DEF Good, OnePlace, Nowhere
    <3>6. Known(s, u) => /\ s.local[Main(u)] <=> ~ s.unit[u].backup
                         /\ s.local[Main(u)] => s.unit[u].bkp = 0
      <4>1. Known(s, u) => FlagsOf(k, u)
        BY <1>1, <1>4, <3>1 DEF Good, Flags, Known
      <4> QED BY <1>4, <3>3, <4>1 DEF FlagsOf
    <3>7. k' \in Kernel /\ Good(k', copies) /\ Below(k', {}) /\ k'.told = s.told
      BY <1>1, <1>3, <3>1, <3>2, <3>4, <3>5, <3>6, UnitEncryptedGood
    <3> QED BY <1>4, <3>7
  <2> QED BY <1>3, <2>1, <2>2, <2>3 DEF KeyJob
<1>7. IInv'
  BY <1>1, <1>2, <1>6 DEF IInv
<1>8. Told(k, k')
  BY <1>6 DEF Told
<1> QED BY <1>7, <1>8

\* What the storage writer's answer for u finds in the kernel.
LEMMA StorageAnswer ==
    ASSUME IInv, NEW u \in Unit, StorageDone(u), NEW c \in [Unit -> Nat], Good(k, c)
    PROVE  /\ WithoutOldest \in Kernel /\ Only(k, WithoutOldest, {"storage"})
           /\ Good(WithoutOldest, c) /\ Below(WithoutOldest, {})
           /\ Nowhere(WithoutOldest, u) /\ ~ Nowhere(k, u)
           /\ Known(WithoutOldest, u) <=> Known(k, u)
           /\ Known(k, u) => /\ WithoutOldest.local[Main(u)]
                             /\ WithoutOldest.unit[u].bkp = 0
                             /\ ~ WithoutOldest.unit[u].backup
<1> DEFINE s == WithoutOldest
<1>1. k \in Kernel /\ Below(k, {}) /\ k.storage # <<>> /\ u = Head(k.storage)
  BY DEF IInv, StorageDone
<1>2. s = [k EXCEPT !.storage = Tail(@)]
  BY DEF WithoutOldest
<1> HIDE DEF s
<1>3. /\ s \in Kernel /\ Only(k, s, {"storage"}) /\ Good(s, c) /\ Below(s, {})
      /\ u \in ElementsOf(k.storage) /\ Nowhere(s, u)
  BY <1>1, <1>2, TakeStorageGood
<1>4. s.unit = k.unit /\ s.local = k.local
  BY <1>3 DEF Only, Fields
<1>5. Known(k, u) => FlagsOf(k, u)
  BY DEF Good, Flags
<1>6. Known(s, u) <=> Known(k, u)
  BY <1>4 DEF Known
<1>7. ~ Nowhere(k, u)
  BY <1>3 DEF Nowhere
<1>8. Known(k, u) => s.local[Main(u)] /\ s.unit[u].bkp = 0 /\ ~ s.unit[u].backup
  BY <1>3, <1>4, <1>5 DEF FlagsOf
<1> QED BY <1>3, <1>6, <1>7, <1>8 DEF s

\* What the router's answer for u finds.
LEMMA RouterAnswer ==
    ASSUME IInv, NEW u \in Unit, u \in k.tenders
    PROVE  /\ Free(k, u) /\ ~ Nowhere(k, u)
           /\ Known(k, u) => /\ k.unit[u].backup
                             /\ k.unit[u].bkp = 0 => ~ k.local[Main(u)]
<1>1. Good(k, copies)
  BY DEF IInv
<1>2. Free(k, u)
  BY <1>1 DEF Good, OnePlace, Free
<1>3. ~ Nowhere(k, u)
  BY DEF Nowhere
<1>4. Known(k, u) => FlagsOf(k, u)
  BY <1>1 DEF Good, Flags
<1> QED BY <1>2, <1>3, <1>4 DEF FlagsOf

\* A file is written.
LEMMA StorageConfirmStep ==
    ASSUME OnlySmallPlainRefused, IInv, NEW u \in Unit, StorageConfirm(u)
    PROVE  IInv' /\ Told(k, k')
<1> DEFINE d == Another(copies, u)
           s == WithoutOldest
<1>1. /\ k \in Kernel /\ copies \in [Unit -> Nat] /\ Good(k, copies)
      /\ failed \in BOOLEAN
  BY DEF IInv
<1>2. /\ StorageDone(u) /\ copies' = d /\ failed' = failed
      /\ k' = IF Known(k, u) THEN Confirm(s, u) ELSE s
  BY DEF StorageConfirm, Another
<1>3. d \in [Unit -> Nat]
  BY <1>1, AnotherIs
<1> HIDE DEF s, d
<1>4. /\ k' \in Kernel /\ Good(k', d) /\ Below(k', {}) /\ k'.deleted = k.deleted
      /\ \A q \in Save : k'.told[q] = <<"failed">> => k.told[q] = <<"failed">>
  <2>1. CASE Known(k, u)
    <3>1. /\ s \in Kernel /\ Only(k, s, {"storage"})
          /\ Good(s, copies) /\ Below(s, {}) /\ Nowhere(s, u) /\ Known(s, u)
          /\ s.local[Main(u)] /\ s.unit[u].bkp = 0 /\ ~ s.unit[u].backup
      BY <1>1, <1>2, <2>1, StorageAnswer DEF s
    <3>2. Free(s, u)
      BY <3>1 DEF Nowhere, Free
    <3>3. s.deleted = k.deleted /\ s.told = k.told
      BY <3>1 DEF Only, Fields
    <3>4. k' = Confirm(s, u) /\ d = Another(copies, u)
      BY <1>2, <2>1 DEF d
    <3>5. /\ k' \in Kernel /\ Good(k', d) /\ Below(k', {}) /\ k'.deleted = s.deleted
          /\ \A q \in Save : k'.told[q] = <<"failed">> => s.told[q] = <<"failed">>
      BY <1>1, <3>1, <3>2, <3>4, ConfirmGood
    <3> QED BY <3>3, <3>5
  <2>2. CASE ~ Known(k, u)
    <3>1. ~ Nowhere(k, u)
      BY <1>1, <1>2, StorageAnswer
    <3>2. Good(k, d)
      BY <1>1, <2>2, <3>1, CopyGood DEF d
    <3>3. s \in Kernel /\ Only(k, s, {"storage"}) /\ Good(s, d) /\ Below(s, {})
      BY <1>2, <1>3, <3>2, StorageAnswer DEF s
    <3>4. s.deleted = k.deleted /\ s.told = k.told
      BY <3>3 DEF Only, Fields
    <3> QED BY <1>2, <2>2, <3>3, <3>4
  <2> QED BY <2>1, <2>2
<1>5. IInv'
  BY <1>1, <1>2, <1>3, <1>4 DEF IInv
<1>6. Told(k, k')
  BY <1>4 DEF Told
<1> QED BY <1>5, <1>6

\* The storage is full.
LEMMA StorageNoSpaceStep ==
    ASSUME OnlySmallPlainRefused, IInv, NEW u \in Unit, StorageNoSpace(u)
    PROVE  IInv' /\ Told(k, k')
<1> DEFINE s == WithoutOldest
<1>1. /\ k \in Kernel /\ copies \in [Unit -> Nat] /\ Good(k, copies)
      /\ failed \in BOOLEAN
  BY DEF IInv
<1>2. /\ StorageDone(u) /\ Main(u) \notin Fits /\ copies' = copies /\ failed' = failed
      /\ k' = IF Known(k, u) THEN NoSpace(s, u) ELSE s
  BY DEF StorageNoSpace
<1> HIDE DEF s
<1>3. /\ s \in Kernel /\ Only(k, s, {"storage"})
      /\ Good(s, copies) /\ Below(s, {}) /\ Nowhere(s, u)
      /\ Known(k, u) => Known(s, u) /\ s.local[Main(u)] /\ s.unit[u].bkp = 0
                        /\ ~ s.unit[u].backup
  BY <1>1, <1>2, StorageAnswer DEF s
<1>4. k' \in Kernel /\ Good(k', copies) /\ Below(k', {}) /\ k'.told = s.told
  <2>1. CASE Known(k, u)
    BY <1>1, <1>2, <1>3, <2>1, NoSpaceGood
  <2>2. CASE ~ Known(k, u)
    BY <1>2, <1>3, <2>2
  <2> QED BY <2>1, <2>2
<1>5. IInv'
  BY <1>1, <1>2, <1>4 DEF IInv
<1>6. Told(k, k')
  <2>1. s.told = k.told
    BY <1>3 DEF Only, Fields
  <2> QED BY <1>4, <2>1 DEF Told
<1> QED BY <1>5, <1>6

\* The two failures differ in where the unit comes from only.
LEMMA FailTold ==
    ASSUME NEW s \in Kernel, NEW t, NEW F, Only(k, s, F), F \in {{"storage"}, {"tenders"}},
           k \in Kernel, FailSays(s, t)
    PROVE  Told(k, t)
<1>1. /\ s.told = k.told /\ s.deleted = k.deleted /\ s.ims = k.ims /\ s.saved = k.saved
  BY DEF Only, Fields
<1>2. s.ims \subseteq Save /\ s.told \in [Save -> Seq({"saved", "failed"})]
  BY KernelTypes
<1>3. CASE t.told = s.told
  BY <1>1, <1>3 DEF Told
<1>4. ASSUME NEW r \in s.ims, t.told = [s.told EXCEPT ![r] = <<"failed">>],
             t.deleted = s.deleted \cup s.saved[r]
      PROVE  Told(k, t)
  <2>1. \A q \in Save \ {r} : t.told[q] = k.told[q]
    BY <1>1, <1>2, <1>4
  <2>2. r \in k.ims /\ k.saved[r] \subseteq t.deleted
    BY <1>1, <1>4
  <2> QED BY <2>1, <2>2 DEF Told
<1> QED BY <1>3, <1>4 DEF FailSays

\* A file cannot be written.
LEMMA StorageFailedStep ==
    ASSUME OnlySmallPlainRefused, IInv, NEW u \in Unit, StorageFailed(u)
    PROVE  IInv' /\ Told(k, k')
<1> DEFINE s == WithoutOldest
<1>1. k \in Kernel /\ copies \in [Unit -> Nat] /\ Good(k, copies)
  BY DEF IInv
<1>2. /\ StorageDone(u) /\ copies' = copies /\ failed' = TRUE
      /\ k' = IF Known(k, u) THEN Fail(s, u) ELSE s
  BY DEF StorageFailed
<1> HIDE DEF s
<1>3. /\ s \in Kernel /\ Only(k, s, {"storage"})
      /\ Good(s, copies) /\ Below(s, {})
      /\ Known(k, u) => Known(s, u) /\ s.unit[u].bkp = 0
  BY <1>1, <1>2, StorageAnswer DEF s
<1>4. /\ k' \in Kernel /\ Good(k', copies) /\ Below(k', {})
      /\ FailSays(s, k')
  <2>1. CASE Known(k, u)
    <3>1. s.unit[u].bkp > 0 => s.unit[u].backup
      BY <1>3, <2>1
    <3>2. k' = Fail(s, u)
      BY <1>2, <2>1
    <3> QED BY <1>1, <1>3, <2>1, <3>1, <3>2, FailGood
  <2>2. CASE ~ Known(k, u)
    BY <1>2, <1>3, <2>2 DEF FailSays
  <2> QED BY <2>1, <2>2
<1>5. IInv'
  BY <1>1, <1>2, <1>4 DEF IInv
<1>6. Told(k, k')
  BY <1>1, <1>3, <1>4, FailTold
<1> QED BY <1>5, <1>6

\* A peer has stored the unit.
LEMMA RouterConfirmStep ==
    ASSUME OnlySmallPlainRefused, IInv, NEW u \in Unit, RouterConfirm(u)
    PROVE  IInv' /\ Told(k, k')
<1> DEFINE d == Another(copies, u)
           s == [k EXCEPT !.tenders = @ \ {u}]
<1>1. /\ k \in Kernel /\ copies \in [Unit -> Nat] /\ Good(k, copies) /\ Below(k, {})
      /\ failed \in BOOLEAN
  BY DEF IInv
<1>2. /\ u \in k.tenders /\ copies' = d /\ failed' = failed
      /\ k' = IF Known(k, u) THEN Confirm(k, u) ELSE s
  BY DEF RouterConfirm, Another
<1>3. d \in [Unit -> Nat]
  BY <1>1, AnotherIs
<1>4. /\ Free(k, u) /\ ~ Nowhere(k, u)
      /\ Known(k, u) => k.unit[u].backup /\ (k.unit[u].bkp = 0 => ~ k.local[Main(u)])
  BY <1>2, RouterAnswer
<1> HIDE DEF d
<1>5. /\ k' \in Kernel /\ Good(k', d) /\ Below(k', {})
      /\ \A q \in Save : k'.told[q] = <<"failed">> => k.told[q] = <<"failed">>
  <2>1. CASE Known(k, u)
    <3> HIDE DEF s
    <3>1. /\ k.unit[u].bkp = 0 => /\ k.local[Main(u)] => Nowhere(k, u)
                                  /\ k.local[Main(u)] <=> ~ k.unit[u].backup
          /\ k.unit[u].bkp > 0 => k.unit[u].backup
      BY <1>4, <2>1
    <3>2. k' = Confirm(k, u) /\ d = Another(copies, u)
      BY <1>2, <2>1 DEF d
    <3> QED BY <1>1, <1>4, <2>1, <3>1, <3>2, ConfirmGood
  <2>2. CASE ~ Known(k, u)
    <3>1. Good(k, d)
      BY <1>1, <1>4, <2>2, CopyGood DEF d
    <3>2. k' = s
      BY <1>2, <2>2
    <3>3. s \in Kernel /\ Only(k, s, {"tenders"}) /\ Good(s, d) /\ Below(s, {})
      BY <1>1, <1>2, <1>3, <3>1, DropTenderGood
    <3> HIDE DEF s
    <3>4. s.told = k.told
      BY <3>3 DEF Only, Fields
    <3> QED BY <3>2, <3>3, <3>4
  <2> QED BY <2>1, <2>2
<1>6. IInv'
  BY <1>1, <1>2, <1>3, <1>5 DEF IInv
<1>7. Told(k, k')
  BY <1>5 DEF Told
<1> QED BY <1>6, <1>7

\* A tender has ended.
LEMMA RouterCancelStep ==
    ASSUME OnlySmallPlainRefused, IInv, NEW u \in Unit, RouterCancel(u)
    PROVE  IInv' /\ Told(k, k')
<1> DEFINE s == [k EXCEPT !.tenders = @ \ {u}]
<1>1. /\ k \in Kernel /\ copies \in [Unit -> Nat] /\ Good(k, copies) /\ Below(k, {})
      /\ failed \in BOOLEAN
  BY DEF IInv
<1>2. /\ u \in k.tenders /\ copies' = copies /\ failed' = failed
      /\ k' = IF Known(s, u) THEN Fail(s, u) ELSE s
  BY DEF RouterCancel
<1>3. /\ s \in Kernel /\ Only(k, s, {"tenders"}) /\ Good(s, copies) /\ Below(s, {})
  BY <1>1, <1>2, DropTenderGood
<1> HIDE DEF s
<1>4. Known(k, u) => k.unit[u].backup
  BY <1>2, RouterAnswer
<1>5. s.unit = k.unit
  BY <1>3 DEF Only, Fields
<1>6. /\ k' \in Kernel /\ Good(k', copies) /\ Below(k', {})
      /\ FailSays(s, k')
  <2>1. CASE Known(s, u)
    <3>1. s.unit[u].bkp > 0 => s.unit[u].backup
      BY <1>4, <1>5, <2>1 DEF Known
    <3>2. k' = Fail(s, u)
      BY <1>2, <2>1
    <3> QED BY <1>1, <1>3, <2>1, <3>1, <3>2, FailGood
  <2>2. CASE ~ Known(s, u)
    BY <1>2, <1>3, <2>2 DEF FailSays
  <2> QED BY <2>1, <2>2
<1>7. IInv'
  BY <1>1, <1>2, <1>6 DEF IInv
<1>8. Told(k, k')
  BY <1>1, <1>3, <1>6, FailTold
<1> QED BY <1>7, <1>8

\* Every step keeps the invariant.
LEMMA NextIInv ==
    ASSUME OnlySmallPlainRefused, IInv, Next
    PROVE  IInv' /\ Told(k, k')
BY ImsSaveStep, KeyAnswerStep, StorageConfirmStep, StorageNoSpaceStep, StorageFailedStep,
   RouterConfirmStep, RouterCancelStep DEF Next

\* And so does a step of something else.
LEMMA StutterIInv ==
    ASSUME IInv, UNCHANGED vars
    PROVE  IInv' /\ Told(k, k')
<1>1. k' = k /\ copies' = copies /\ failed' = failed
  BY DEF vars
<1> QED BY <1>1 DEF IInv, Told

\* The invariant holds in every reachable state.
LEMMA Invariant == OnlySmallPlainRefused => (Spec => []IInv)
<1> SUFFICES ASSUME OnlySmallPlainRefused
             PROVE  Spec => []IInv
  OBVIOUS
<1>1. Init => IInv
  BY InitIInv
<1>2. IInv /\ [Next]_vars => IInv'
  BY NextIInv, StutterIInv
<1> QED BY <1>1, <1>2, PTL DEF Spec

-----------------------------------------------------------------------------
(* The theorems *)

\* For any saves, pieces, limits and numbers of copies, no poco_assert of the save
\* handlers fails, as long as the storage refuses small plain saves only.
THEOREM SaveNoAbort == OnlySmallPlainRefused => (Spec => []NoAbort)
<1>1. IInv => NoAbort
  BY IInvType DEF IInv, Good, NoAbort
<1> QED BY <1>1, Invariant, PTL

\* While a unit is in m_save_units its request is in m_requests, so that
\* save_unit::main_request does not dangle, for any saves and limits.
THEOREM SaveUnitsHaveRequests == OnlySmallPlainRefused => (Spec => []UnitsHaveRequests)
<1>1. IInv => UnitsHaveRequests
  BY DEF IInv, Good, Requests, UnitsHaveRequests
<1> QED BY <1>1, Invariant, PTL

\* m_router_save_input_size is exactly what is on its way to peers, so that the
\* limit process_router_pending_save_requests compares it with is kept.
THEOREM SaveRouterAccount == OnlySmallPlainRefused => (Spec => []RouterAccount)
<1>1. IInv => RouterAccount
  BY DEF IInv, Good, Account, Sent, RouterAccount
<1> QED BY <1>1, Invariant, PTL

\* A client that is told of success by send_ims_save_confirm has a copy of the
\* master and of every piece, none of them deleted.
THEOREM SaveSuccessMeansSaved == OnlySmallPlainRefused => (Spec => []SuccessMeansSaved)
<1>1. ASSUME IInv, NEW r \in Save, k.told[r] = <<"saved">>,
             NEW u \in PiecesOf(r) \cup {Master(r)}
      PROVE  copies[u] > 0 /\ u \notin k.deleted /\ (r \in Fits => u \notin k.garbled)
  <2>1. u \in UnitsOf(r) /\ Main(u) = r
    BY UnitsOfFacts DEF UnitsOf
  <2>2. Outcome(k, copies)
    BY <1>1 DEF IInv, Good
  <2>3. <<"saved">> # <<"failed">>
    OBVIOUS
  <2> QED BY <1>1, <2>1, <2>2, <2>3 DEF Outcome
<1>2. IInv => SuccessMeansSaved
  BY <1>1 DEF SuccessMeansSaved
<1> QED BY <1>2, Invariant, PTL

\* When process_not_backed_up_save_unit tells a client of a failure, every piece
\* that has been stored until then is deleted.
THEOREM SaveFailureDeletesPieces == OnlySmallPlainRefused => (Spec => FailureDeletesPieces)
<1> SUFFICES ASSUME OnlySmallPlainRefused
             PROVE  Spec => FailureDeletesPieces
  OBVIOUS
<1> DEFINE Deletes == \A r \in Save : k'.told[r] = <<"failed">> /\ k.told[r] = <<>> =>
                         \A u \in PiecesOf(r) : copies[u] > 0 => u \in k'.deleted
<1>1. ASSUME IInv, Told(k, k') PROVE Deletes
  <2> SUFFICES ASSUME NEW r \in Save, k'.told[r] = <<"failed">>, k.told[r] = <<>>,
                      NEW u \in PiecesOf(r), copies[u] > 0
               PROVE  u \in k'.deleted
    OBVIOUS
  <2>1. r \in k.ims /\ k.saved[r] \subseteq k'.deleted
    <3>1. <<>> # <<"failed">>
      OBVIOUS
    <3> QED BY <1>1, <3>1 DEF Told
  <2>2. UnitsKeptOf(k, copies, r)
    BY <1>1 DEF IInv, Good, UnitsKept
  <2> QED BY <2>1, <2>2 DEF UnitsKeptOf
<1>2. IInv /\ [Next]_vars => [Deletes]_vars
  <2> SUFFICES ASSUME IInv, Next PROVE Deletes
    OBVIOUS
  <2>1. Told(k, k')
    BY NextIInv
  <2> HIDE DEF Deletes
  <2> QED BY <1>1, <2>1
<1>3. Spec => []IInv
  BY Invariant
<1> QED BY <1>2, <1>3, PTL DEF Spec, FailureDeletesPieces
=============================================================================
