---------------------------- MODULE WebApiProofs ----------------------------
(***************************************************************************)
(* Proofs about WebApi, for any number of clients, requests and chunks.    *)
(***************************************************************************)
EXTENDS WebApi, ListProofs, SequenceTheorems, TLAPS

-----------------------------------------------------------------------------
(* The two maps: the inductive invariant of ClientsAgree. *)

\* The types of what the two maps depend on.
MapTypes ==
    /\ pc \in [Client -> {"idle", "insert", "send", "answer", "chunks", "clean",
                          "cleaning", "listen", "leaving", "forget"}]
    /\ mine \in [Client -> Id \cup {0}] /\ counter \in 0 .. MaxRequests
    /\ gets \in [Id -> Entry \cup {None}]
    /\ clients \in [Client -> Id \cup {None}]
    /\ inbox \in Seq([id : Id, msg : Message])
    /\ task \in {"set", "erase"} => inbox # <<>>

\* An id is given out once: the entry of a handler's id is that handler's, and it
\* has none before the handler inserts it.
IdsFresh ==
    /\ \A i \in Id : gets[i] # None => i <= counter
    /\ \A c \in Client : mine[c] <= counter
    /\ \A c, d \in Client : mine[c] = mine[d] /\ mine[c] # 0 => c = d
    /\ \A c \in Client : pc[c] = "insert" => mine[c] \in Id /\ gets[mine[c]] = None
    /\ \A c \in Client : mine[c] \in Id /\ gets[mine[c]] # None => gets[mine[c]].client = c

MapInv == MapTypes /\ IdsFresh /\ ClientsAgree

LEMMA InitMap == Init => MapInv
<1> SUFFICES ASSUME Init PROVE MapInv
  OBVIOUS
<1>1. MapTypes
  BY WebAssumption DEF Init, MapTypes, Id
<1>2. IdsFresh
  BY DEF Init, IdsFresh
<1>3. ClientsAgree
  BY DEF Init, ClientsAgree
<1> QED
  BY <1>1, <1>2, <1>3 DEF MapInv

\* A step that leaves the maps, the counter and the ids alone, and lets nobody
\* begin to insert, keeps the invariant if it keeps the types.
LEMMA MapsAlone ==
    ASSUME MapInv, MapTypes', UNCHANGED <<mine, counter, gets, clients>>,
           \A c \in Client : pc'[c] = "insert" => pc[c] = "insert"
    PROVE  MapInv'
BY DEF MapInv, IdsFresh, ClientsAgree

\* An entry that is erased with its client's entry leaves the others as they were.
LEMMA EraseKeeps ==
    ASSUME MapInv, NEW id \in Id \cup {None, 0}, NEW c \in Client, Erase(id, c),
           UNCHANGED <<mine, counter>>, MapTypes',
           id \in Id /\ gets[id] # None => clients[c] = id \/ gets[id].client = c,
           \A d \in Client : pc'[d] = "insert" => pc[d] = "insert"
    PROVE  MapInv'
<1> USE DEF MapInv
<1>1. \A i \in Id : gets'[i] = IF i = id THEN None ELSE gets[i]
  BY DEF Erase, MapTypes
<1>2. \A d \in Client : clients'[d] = IF d = c THEN None ELSE clients[d]
  BY DEF Erase, MapTypes
<1>3. IdsFresh'
  BY <1>1 DEF IdsFresh
<1>4. ClientsAgree'
  <2> SUFFICES ASSUME NEW d \in Client, clients'[d] # None
               PROVE  gets'[clients'[d]] # None /\ gets'[clients'[d]].client = d
    BY DEF ClientsAgree
  <2>1. d # c /\ clients'[d] = clients[d]
    BY <1>2
  <2>2. clients[d] \in Id /\ gets[clients[d]] # None /\ gets[clients[d]].client = d
    BY <2>1 DEF MapTypes, ClientsAgree
  <2>3. clients[d] # id
    BY <2>1, <2>2, NoneAssumption DEF ClientsAgree
  <2> QED
    BY <1>1, <2>1, <2>2, <2>3
<1> QED
  BY <1>3, <1>4

-----------------------------------------------------------------------------
(* The steps of the handlers *)

LEMMA ArriveKeeps ==
    ASSUME MapInv, NEW c \in Client, Arrive(c)
    PROVE  MapInv'
<1> USE WebAssumption DEF MapInv, Arrive, Goes, Id
<1>1. MapTypes'
  BY DEF MapTypes, books, Message, Entry
<1>2. counter' = counter + 1 /\ gets' = gets
  BY DEF books
<1>3. \A d \in Client : mine'[d] = IF d = c THEN counter + 1 ELSE mine[d]
  BY DEF MapTypes
<1>4. \A d \in Client : d # c => pc'[d] = pc[d]
  BY DEF MapTypes
<1>5. IdsFresh'
  <2>1. counter \in Nat /\ counter + 1 \in Id
    BY DEF MapTypes
  <2>2. gets[counter + 1] = None
    BY <2>1 DEF IdsFresh
  <2>3. \A d \in Client : mine[d] \in Nat /\ mine[d] <= counter
    BY DEF MapTypes, IdsFresh
  <2> QED
    BY <1>2, <1>3, <1>4, <2>1, <2>2, <2>3 DEF IdsFresh, MapTypes
<1>6. ClientsAgree'
  BY DEF ClientsAgree, books
<1> QED
  BY <1>1, <1>5, <1>6

LEMMA InsertKeeps ==
    ASSUME MapInv, NEW c \in Client, Insert(c)
    PROVE  MapInv'
<1> USE WebAssumption DEF MapInv, Id
<1> DEFINE e == [client |-> c, chunks |-> None, cur |-> 0]
<1>1. mine[c] \in Id /\ gets[mine[c]] = None /\ e \in Entry
  BY DEF Insert, Goes, IdsFresh, MapTypes, Entry
<1>2. \A i \in Id : gets'[i] = IF i = mine[c] THEN e ELSE gets[i]
  BY DEF Insert, MapTypes
<1>3. \A d \in Client : clients'[d] = IF d = c /\ clients[c] = None THEN mine[c] ELSE clients[d]
  BY DEF Insert, MapTypes
<1>4. MapTypes'
  BY <1>1 DEF Insert, Goes, MapTypes
<1>5. \A d \in Client : pc'[d] = "insert" => pc[d] = "insert" /\ d # c
  BY DEF Insert, Goes, MapTypes
<1>6. mine' = mine /\ counter' = counter /\ pc[c] = "insert"
  BY DEF Insert, Goes
<1>7. IdsFresh'
  <2>1. mine[c] <= counter /\ mine[c] # 0
    BY <1>1 DEF IdsFresh
  <2>2. \A d \in Client : d # c => mine[d] # mine[c]
    BY <2>1 DEF IdsFresh
  <2>3. \A d \in Client : pc'[d] = "insert" => mine[d] \in Id /\ gets'[mine[d]] = None
    BY <1>2, <1>5, <2>2 DEF IdsFresh
  <2>4. \A d \in Client : mine[d] \in Id /\ gets'[mine[d]] # None => gets'[mine[d]].client = d
    BY <1>2, <2>2 DEF IdsFresh
  <2> QED
    BY <1>2, <1>6, <2>1, <2>3, <2>4 DEF IdsFresh
<1>8. ClientsAgree'
  <2> SUFFICES ASSUME NEW d \in Client, clients'[d] # None
               PROVE  gets'[clients'[d]] # None /\ gets'[clients'[d]].client = d
    BY DEF ClientsAgree
  <2>1. CASE d = c /\ clients[c] = None
    BY <1>1, <1>2, <1>3, <2>1, NoneAssumption
  <2>2. CASE ~ (d = c /\ clients[c] = None)
    <3>1. clients'[d] = clients[d]
      BY <1>3, <2>2
    <3>2. clients[d] \in Id /\ gets[clients[d]] # None /\ gets[clients[d]].client = d
      BY <3>1 DEF MapTypes, ClientsAgree
    <3>3. clients[d] # mine[c]
      BY <1>1, <3>2
    <3> QED
      BY <1>2, <3>1, <3>2, <3>3
  <2> QED
    BY <2>1, <2>2
<1> QED
  BY <1>4, <1>7, <1>8

\* A handler goes from one place to another.
LEMMA HandlerMoves ==
    ASSUME MapInv, NEW c \in Client, UNCHANGED <<mine, counter, gets, clients, inbox, task>>,
           \E to \in {"idle", "answer", "chunks", "clean", "cleaning", "listen", "leaving",
                     "forget"} : pc' = [pc EXCEPT ![c] = to]
    PROVE  MapInv'
<1>1. MapTypes'
  BY DEF MapInv, MapTypes
<1>2. \A d \in Client : pc'[d] = "insert" => pc[d] = "insert"
  BY DEF MapInv, MapTypes
<1> QED
  BY <1>1, <1>2, MapsAlone

\* The other steps of a handler either leave the maps alone or erase its entries.
LEMMA HandlerKeeps ==
    ASSUME MapInv, NEW c \in Client, Handler(c) \/ StartLeave(c)
    PROVE  MapInv'
<1>1. CASE Insert(c)
  BY <1>1, InsertKeeps
<1>2. CASE SendGet(c) \/ GetAnswer(c) \/ ReadChunk(c) \/ EndStream(c)
  <2>1. UNCHANGED <<mine, counter, gets, clients, inbox, task>>
    BY <1>2 DEF SendGet, GetAnswer, ReadChunk, EndStream, books
  <2>2. \E to \in {"listen", "answer", "chunks", "clean", "idle"} : pc' = [pc EXCEPT ![c] = to]
    BY <1>2 DEF SendGet, GetAnswer, ReadChunk, EndStream, Quits, Goes
  <2> QED
    BY <2>1, <2>2, HandlerMoves
<1>3. CASE \/ StartClean(c) \/ LivestreamEnds(c) \/ StartLeave(c) \/ Leave(c)
           \/ Forget(c) /\ ~ Known(c)
  <2>1. UNCHANGED <<mine, counter, gets, clients, inbox, task>>
    BY <1>3 DEF StartClean, LivestreamEnds, StartLeave, Leave, Forget, books
  <2>2. \E to \in {"idle", "cleaning", "leaving", "forget"} : pc' = [pc EXCEPT ![c] = to]
    BY <1>3 DEF StartClean, LivestreamEnds, StartLeave, Leave, Forget, Goes
  <2> QED
    BY <2>1, <2>2, HandlerMoves
<1>4. CASE Clean(c) \/ SendFails(c) \/ (Forget(c) /\ Known(c))
  <2>1. PICK id : Erase(id, c) /\ id \in {clients[c], mine[c]}
    BY <1>4 DEF Clean, SendFails, Forget
  <2>2. id \in Id \cup {None, 0}
    BY <2>1 DEF MapInv, MapTypes
  <2>3. id \in Id /\ gets[id] # None => clients[c] = id \/ gets[id].client = c
    BY <2>1 DEF MapInv, IdsFresh
  <2>4. UNCHANGED <<mine, counter, inbox, task>> /\ pc' = [pc EXCEPT ![c] = "idle"]
    BY <1>4 DEF Clean, SendFails, Forget, Goes
  <2>5. MapTypes'
    BY <2>1, <2>4 DEF MapInv, MapTypes, Erase
  <2>6. \A d \in Client : pc'[d] = "insert" => pc[d] = "insert"
    BY <2>4 DEF MapInv, MapTypes
  <2> QED
    BY <2>1, <2>2, <2>3, <2>4, <2>5, <2>6, EraseKeeps
<1> QED
  BY <1>1, <1>2, <1>3, <1>4 DEF Handler

-----------------------------------------------------------------------------
(* The steps of the task and of the kernel *)

LEMMA InboxTypes ==
    ASSUME MapInv, inbox # <<>>
    PROVE  Now \in [id : Id, msg : Message] /\ Tail(inbox) \in Seq([id : Id, msg : Message])
BY HeadTailProperties DEF MapInv, MapTypes, Now

LEMMA LookUpKeeps ==
    ASSUME MapInv, LookUp
    PROVE  MapInv'
<1>1. inbox # <<>> /\ UNCHANGED <<pc, mine, counter, gets, clients>>
  BY DEF LookUp, Abort, books
<1>2. \/ inbox' = inbox
      \/ inbox' = Tail(inbox) /\ task' = "wait"
  BY DEF LookUp, Abort
<1>3. MapTypes'
  BY <1>1, <1>2, InboxTypes DEF MapInv, MapTypes
<1> QED
  BY <1>1, <1>3, MapsAlone

LEMMA PrepareHasCount ==
    ASSUME NEW m \in Message, K!IsPrepare(m)
    PROVE  m.count \in 0 .. MaxCount
BY DEF Message, K!IsPrepare, K!Data, K!Fail, K!Chunk, K!Prepare

\* An entry that changes and keeps its client
LEMMA ChangedEntry ==
    ASSUME NEW e \in Entry
    PROVE  /\ [e EXCEPT !.cur = @ + 1] \in Entry
           /\ [e EXCEPT !.cur = @ + 1].client = e.client
           /\ \A n \in 0 .. MaxCount : /\ [e EXCEPT !.chunks = n] \in Entry
                                       /\ [e EXCEPT !.chunks = n].client = e.client
BY DEF Entry

\* A promise is set: the entry keeps its client.
LEMMA SetPromiseKeeps ==
    ASSUME MapInv, SetPromise
    PROVE  MapInv'
<1> DEFINE i == Now.id
           m == Now.msg
           e == gets[i]
<1>0. inbox # <<>>
  BY DEF SetPromise, MapInv, MapTypes
<1>1. /\ i \in Id /\ m \in Message /\ Tail(inbox) \in Seq([id : Id, msg : Message])
      /\ gets \in [Id -> Entry \cup {None}]
  BY <1>0, InboxTypes DEF MapInv, MapTypes
<1>2. /\ UNCHANGED <<pc, mine, counter, clients>>
      /\ \/ inbox' = inbox
         \/ inbox' = Tail(inbox) /\ task' = "wait"
  BY DEF SetPromise, Abort
<1>3. \/ gets' = gets
      \/ gets[i] # None /\ gets' = [gets EXCEPT ![i] = [e EXCEPT !.cur = @ + 1]]
      \/ gets[i] # None /\ K!IsPrepare(m) /\ gets' = [gets EXCEPT ![i] = [e EXCEPT !.chunks = m.count]]
  BY DEF SetPromise, Abort, Unusable
<1>4. /\ gets' \in [Id -> Entry \cup {None}]
      /\ \A j \in Id : /\ gets'[j] = None <=> gets[j] = None
                       /\ gets[j] # None => gets'[j].client = gets[j].client
  <2>1. CASE gets' = gets
    BY <1>1, <2>1
  <2>2. ASSUME NEW f \in Entry, f.client = e.client, gets[i] # None, gets' = [gets EXCEPT ![i] = f]
        PROVE  <1>4!1 /\ <1>4!2
    BY <1>1, <2>2, NoneAssumption
  <2>3. gets[i] # None => e \in Entry
    BY <1>1
  <2>4. K!IsPrepare(m) => m.count \in 0 .. MaxCount
    BY <1>1, PrepareHasCount
  <2> HIDE DEF i, m, e
  <2> QED
    BY <1>3, <2>1, <2>2, <2>3, <2>4, ChangedEntry
<1>5. MapTypes'
  BY <1>0, <1>1, <1>2, <1>4 DEF MapInv, MapTypes
<1>6. IdsFresh'
  BY <1>2, <1>4 DEF MapInv, IdsFresh
<1>7. ClientsAgree'
  BY <1>2, <1>4 DEF MapInv, ClientsAgree, MapTypes
<1> QED
  BY <1>5, <1>6, <1>7 DEF MapInv

\* A request that is answered is erased with its client's entry.
LEMMA EraseRequestKeeps ==
    ASSUME MapInv, EraseRequest
    PROVE  MapInv'
<1>0. inbox # <<>>
  BY DEF EraseRequest, MapInv, MapTypes
<1>1. /\ Now.id \in Id /\ gets \in [Id -> Entry \cup {None}]
      /\ Tail(inbox) \in Seq([id : Id, msg : Message])
  BY <1>0, InboxTypes DEF MapInv, MapTypes
<1>2. UNCHANGED <<pc, mine, counter>>
  BY DEF EraseRequest
<1>3. CASE gets[Now.id] = None
  <2>1. UNCHANGED <<gets, clients, inbox>>
    BY <1>3 DEF EraseRequest, Abort
  <2>2. MapTypes'
    BY <1>0, <1>2, <2>1 DEF MapInv, MapTypes
  <2> QED
    BY <1>2, <2>1, <2>2, MapsAlone
<1>4. CASE gets[Now.id] # None
  <2>1. PICK c : c = gets[Now.id].client /\ Erase(Now.id, c)
    BY <1>4 DEF EraseRequest
  <2>2. c \in Client /\ inbox' = Tail(inbox) /\ task' = "wait"
    BY <1>1, <1>4, <2>1 DEF Entry, EraseRequest
  <2>3. MapTypes'
    BY <1>1, <1>2, <2>1, <2>2 DEF MapInv, MapTypes, Erase
  <2> QED
    BY <1>1, <1>2, <2>1, <2>2, <2>3, EraseKeeps
<1> QED
  BY <1>3, <1>4

\* The end of the task, and the kernel, leave the maps alone.
LEMMA OthersKeep ==
    ASSUME MapInv, \/ Finish \/ Join \/ Stop \/ KernelReceives
                   \/ \E id \in Id, m \in Message : KernelSays(id, m)
    PROVE  MapInv'
<1>1. UNCHANGED <<pc, mine, counter, gets, clients>>
  BY DEF Finish, Join, Stop, KernelReceives, KernelSays, books
<1>2. MapTypes'
  <2>1. CASE Finish \/ Join \/ Stop \/ KernelReceives
    BY <1>1, <2>1 DEF MapInv, MapTypes, Finish, Join, Stop, KernelReceives
  <2>2. CASE \E id \in Id, m \in Message : KernelSays(id, m)
    <3>1. PICK id \in Id, m \in Message : KernelSays(id, m)
      BY <2>2
    <3>2. inbox' = Append(inbox, [id |-> id, msg |-> m])
      BY <3>1 DEF KernelSays
    <3>3. inbox' \in Seq([id : Id, msg : Message]) /\ inbox' # <<>>
      BY <3>2, AppendProperties, SMTT(30) DEF MapInv, MapTypes
    <3> QED
      BY <1>1, <3>3 DEF MapInv, MapTypes
  <2> QED
    BY <2>1, <2>2
<1> QED
  BY <1>1, <1>2, MapsAlone

-----------------------------------------------------------------------------

LEMMA NextKeeps == MapInv /\ [Next]_vars => MapInv'
<1> SUFFICES ASSUME MapInv, [Next]_vars PROVE MapInv'
  OBVIOUS
<1>1. ASSUME NEW c \in Client, Handler(c) \/ StartLeave(c) PROVE MapInv'
  BY <1>1, HandlerKeeps
<1>2. ASSUME NEW c \in Client, Arrive(c) PROVE MapInv'
  BY <1>2, ArriveKeeps
<1>3. CASE Task
  BY <1>3, LookUpKeeps, SetPromiseKeeps, EraseRequestKeeps, OthersKeep DEF Task
<1>4. CASE KernelReceives \/ KernelAnswers \/ Stop \/ \E id \in Id : KernelSays(id, K!Fail)
  BY <1>4, OthersKeep DEF KernelAnswers, Message
<1>5. CASE UNCHANGED vars
  <2>1. UNCHANGED <<pc, mine, counter, gets, clients, inbox, task>>
    BY <1>5 DEF vars, books
  <2>2. MapTypes'
    BY <2>1 DEF MapInv, MapTypes
  <2> QED
    BY <2>1, <2>2, MapsAlone
<1> QED
  BY <1>1, <1>2, <1>3, <1>4, <1>5 DEF Next, Work

\* web_api_adapter::m_client_to_request and m_get_requests (web_api_adapter.cpp:
\* 820-905): a handler object at the address of an earlier one never gets that
\* one's request, for any number of clients, requests and chunks.
THEOREM ClientsNeverMixed == Spec => []ClientsAgree
<1>1. Init => MapInv
  BY InitMap
<1>2. MapInv /\ [Next]_vars => MapInv'
  BY NextKeeps
<1>3. MapInv => ClientsAgree
  BY DEF MapInv
<1> QED
  BY <1>1, <1>2, <1>3, PTL DEF Spec

-----------------------------------------------------------------------------
(* What the requests are: the inductive invariant of the assertions. *)

\* The message a thread has sent for the request i and the kernel has not seen.
Post(cmd, i) == [cmd |-> cmd, id |-> i]

\* The kernel is or will be asked for i.
Sent(i) == i \in asked \/ Post("get", i) \in ElementsOf(toKernel)

\* The kernel is or will be told to clean i.
CleanTold(i) == i \in ElementsOf(cleaned) \/ Post("clean", i) \in ElementsOf(toKernel)

\* What the kernel has said of i and the task has not done with.
About(i) == [id : {i}, msg : Message]
Pending(i) == Kept(inbox, About(i))

\* How much of it the task has done with.
Handled(i) == Len(said[i]) - Len(Pending(i))

\* The handler has not come to the end of its request.
Early == {"insert", "send", "answer", "chunks"}

\* The entry of i is gone and will not come back, and no handler waits for i.
Erased(i) ==
    /\ i <= counter /\ gets[i] = None
    /\ \A c \in Client : mine[c] = i => pc[c] \notin Early

\* Types the theorem needs as functions.
WebTypes ==
    /\ pc \in [Client -> {"idle", "insert", "send", "answer", "chunks", "clean",
                          "cleaning", "listen", "leaving", "forget"}]
    /\ mine \in [Client -> Id \cup {0}] /\ read \in [Client -> 0 .. MaxCount]
    /\ counter \in 0 .. MaxRequests
    /\ gets \in [Id -> Entry \cup {None}]
    /\ clients \in [Client -> Id \cup {None}]
    /\ answer \in [Id -> Message \cup {Gone, None}]
    /\ gone \subseteq Id /\ asked \subseteq Id
    /\ maps \in Client \cup {None} /\ tx \in Client \cup {None}
    /\ task \in {"wait", "set", "erase", "join", "done", "aborted"} /\ stopping \in BOOLEAN
    /\ toKernel \in Seq([cmd : {"get", "clean", "cancel"}, id : Id])
    /\ inbox \in Seq([id : Id, msg : Message])
    /\ said \in [Id -> Seq(Message)] /\ cleaned \in Seq(Id)

\* Every request has one handler, and an id is given out once.
Owners ==
    /\ \A c \in Client : mine[c] <= counter /\ (pc[c] # "idle" => mine[c] \in Id)
    /\ \A c, d \in Client : mine[c] = mine[d] /\ mine[c] # 0 => c = d
    /\ \A i \in Id : i > counter => answer[i] = None /\ ~ Sent(i)

\* The conversation of the kernel about i.
Talk(i) ==
    /\ i \notin asked => said[i] = <<>>
    /\ \/ said[i] \in {<<>>, <<K!Data>>, <<K!Fail>>}
       \/ /\ said[i] # <<>> /\ K!IsPrepare(said[i][1])
          /\ \A n \in 2 .. Len(said[i]) : \/ said[i][n] = K!Chunk /\ n <= said[i][1].count + 1
                                          \/ said[i][n] = K!Fail /\ n = Len(said[i])
    /\ Len(Pending(i)) <= Len(said[i])
    /\ \A n \in 1 .. Len(Pending(i)) : Pending(i)[n].msg = said[i][Handled(i) + n]

\* The task has set the promise of i and is to erase the request.
Busy(i) == task = "erase" /\ Now.id = i

\* Nobody waits for the promises any more.
Over == task \in {"join", "done"}

\* Where the request i is, by what the task has done with.
Untold(i) ==
    /\ gets[i] # None => /\ gets[i].chunks = None /\ gets[i].cur = 0
                         /\ Alive(i) \/ Busy(i) \/ Over
    /\ \/ ~ Busy(i) /\ answer[i] \in {None, Gone}
       \/ Busy(i) /\ answer[i] \in {K!Data, K!Fail} /\ said[i] # <<>> /\ answer[i] = said[i][1]

Told(i) ==
    /\ ~ Busy(i) /\ answer[i] = said[i][1]
    /\ said[i][1] \in {K!Data, K!Fail} => gets[i] = None
    /\ K!IsPrepare(said[i][1]) =>
          IF gets[i] = None THEN CleanTold(i)
          ELSE /\ gets[i].chunks = said[i][1].count
               /\ gets[i].cur = IF said[i][Handled(i)] = K!Fail THEN Handled(i) - 2
                                                              ELSE Handled(i) - 1

Request(i) ==
    /\ Sent(i) /\ gets[i] # None => gets[i].client \notin Listener
    /\ Sent(i) /\ Handled(i) = 0 => gets[i] # None
    /\ Handled(i) = 0 => Untold(i)
    /\ Handled(i) > 0 => Told(i)
    /\ answer[i] = Gone => Over

\* Where a handler is; what it finds under its address is its request, or one that
\* an earlier handler has left behind.
HandlerAt(c) ==
    /\ pc[c] \in {"insert", "send"} => ~ Sent(mine[c])
    /\ pc[c] \in {"listen", "leaving", "forget"} => c \in Listener
    /\ pc[c] \in {"answer", "chunks", "clean", "cleaning"} => c \notin Listener
    /\ c \in Listener /\ mine[c] # 0 => ~ Sent(mine[c])
    /\ c \in Listener /\ pc[c] \in {"send", "listen", "leaving", "forget"} =>
          clients[c] = mine[c]
    /\ pc[c] = "send" => gets[mine[c]] # None
    /\ pc[c] \in {"chunks", "clean", "cleaning"} =>
          answer[mine[c]] # None /\ K!IsPrepare(answer[mine[c]])
    /\ pc[c] = "cleaning" => maps = c /\ clients[c] # None
    /\ clients[c] # None =>
          \/ clients[c] = mine[c] \/ Handled(clients[c]) > 0
          \/ Busy(clients[c]) /\ mine[c] # 0 /\ answer[mine[c]] = None

TaskAt ==
    /\ Over => stopping
    /\ task \in {"set", "erase", "aborted"} => inbox # <<>>
    /\ aborted => Announced(Now.id) /\ (ChunkAfterClean \/ FailureTooLate)

Letters ==
    /\ Once(toKernel) /\ Once(cleaned)
    /\ \A i \in Id :
        /\ Post("get", i) \in ElementsOf(toKernel) => i \notin asked
        /\ Post("cancel", i) \in ElementsOf(toKernel) =>
              Erased(i) \/ \E c \in Client : mine[c] = i /\ pc[c] = "forget"
        /\ CleanTold(i) => Erased(i) /\ Announced(i)
        /\ i \in ElementsOf(cleaned) => Post("clean", i) \notin ElementsOf(toKernel)

WebInv ==
    /\ WebTypes /\ Owners /\ (\A i \in Id : Talk(i) /\ Request(i))
    /\ (\A c \in Client : HandlerAt(c)) /\ TaskAt /\ Letters

-----------------------------------------------------------------------------
(* Messages and what is pending *)

\* The messages differ, and differ from what stands for none.
LEMMA MessageKinds ==
    /\ \A m \in Message : \/ m \in {K!Data, K!Fail, K!Chunk}
                          \/ K!IsPrepare(m) /\ m.count \in 0 .. MaxCount
    /\ {K!Data, K!Fail, K!Chunk} \subseteq Message
    /\ ~ K!IsPrepare(K!Data) /\ ~ K!IsPrepare(K!Fail) /\ ~ K!IsPrepare(K!Chunk)
    /\ ~ K!IsPrepare(Gone) /\ Gone \notin Message /\ None \notin Message /\ None # Gone
    /\ K!Data # K!Fail /\ K!Data # K!Chunk /\ K!Fail # K!Chunk
<1> USE DEF K!IsPrepare, K!Data, K!Fail, K!Chunk, K!Prepare
<1>1. ASSUME NEW m \in Message
      PROVE  m \in {K!Data, K!Fail, K!Chunk} \/ (K!IsPrepare(m) /\ m.count \in 0 .. MaxCount)
  BY DEF Message
<1>2. ~ K!IsPrepare(Gone) /\ Gone \notin Message
  BY DEF Message, Gone
<1> QED BY <1>1, <1>2, NoneAssumption DEF Message

\* The first message of metax_rx is the first that is pending for its request.
LEMMA PendingTaken ==
    ASSUME WebTypes, inbox # <<>>
    PROVE  /\ Now \in [id : Id, msg : Message]
           /\ Pending(Now.id) # <<>> /\ Head(Pending(Now.id)) = Now
           /\ Pending(Now.id)[1] = Now
           /\ inbox' = Tail(inbox) =>
                \A i \in Id : Pending(i)' = IF i = Now.id THEN Tail(Pending(i)) ELSE Pending(i)
<1> DEFINE T == [id : Id, msg : Message]
<1>1. inbox \in Seq(T) BY DEF WebTypes
<1>2. Head(inbox) \in T BY <1>1, HeadTailProperties
<1>3. \A i \in Id : Now \in About(i) <=> i = Now.id
  BY <1>2 DEF Now, About
<1>4. ASSUME NEW i \in Id
      PROVE  /\ Kept(Tail(inbox), About(i)) \in Seq(T)
             /\ Kept(inbox, About(i)) = IF Now \in About(i)
                                        THEN <<Now>> \o Kept(Tail(inbox), About(i))
                                        ELSE Kept(Tail(inbox), About(i))
  <2> HIDE DEF T
  <2> QED BY <1>1, KeptTail DEF Now
<1>5. Now \in T BY <1>2 DEF Now
<1>6. Now.id \in Id BY <1>5
<1>7. ASSUME NEW s \in Seq(T)
      PROVE  <<Now>> \o s # <<>> /\ Head(<<Now>> \o s) = Now /\ Tail(<<Now>> \o s) = s
             /\ (<<Now>> \o s)[1] = Now
  <2> HIDE DEF T, Now
  <2> QED BY <1>5
<1>8. /\ Kept(Tail(inbox), About(Now.id)) \in Seq(T)
      /\ Pending(Now.id) = <<Now>> \o Kept(Tail(inbox), About(Now.id))
  <2> HIDE DEF T, Now
  <2> QED BY <1>3, <1>4, <1>6 DEF Pending
<1>9. ASSUME inbox' = Tail(inbox)
      PROVE  \A i \in Id : Pending(i)' = Kept(Tail(inbox), About(i))
  BY <1>9 DEF Pending, About
<1>10. \A i \in Id : i # Now.id => Pending(i) = Kept(Tail(inbox), About(i))
  <2> HIDE DEF T, Now
  <2> QED BY <1>3, <1>4 DEF Pending
<1>11. Pending(Now.id) # <<>> /\ Head(Pending(Now.id)) = Now /\ Pending(Now.id)[1] = Now
  BY <1>7, <1>8
<1>12. ASSUME inbox' = Tail(inbox), NEW i \in Id
       PROVE  Pending(i)' = IF i = Now.id THEN Tail(Pending(i)) ELSE Pending(i)
  <2> HIDE DEF T, Now
  <2>1. Pending(i)' = Kept(Tail(inbox), About(i)) BY <1>9, <1>12
  <2>2. CASE i = Now.id
    <3>1. Tail(Pending(Now.id)) = Kept(Tail(inbox), About(Now.id)) BY <1>7, <1>8
    <3> QED BY <2>1, <2>2, <3>1
  <2>3. CASE i # Now.id
    BY <2>1, <2>3, <1>10
  <2> QED BY <2>2, <2>3
<1> QED
  <2> HIDE DEF Now
  <2> QED BY <1>5, <1>11, <1>12

\* What is pending are messages of the kernel.
LEMMA PendingTyped ==
    ASSUME WebTypes, NEW i \in Id
    PROVE  Pending(i) \in Seq([id : Id, msg : Message])
<1> DEFINE T == [id : Id, msg : Message]
<1>1. inbox \in Seq(T) BY DEF WebTypes
<1> HIDE DEF T
<1>2. Kept(inbox, About(i)) \in Seq(T) BY <1>1, KeptElements
<1> QED BY <1>2 DEF Pending, T

\* A message that is added is the last that is pending for its request.
LEMMA PendingSaid ==
    ASSUME WebTypes, NEW id \in Id, NEW m \in Message,
           inbox' = Append(inbox, [id |-> id, msg |-> m])
    PROVE  \A i \in Id : Pending(i)' = IF i = id THEN Append(Pending(i), [id |-> id, msg |-> m])
                                       ELSE Pending(i)
<1> DEFINE T == [id : Id, msg : Message]
           x == [id |-> id, msg |-> m]
<1>1. inbox \in Seq(T) /\ x \in T BY DEF WebTypes
<1>2. \A i \in Id : x \in About(i) <=> i = id
  BY DEF About
<1>3. \A i \in Id : Pending(i)' = Kept(Append(inbox, x), About(i))
  BY DEF Pending, About
<1> HIDE DEF T, x
<1>4. ASSUME NEW i \in Id
      PROVE  Pending(i)' = IF i = id THEN Append(Pending(i), x) ELSE Pending(i)
  <2>1. Kept(Append(inbox, x), About(i)) = IF x \in About(i) THEN Append(Kept(inbox, About(i)), x)
                                           ELSE Kept(inbox, About(i))
    BY <1>1, KeptAppend
  <2> QED BY <1>2, <1>3, <2>1 DEF Pending
<1> QED BY <1>4 DEF x

\* The first message of metax_rx is the next of the conversation.
LEMMA NowHeard ==
    ASSUME WebInv, inbox # <<>>
    PROVE  /\ Now \in [id : Id, msg : Message]
           /\ Handled(Now.id) \in Nat /\ Handled(Now.id) + 1 <= Len(said[Now.id])
           /\ said[Now.id][Handled(Now.id) + 1] = Now.msg
           /\ said[Now.id] \in Seq(Message) /\ said[Now.id] # <<>>
           /\ Now.id \in asked /\ Sent(Now.id)
<1> DEFINE i == Now.id
<1>1. /\ Now \in [id : Id, msg : Message] /\ i \in Id
      /\ Pending(i) # <<>> /\ Pending(i)[1] = Now
  BY PendingTaken DEF WebInv
<1>2. Pending(i) \in Seq([id : Id, msg : Message]) /\ said[i] \in Seq(Message)
  <2> HIDE DEF i
  <2> QED BY <1>1, PendingTyped DEF WebInv, WebTypes
<1>3. Talk(i) BY <1>1 DEF WebInv
<1>4. Now.msg = Now.msg /\ Pending(i)[1].msg = Now.msg BY <1>1
<1> HIDE DEF i
<1>5. Len(Pending(i)) \in Nat \ {0} /\ Len(said[i]) \in Nat /\ Len(Pending(i)) <= Len(said[i])
  BY <1>1, <1>2, <1>3 DEF Talk
<1>6. Handled(i) \in Nat /\ Handled(i) + 1 <= Len(said[i])
  BY <1>5 DEF Handled
<1>7. said[i][Handled(i) + 1] = Now.msg
  BY <1>3, <1>4, <1>5 DEF Talk
<1>8. said[i] # <<>>
  BY <1>5, <1>2
<1>9. i \in asked /\ Sent(i)
  BY <1>3, <1>8 DEF Talk, Sent
<1> QED BY <1>1, <1>2, <1>6, <1>7, <1>8, <1>9 DEF i

\* What is handled is a part of what has been said.
LEMMA HandledPart ==
    ASSUME WebInv, NEW i \in Id
    PROVE  /\ said[i] \in Seq(Message) /\ Len(said[i]) \in Nat
           /\ Handled(i) \in Nat /\ Handled(i) <= Len(said[i])
           /\ Handled(i) = Len(said[i]) <=> Pending(i) = <<>>
           /\ Pending(i) \in Seq([id : Id, msg : Message])
<1>1. said[i] \in Seq(Message) /\ Talk(i)
  BY DEF WebInv, WebTypes
<1>2. Pending(i) \in Seq([id : Id, msg : Message])
  BY PendingTyped DEF WebInv
<1>3. /\ Len(said[i]) \in Nat /\ Len(Pending(i)) \in Nat /\ Len(Pending(i)) <= Len(said[i])
      /\ Len(Pending(i)) = 0 <=> Pending(i) = <<>>
  BY <1>1, <1>2 DEF Talk
<1> QED BY <1>1, <1>2, <1>3 DEF Handled

\* Nothing has come of a request that the kernel does not know.
LEMMA NotSent ==
    ASSUME WebInv, NEW i \in Id, ~ Sent(i)
    PROVE  /\ said[i] = <<>> /\ Handled(i) = 0 /\ Untold(i) /\ ~ Busy(i)
           /\ inbox # <<>> => Now.id # i
           /\ answer[i] \in {None, Gone}
<1>1. said[i] = <<>> BY DEF WebInv, Talk, Sent
<1>2. Handled(i) = 0 BY <1>1, HandledPart
<1>3. Request(i) BY DEF WebInv
<1>4. inbox # <<>> => Now.id # i BY NowHeard
<1>5. Untold(i) BY <1>2, <1>3 DEF Request
<1>6. ~ Busy(i) BY <1>4 DEF WebInv, TaskAt, Busy
<1> QED BY <1>1, <1>2, <1>4, <1>5, <1>6 DEF Untold

\* A promise that announces a stream has been set by the kernel's first message.
LEMMA StreamTold ==
    ASSUME WebInv, NEW i \in Id, answer[i] # None, K!IsPrepare(answer[i])
    PROVE  Handled(i) > 0 /\ Told(i) /\ Announced(i)
<1>1. Request(i) /\ Handled(i) \in Nat /\ Handled(i) <= Len(said[i]) BY HandledPart DEF WebInv
<1>2. Handled(i) # 0
  <2> SUFFICES ASSUME Handled(i) = 0 PROVE FALSE OBVIOUS
  <2>1. answer[i] \in {None, Gone, K!Data, K!Fail} BY <1>1 DEF Request, Untold
  <2> QED BY <2>1, MessageKinds
<1>3. Told(i) BY <1>1, <1>2 DEF Request
<1>4. said[i] # <<>> BY <1>1, <1>2
<1> QED BY <1>1, <1>2, <1>3, <1>4 DEF Told, Announced

\* An entry that the task has touched is that of a stream.
LEMMA EntryTold ==
    ASSUME WebInv, NEW i \in Id, Handled(i) > 0, gets[i] # None
    PROVE  /\ Told(i) /\ Announced(i) /\ gets[i] \in Entry
           /\ gets[i].chunks = said[i][1].count
           /\ gets[i].chunks \in 0 .. MaxCount /\ gets[i].chunks # None
           /\ gets[i].cur <= gets[i].chunks
<1> DEFINE s == said[i]
           h == Handled(i)
<1>1. /\ s \in Seq(Message) /\ h \in Nat /\ h <= Len(s) /\ Len(s) \in Nat
      /\ Request(i) /\ Talk(i) /\ gets[i] \in Entry
  BY HandledPart DEF WebInv, WebTypes
<1>2. Told(i) BY <1>1 DEF Request
<1>3. s # <<>> /\ s[1] \in Message BY <1>1
<1>4. s[1] \notin {K!Data, K!Fail} BY <1>2 DEF Told
<1>5. /\ K!IsPrepare(s[1])
      /\ \A n \in 2 .. Len(s) : \/ s[n] = K!Chunk /\ n <= s[1].count + 1
                                \/ s[n] = K!Fail /\ n = Len(s)
  BY <1>1, <1>3, <1>4 DEF Talk
<1>6. Announced(i) BY <1>3, <1>5 DEF Announced
<1>7. s[1].count \in 0 .. MaxCount BY <1>3, <1>5, PrepareHasCount
<1>8. s[1].count # None BY <1>7, NoneAssumption
<1>9. /\ gets[i].chunks = s[1].count
      /\ gets[i].cur = IF s[h] = K!Fail THEN h - 2 ELSE h - 1
  BY <1>2, <1>5 DEF Told
<1>10. (IF s[h] = K!Fail THEN h - 2 ELSE h - 1) <= s[1].count
  <2>1. s[1].count \in Nat BY <1>7, WebAssumption
  <2> HIDE DEF s, h
  <2>2. CASE h = 1
    <3>1. s[1] # K!Fail BY <1>5, MessageKinds
    <3> QED BY <2>1, <2>2, <3>1
  <2>3. CASE h # 1
    <3>1. h \in 2 .. Len(s) BY <1>1, <2>3 DEF h
    <3>2. CASE s[h] # K!Fail
      BY <1>1, <1>5, <2>1, <3>1, <3>2
    <3>3. CASE s[h] = K!Fail
      <4>1. h = Len(s) BY <1>5, <3>1, <3>3, MessageKinds
      <4>2. CASE h = 2 BY <2>1, <3>3, <4>2
      <4>3. CASE h # 2
        <5>1. h - 1 \in 2 .. Len(s) /\ h - 1 # Len(s) BY <1>1, <3>1, <4>1, <4>3
        <5>2. h - 1 <= s[1].count + 1 BY <1>5, <5>1
        <5> QED BY <1>1, <2>1, <3>3, <5>2
      <4> QED BY <4>2, <4>3
    <3> QED BY <3>2, <3>3
  <2> QED BY <2>2, <2>3
<1> QED BY <1>1, <1>2, <1>6, <1>7, <1>8, <1>9, <1>10

\* The kernel has been told to clean a stream, or is told soon.
LEMMA CleanToldIs ==
    \A i : CleanTold(i) <=> CleanSent(i)
BY DEF CleanTold, CleanSent, Closed, ElementsOf, Post

-----------------------------------------------------------------------------
(* What a step leaves alone *)

\* The conversation about a request stands still, or the kernel only gets other
\* requests.
LEMMA SameTalk ==
    ASSUME NEW i, Talk(i), said'[i] = said[i], Pending(i)' = Pending(i), asked \subseteq asked'
    PROVE  Talk(i)' /\ Handled(i)' = Handled(i)
BY DEF Talk, Handled

\* A step that is not about this request.
LEMMA SameRequest ==
    ASSUME NEW i, Request(i), gets'[i] = gets[i], answer'[i] = answer[i],
           said'[i] = said[i], Pending(i)' = Pending(i), Sent(i)' <=> Sent(i),
           Busy(i)' <=> Busy(i), Over => Over', CleanTold(i) => CleanTold(i)',
           Alive(i) => Alive(i)' \/ Handled(i) > 0 \/ Busy(i) \/ Over
    PROVE  Request(i)'
<1>1. Handled(i)' = Handled(i) BY DEF Handled
<1>2. CASE Handled(i) = 0
  <2>1. Untold(i) BY <1>2 DEF Request
  <2>2. Untold(i)' BY <1>2, <2>1 DEF Untold
  <2> QED BY <1>1, <1>2, <2>2 DEF Request
<1>3. CASE Handled(i) # 0
  <2>1. Told(i) => Told(i)' BY <1>1 DEF Told
  <2> QED BY <1>1, <1>3, <2>1 DEF Request
<1> QED BY <1>2, <1>3

\* A step that is not about this handler.
LEMMA SameHandler ==
    ASSUME WebInv, NEW c \in Client, pc'[c] = pc[c], mine'[c] = mine[c],
           clients'[c] = clients[c],
           pc[c] = "cleaning" => maps' = maps,
           clients[c] # None => /\ Busy(clients[c])' <=> Busy(clients[c])
                                /\ Handled(clients[c])' = Handled(clients[c]),
           mine[c] \in Id => /\ gets'[mine[c]] = gets[mine[c]]
                             /\ answer'[mine[c]] = answer[mine[c]]
                             /\ Sent(mine[c])' <=> Sent(mine[c])
    PROVE  HandlerAt(c)'
<1>1. HandlerAt(c) /\ (pc[c] # "idle" => mine[c] \in Id) /\ mine[c] \in Id \cup {0}
  BY DEF WebInv, Owners, WebTypes
<1>2. CASE mine[c] \in Id
  BY <1>1, <1>2 DEF HandlerAt
<1>3. CASE mine[c] \notin Id
  <2>1. mine[c] = 0 /\ pc[c] = "idle" BY <1>1, <1>3
  <2>2. ASSUME clients[c] # None
        PROVE  clients[c] = mine[c] \/ Handled(clients[c]) > 0
    BY <1>1, <2>1, <2>2 DEF HandlerAt
  <2> QED BY <1>1, <2>1, <2>2 DEF HandlerAt
<1> QED BY <1>2, <1>3

\* The kernel gets no message, and is sent none.
LEMMA SameLetters ==
    ASSUME Letters, UNCHANGED <<toKernel, asked, cleaned>>,
           \A i \in Id : (Erased(i) => Erased(i)') /\ (Announced(i) => Announced(i)'),
           \A c \in Client : pc[c] = "forget" => pc'[c] = "forget" /\ mine'[c] = mine[c]
    PROVE  Letters'
<1>1. \A i : CleanTold(i)' <=> CleanTold(i) BY DEF CleanTold, Post
<1>2. \A cmd, i : Post(cmd, i)' = Post(cmd, i) BY DEF Post
<1> QED BY <1>1, <1>2 DEF Letters

\* The kernel is asked for what it was asked for.
LEMMA SameSent ==
    ASSUME UNCHANGED <<toKernel, asked, cleaned>>
    PROVE  \A i : (Sent(i)' <=> Sent(i)) /\ (CleanTold(i)' <=> CleanTold(i))
BY DEF Sent, CleanTold, Post

\* The task takes nothing from metax_rx.
LEMMA SamePending ==
    ASSUME UNCHANGED inbox
    PROVE  /\ \A i : Pending(i)' = Pending(i)
           /\ UNCHANGED task => \A i : Busy(i)' <=> Busy(i)
           /\ {task, task'} \subseteq {"wait", "set", "join", "done", "aborted"} =>
                \A i : Busy(i)' <=> Busy(i)
BY DEF Pending, About, Busy, Now

\* The task stays where it is.
LEMMA SameTask ==
    ASSUME TaskAt, ~ aborted, UNCHANGED <<task, inbox>>, stopping => stopping'
    PROVE  TaskAt' /\ (Over' <=> Over)
BY DEF TaskAt, aborted, Over

\* The ids of handlers differ.
LEMMA OwnIds ==
    ASSUME WebInv, NEW c \in Client, NEW d \in Client, c # d, mine[c] \in Id
    PROVE  mine[d] # mine[c]
<1>1. mine[c] # 0 BY DEF Id
<1> QED BY <1>1 DEF WebInv, Owners

-----------------------------------------------------------------------------
(* The handlers and the requests *)

\* generate_request_id: the new id is that of no other request; what the handler
\* finds under its address was left behind.
LEMMA WebArrive ==
    ASSUME WebInv, MapInv, NEW c \in Client, Arrive(c)
    PROVE  WebInv'
<1> DEFINE i == counter + 1
<1>1. /\ ~ stopping /\ counter < MaxRequests /\ pc[c] = "idle" /\ counter' = i
      /\ mine' = [mine EXCEPT ![c] = i] /\ pc' = [pc EXCEPT ![c] = "insert"] /\ ~ aborted
      /\ UNCHANGED <<read, gets, clients, answer, gone, maps, tx, task, stopping, toKernel,
                     inbox, asked, said, cleaned>>
  BY DEF Arrive, Goes, books, promises, locks, kernel
<1>2. /\ counter \in Nat /\ i \in Id /\ MaxRequests \in Nat /\ i # 0 /\ i > counter
      /\ ~ (i <= counter)
  BY <1>1, WebAssumption DEF WebInv, WebTypes, Id
<1> HIDE DEF i
<1>3. WebTypes' BY <1>1, <1>2 DEF WebInv, WebTypes, Id
<1>4. \A j : /\ (Sent(j)' <=> Sent(j)) /\ (CleanTold(j)' <=> CleanTold(j))
             /\ (Busy(j)' <=> Busy(j)) /\ Pending(j)' = Pending(j) /\ Handled(j)' = Handled(j)
  BY <1>1, SameSent, SamePending DEF Handled
<1>5. ~ Sent(i) /\ answer[i] = None BY <1>2 DEF WebInv, Owners
<1>6. /\ pc'[c] = "insert" /\ mine'[c] = i
      /\ \A d \in Client \ {c} : pc'[d] = pc[d] /\ mine'[d] = mine[d]
      /\ \A d \in Client : mine[d] <= counter /\ mine[d] \in Nat
  BY <1>1 DEF WebInv, WebTypes, Owners, Id
<1>7. Owners'
  <2>1. \A d \in Client : mine'[d] <= counter' /\ (pc'[d] # "idle" => mine'[d] \in Id)
    BY <1>1, <1>2, <1>6 DEF WebInv, Owners, i
  <2>2. \A d, e \in Client : mine'[d] = mine'[e] /\ mine'[d] # 0 => d = e
    BY <1>2, <1>6 DEF WebInv, Owners
  <2>3. \A j \in Id : j > counter' => answer'[j] = None /\ ~ Sent(j)'
    <3>1. \A j \in Id : j > i => j > counter BY <1>2 DEF Id
    <3> QED BY <1>1, <1>4, <3>1 DEF WebInv, Owners
  <2> QED BY <2>1, <2>2, <2>3 DEF Owners
<1>8. TaskAt' /\ (Over' <=> Over) BY <1>1, SameTask DEF WebInv
<1>9. \A j \in Id : Talk(j)' /\ Request(j)'
  <2>1. \A j : Alive(j) => Alive(j)' BY <1>1, <1>6 DEF Alive
  <2> QED BY <1>1, <1>4, <1>8, <2>1, SameTalk, SameRequest DEF WebInv
<1>10. ASSUME NEW d \in Client PROVE HandlerAt(d)'
  <2>1. CASE d = c
    <3>1. ASSUME clients[c] # None PROVE Handled(clients[c]) > 0 \/ Busy(clients[c])
      <4> DEFINE k == clients[c]
      <4>1. k \in Id /\ gets[k] # None
        BY <3>1 DEF WebInv, WebTypes, MapInv, ClientsAgree
      <4>2. k = mine[c] \/ Handled(k) > 0 \/ Busy(k) BY <3>1 DEF WebInv, HandlerAt
      <4>3. ASSUME k = mine[c], Handled(k) = 0 PROVE Busy(k)
        <5>1. Untold(k) BY <4>1, <4>3 DEF WebInv, Request
        <5>2. ~ Over BY <1>1 DEF WebInv, TaskAt
        <5>3. ~ Alive(k) BY <1>1, <4>1, <4>3, OwnIds DEF Alive
        <5> QED BY <4>1, <5>1, <5>2, <5>3 DEF Untold
      <4>4. Handled(k) \in Nat BY <4>1, HandledPart
      <4> QED BY <4>2, <4>3, <4>4
    <3> QED BY <1>1, <1>2, <1>4, <1>5, <1>6, <2>1, <3>1 DEF HandlerAt
  <2>2. CASE d # c
    BY <1>1, <1>4, <1>6, <2>2, SameHandler
  <2> QED BY <2>1, <2>2
<1>11. Letters'
  <2>1. ASSUME NEW j \in Id, Erased(j) PROVE Erased(j)'
    <3>1. j # i /\ j <= i BY <1>2, <2>1 DEF Erased, Id
    <3> QED BY <1>1, <1>6, <2>1, <3>1 DEF Erased
  <2>2. \A j \in Id : Announced(j)' <=> Announced(j) BY <1>1 DEF Announced
  <2>3. \A d \in Client : pc[d] = "forget" => pc'[d] = "forget" /\ mine'[d] = mine[d]
    BY <1>1, <1>6
  <2> QED BY <1>1, <2>1, <2>2, <2>3, SameLetters DEF WebInv
<1> QED BY <1>3, <1>7, <1>8, <1>9, <1>10, <1>11 DEF WebInv

\* The request of an entry is known to the kernel only if no listener has it.
LEMMA NoListenersRequest ==
    ASSUME WebInv, MapInv, NEW c \in Listener, clients[c] # None
    PROVE  ~ Sent(clients[c]) /\ ~ Busy(clients[c]) /\ clients[c] = mine[c]
<1>1. c \in Client /\ clients[c] \in Id BY WebAssumption DEF WebInv, WebTypes
<1>2. gets[clients[c]] # None /\ gets[clients[c]].client = c
  BY <1>1 DEF MapInv, ClientsAgree
<1>3. ~ Sent(clients[c])
  BY <1>1, <1>2 DEF WebInv, Request
<1>4. ~ Busy(clients[c]) /\ Handled(clients[c]) = 0 BY <1>1, <1>3, NotSent
<1> QED BY <1>1, <1>3, <1>4 DEF WebInv, HandlerAt

\* generate_get_request_info: the request has not been sent yet; an entry of an
\* earlier handler at this address stays.
LEMMA WebInsert ==
    ASSUME WebInv, MapInv, NEW c \in Client, Insert(c)
    PROVE  WebInv'
<1>0. PICK i \in Id : i = mine[c]
  BY DEF Insert, Goes, WebInv, Owners
<1> DEFINE e == [client |-> c, chunks |-> None, cur |-> 0]
<1>1. /\ pc[c] = "insert" /\ pc' = [pc EXCEPT ![c] = "send"] /\ ~ aborted
      /\ maps = None
      /\ gets' = [gets EXCEPT ![i] = e]
      /\ clients' = [clients EXCEPT ![c] = IF @ = None THEN i ELSE @]
      /\ UNCHANGED <<mine, read, counter, answer, gone, maps, tx, task, stopping, toKernel,
                     inbox, asked, said, cleaned>>
  BY <1>0 DEF Insert, Goes, promises, locks, kernel
<1>2. i \in Id /\ gets[i] = None /\ e \in Entry /\ e # None
  BY <1>0, <1>1, NoneAssumption DEF WebInv, Owners, MapInv, IdsFresh, Entry
<1>3. e.client = c /\ e.chunks = None /\ e.cur = 0 OBVIOUS
<1> HIDE DEF e
<1>4. ~ Sent(i) BY <1>0, <1>1 DEF WebInv, HandlerAt
<1>5. said[i] = <<>> /\ Handled(i) = 0 /\ Untold(i) /\ ~ Busy(i) BY <1>2, <1>4, NotSent
<1>6. /\ \A j \in Id : gets'[j] = IF j = i THEN e ELSE gets[j]
      /\ \A d \in Client \ {c} : pc'[d] = pc[d] /\ clients'[d] = clients[d]
      /\ pc'[c] = "send" /\ clients'[c] = IF clients[c] = None THEN i ELSE clients[c]
  BY <1>1 DEF WebInv, WebTypes
<1>7. WebTypes' BY <1>1, <1>2 DEF WebInv, WebTypes
<1>8. \A j : /\ (Sent(j)' <=> Sent(j)) /\ (CleanTold(j)' <=> CleanTold(j))
             /\ (Busy(j)' <=> Busy(j)) /\ Pending(j)' = Pending(j) /\ Handled(j)' = Handled(j)
  BY <1>1, SameSent, SamePending DEF Handled
<1>9. Owners' BY <1>1, <1>6, <1>8 DEF WebInv, Owners
<1>10. TaskAt' /\ (Over' <=> Over) BY <1>1, SameTask DEF WebInv
<1>11. \A j \in Id : Talk(j)' BY <1>1, <1>8, SameTalk DEF WebInv
<1>12. ASSUME NEW j \in Id PROVE Request(j)'
  <2>1. CASE j = i
    <3>1. Alive(i)' BY <1>0, <1>1, <1>6 DEF Alive
    <3>2. Untold(i)' BY <1>1, <1>3, <1>5, <1>6, <1>2, <1>8, <3>1 DEF Untold
    <3>3. Request(i) BY <1>2 DEF WebInv
    <3>4. Handled(i)' = 0 /\ ~ Sent(i)' BY <1>4, <1>5, <1>8
    <3>5. Request(i)' BY <1>1, <1>10, <3>2, <3>3, <3>4 DEF Request
    <3> QED BY <2>1, <3>5
  <2>2. CASE j # i
    <3>1. Alive(j) => Alive(j)' BY <1>1, <1>6 DEF Alive
    <3> QED BY <1>1, <1>6, <1>8, <1>10, <2>2, <3>1, SameRequest DEF WebInv
  <2> QED BY <2>1, <2>2
<1>13. ASSUME NEW d \in Client PROVE HandlerAt(d)'
  <2>1. CASE d = c
    <3>1. c \in Listener => clients'[c] = i
      <4>1. clients[c] = i => gets[i] # None BY <1>2, NoneAssumption DEF MapInv, ClientsAgree
      <4> QED BY <1>0, <1>2, <1>6, <4>1, NoListenersRequest
    <3>2. HandlerAt(c) BY DEF WebInv
    <3>3. mine'[c] = i /\ answer' = answer /\ pc'[c] = "send" /\ mine[c] = i
      BY <1>0, <1>1, <1>6
    <3>4. gets'[i] = e BY <1>2, <1>6
    <3>5. clients'[c] # None => \/ clients'[c] = i \/ Handled(clients'[c]) > 0
                                \/ Busy(clients'[c]) /\ answer[i] = None
      BY <1>6, <3>2, <3>3 DEF HandlerAt
    <3>8. (clients[c] # None => \/ clients[c] = mine[c] \/ Handled(clients[c]) > 0
                                \/ Busy(clients[c]) /\ mine[c] # 0 /\ answer[mine[c]] = None)'
      BY <1>0, <1>8, <3>3, <3>5 DEF Id
    <3> QED BY <1>2, <1>4, <1>8, <2>1, <3>1, <3>3, <3>4, <3>8 DEF HandlerAt
  <2>2. CASE d # c
    <3>1. mine[d] # i BY <1>0, <2>2, OwnIds
    <3> QED BY <1>1, <1>6, <1>8, <2>2, <3>1, SameHandler
  <2> QED BY <2>1, <2>2
<1>14. Letters'
  <2>1. ASSUME NEW j \in Id, Erased(j) PROVE Erased(j)'
    <3>1. j # i BY <1>0, <1>1, <2>1 DEF Erased, Early
    <3> QED BY <1>0, <1>1, <1>6, <2>1, <3>1 DEF Erased
  <2>2. \A j \in Id : Announced(j)' <=> Announced(j) BY <1>1 DEF Announced
  <2>3. \A d \in Client : pc[d] = "forget" => pc'[d] = "forget" /\ mine'[d] = mine[d]
    BY <1>1, <1>6
  <2> QED BY <1>1, <2>1, <2>2, <2>3, SameLetters DEF WebInv
<1> QED BY <1>7, <1>9, <1>10, <1>11, <1>12, <1>13, <1>14 DEF WebInv

\* A handler goes on, and may tell the kernel something.
LEMMA GoesOn ==
    ASSUME WebInv, ~ aborted, NEW c \in Client, pc[c] # "idle",
           NEW to \in {"idle", "answer", "chunks", "clean", "cleaning", "listen", "leaving",
                       "forget"},
           pc' = [pc EXCEPT ![c] = to],
           UNCHANGED <<mine, counter, gets, clients, answer, gone, task, stopping, inbox, asked,
                       said, cleaned>>,
           read' \in [Client -> 0 .. MaxCount],
           maps' \in Client \cup {None}, tx' \in Client \cup {None},
           toKernel' \in Seq([cmd : {"get", "clean", "cancel"}, id : Id]),
           \A j : (Sent(j)' <=> Sent(j)) /\ (CleanTold(j) => CleanTold(j)'),
           \A d \in Client : pc[d] = "cleaning" => maps' = maps,
           to = "idle" => Handled(mine[c]) > 0 \/ Busy(mine[c]) \/ Over,
           HandlerAt(c)', Letters'
    PROVE  WebInv'
<1>1. /\ pc'[c] = to /\ \A d \in Client \ {c} : pc'[d] = pc[d]
      /\ mine[c] \in Id
  BY DEF WebInv, WebTypes, Owners
<1>2. WebTypes' BY DEF WebInv, WebTypes
<1>3. \A j : (Busy(j)' <=> Busy(j)) /\ Pending(j)' = Pending(j) /\ Handled(j)' = Handled(j)
  BY SamePending DEF Handled
<1>4. Owners' BY <1>1 DEF WebInv, Owners
<1>5. TaskAt' /\ (Over' <=> Over) BY SameTask DEF WebInv
<1>6. ASSUME NEW j \in Id PROVE Talk(j)' /\ Request(j)'
  <2>1. Alive(j) => Alive(j)' \/ Handled(j) > 0 \/ Busy(j) \/ Over
    <3>1. CASE mine[c] = j /\ to = "idle" BY <3>1
    <3>2. CASE ~ (mine[c] = j /\ to = "idle") BY <1>1, <3>2 DEF Alive
    <3> QED BY <3>1, <3>2
  <2> QED BY <1>3, <1>5, <2>1, SameTalk, SameRequest DEF WebInv
<1>7. ASSUME NEW d \in Client, d # c PROVE HandlerAt(d)'
  BY <1>1, <1>3, <1>7, SameHandler
<1> QED BY <1>2, <1>4, <1>5, <1>6, <1>7 DEF WebInv

\* A handler goes on without a word, and only it has to be looked at.
LEMMA OnlyGoesOn ==
    ASSUME WebInv, ~ aborted, NEW c \in Client, pc[c] \notin {"idle", "forget"},
           NEW to \in {"idle", "answer", "chunks", "clean", "cleaning", "listen", "leaving",
                       "forget"},
           pc' = [pc EXCEPT ![c] = to], to \in Early => pc[c] \in Early,
           UNCHANGED <<mine, counter, gets, clients, answer, gone, task, stopping, toKernel,
                       inbox, asked, said, cleaned>>,
           read' \in [Client -> 0 .. MaxCount],
           maps' \in Client \cup {None}, tx' \in Client \cup {None},
           \A d \in Client : pc[d] = "cleaning" => maps' = maps,
           to = "idle" => Handled(mine[c]) > 0 \/ Busy(mine[c]) \/ Over,
           HandlerAt(c)'
    PROVE  WebInv'
<1>1. pc'[c] = to /\ \A d \in Client \ {c} : pc'[d] = pc[d]
  BY DEF WebInv, WebTypes
<1>2. Letters'
  <2>1. \A j \in Id : Erased(j) => Erased(j)'
    <3>1. \A d \in Client : pc[d] \notin Early => pc'[d] \notin Early BY <1>1
    <3> QED BY <3>1 DEF Erased
  <2>2. \A j \in Id : Announced(j)' <=> Announced(j) BY DEF Announced
  <2>3. \A d \in Client : pc[d] = "forget" => pc'[d] = "forget" /\ mine'[d] = mine[d]
    BY <1>1
  <2> QED BY <2>1, <2>2, <2>3, SameLetters DEF WebInv
<1>3. toKernel' \in Seq([cmd : {"get", "clean", "cancel"}, id : Id]) BY DEF WebInv, WebTypes
<1> QED BY <1>2, <1>3, SameSent, GoesOn

\* The handler itself, when it has only gone on.
LEMMA SelfGoesOn ==
    ASSUME WebInv, NEW c \in Client, mine[c] \in Id, NEW to, pc' = [pc EXCEPT ![c] = to],
           UNCHANGED <<mine, gets, clients, answer, task, inbox, said>>,
           Sent(mine[c])' <=> Sent(mine[c]),
           to \notin {"insert", "send"},
           to \in {"listen", "leaving", "forget"} => c \in Listener /\ clients[c] = mine[c],
           to \in {"answer", "chunks", "clean", "cleaning"} => c \notin Listener,
           to \in {"chunks", "clean", "cleaning"} =>
              answer[mine[c]] # None /\ K!IsPrepare(answer[mine[c]]),
           to = "cleaning" => maps' = c /\ clients[c] # None
    PROVE  HandlerAt(c)'
<1>1. pc'[c] = to BY DEF WebInv, WebTypes
<1>2. \A j : (Busy(j)' <=> Busy(j)) /\ Handled(j)' = Handled(j)
  BY SamePending DEF Handled
<1>3. HandlerAt(c) BY DEF WebInv
<1>4. (clients[c] # None =>
          \/ clients[c] = mine[c] \/ Handled(clients[c]) > 0
          \/ Busy(clients[c]) /\ mine[c] # 0 /\ answer[mine[c]] = None)'
  BY <1>2, <1>3 DEF HandlerAt
<1> QED BY <1>1, <1>3, <1>4 DEF HandlerAt

\* wait_for_response: a handler that ends here leaves an entry only if the task
\* erases it next, or if the request is a stream.
LEMMA WebGetAnswer ==
    ASSUME WebInv, MapInv, NEW c \in Client, GetAnswer(c)
    PROVE  WebInv'
<1>0. PICK i \in Id : i = mine[c]
  BY DEF GetAnswer, WebInv, Owners
<1>1. PICK to \in {"chunks", "idle"} :
      /\ pc[c] = "answer" /\ answer[i] # None /\ pc' = [pc EXCEPT ![c] = to] /\ ~ aborted
      /\ to = "chunks" => K!IsPrepare(answer[i])
      /\ UNCHANGED <<mine, read, counter, gets, clients, answer, gone, maps, tx, task, stopping,
                     toKernel, inbox, asked, said, cleaned>>
  BY <1>0 DEF GetAnswer, Goes, books, promises, locks, kernel
<1>2. to = "idle" => Handled(i) > 0 \/ Busy(i) \/ Over
  <2> SUFFICES ASSUME ~ (Handled(i) > 0), ~ Busy(i) PROVE Over OBVIOUS
  <2>1. Request(i) /\ Handled(i) = 0 BY HandledPart DEF WebInv
  <2>2. answer[i] = Gone BY <1>1, <2>1 DEF Request, Untold
  <2> QED BY <2>1, <2>2 DEF Request
<1>3. c \notin Listener BY <1>1 DEF WebInv, HandlerAt
<1>4. HandlerAt(c)'
  <2>1. Sent(i)' <=> Sent(i) BY <1>1, SameSent
  <2> QED BY <1>0, <1>1, <1>3, <2>1, SelfGoesOn
<1>5. /\ maps \in Client \cup {None} /\ tx \in Client \cup {None}
      /\ read \in [Client -> 0 .. MaxCount]
  BY DEF WebInv, WebTypes
<1> QED BY <1>0, <1>1, <1>2, <1>4, <1>5, OnlyGoesOn DEF Early

\* start_media_streaming: whatever ends the loop, the stream was announced.
LEMMA WebStream ==
    ASSUME WebInv, MapInv, NEW c \in Client, ReadChunk(c) \/ EndStream(c)
    PROVE  WebInv'
<1>0. PICK i \in Id : i = mine[c]
  BY DEF ReadChunk, EndStream, WebInv, Owners
<1>1. PICK to \in {"chunks", "clean", "idle"} :
      pc[c] = "chunks" /\ pc' = [pc EXCEPT ![c] = to] /\ ~ aborted
  BY DEF ReadChunk, EndStream, Quits, Goes
<1>2. /\ gets[i] # None
      /\ UNCHANGED <<mine, counter, gets, clients, answer, gone, maps, tx, task, stopping,
                     toKernel, inbox, asked, said, cleaned>>
  BY <1>0 DEF ReadChunk, EndStream, books, promises, locks, kernel
<1>3. c \notin Listener /\ answer[i] # None /\ K!IsPrepare(answer[i])
  BY <1>0, <1>1 DEF WebInv, HandlerAt
<1>4. Handled(i) > 0 BY <1>3, StreamTold
<1>5. read' \in [Client -> 0 .. MaxCount]
  <2>1. read \in [Client -> 0 .. MaxCount] BY DEF WebInv, WebTypes
  <2>2. CASE read' = [read EXCEPT ![c] = 0] BY <2>1, <2>2, WebAssumption
  <2>3. CASE read' = [read EXCEPT ![c] = @ + 1] /\ read[c] < gets[i].cur
    <3>1. /\ gets[i].cur <= gets[i].chunks /\ gets[i].chunks \in 0 .. MaxCount
          /\ gets[i] \in Entry
      BY <1>2, <1>4, EntryTold
    <3>2. gets[i].cur \in Nat BY <3>1 DEF Entry
    <3>3. read[c] + 1 \in 0 .. MaxCount BY <2>1, <2>3, <3>1, <3>2, WebAssumption
    <3> QED BY <2>1, <2>3, <3>3
  <2> QED BY <1>0, <2>2, <2>3 DEF ReadChunk, EndStream, Quits
<1>6. HandlerAt(c)'
  <2>1. Sent(i)' <=> Sent(i) BY <1>2, SameSent
  <2> QED BY <1>0, <1>1, <1>2, <1>3, <2>1, SelfGoesOn
<1>7. maps \in Client \cup {None} /\ tx \in Client \cup {None} BY DEF WebInv, WebTypes
<1> QED BY <1>0, <1>1, <1>2, <1>4, <1>5, <1>6, <1>7, OnlyGoesOn DEF Early

\* clean_streaming_request takes the mutexes: nobody else holds them.
LEMMA WebStartClean ==
    ASSUME WebInv, MapInv, NEW c \in Client, StartClean(c)
    PROVE  WebInv'
<1>0. PICK i \in Id : i = mine[c]
  BY DEF StartClean, Goes, WebInv, Owners
<1>1. PICK to \in {"idle", "cleaning"} :
      /\ pc[c] = "clean" /\ pc' = [pc EXCEPT ![c] = to] /\ ~ aborted
      /\ to = "idle" => maps' = maps
      /\ to = "cleaning" => clients[c] # None /\ maps' = c
  BY DEF StartClean, Goes, Known
<1>2. /\ maps = None
      /\ UNCHANGED <<mine, read, counter, gets, clients, answer, gone, tx, task, stopping,
                     toKernel, inbox, asked, said, cleaned>>
  BY DEF StartClean, books, promises, kernel
<1>3. c \notin Listener /\ answer[i] # None /\ K!IsPrepare(answer[i])
  BY <1>0, <1>1 DEF WebInv, HandlerAt
<1>4. Handled(i) > 0 BY <1>3, StreamTold
<1>5. HandlerAt(c)'
  <2>1. Sent(i)' <=> Sent(i) BY <1>2, SameSent
  <2> QED BY <1>0, <1>1, <1>2, <1>3, <2>1, SelfGoesOn
<1>6. \A d \in Client : pc[d] # "cleaning"
  BY <1>2, NoneAssumption DEF WebInv, HandlerAt
<1>7. /\ maps' \in Client \cup {None} /\ tx \in Client \cup {None}
      /\ read \in [Client -> 0 .. MaxCount]
  BY <1>1, <1>2 DEF WebInv, WebTypes
<1> QED BY <1>0, <1>1, <1>2, <1>4, <1>5, <1>6, <1>7, OnlyGoesOn DEF Early

\* A livestream is left, or ends because the task stops.
LEMMA WebListen ==
    ASSUME WebInv, MapInv, NEW c \in Client, StartLeave(c) \/ LivestreamEnds(c)
    PROVE  WebInv'
<1>0. PICK i \in Id : i = mine[c]
  BY DEF StartLeave, LivestreamEnds, Goes, WebInv, Owners
<1>1. PICK to \in {"idle", "leaving"} :
      /\ pc[c] = "listen" /\ pc' = [pc EXCEPT ![c] = to] /\ ~ aborted
      /\ to = "idle" => answer[i] # None
  BY <1>0 DEF StartLeave, LivestreamEnds, Goes
<1>2. /\ UNCHANGED <<mine, read, counter, gets, clients, answer, gone, maps, task, stopping,
                     toKernel, inbox, asked, said, cleaned>>
      /\ tx' \in Client \cup {None}
  BY DEF StartLeave, LivestreamEnds, books, promises, locks, kernel, WebInv, WebTypes
<1>3. c \in Listener /\ i # 0 /\ clients[c] = i /\ ~ Sent(i) /\ Request(i)
  BY <1>0, <1>1 DEF WebInv, HandlerAt, Id
<1>4. to = "idle" => Over
  <2>1. answer[i] \in {None, Gone} BY <1>3, NotSent
  <2> QED BY <1>1, <1>3, <2>1 DEF Request
<1>5. HandlerAt(c)'
  <2>1. Sent(i)' <=> Sent(i) BY <1>2, SameSent
  <2> QED BY <1>0, <1>1, <1>2, <1>3, <2>1, SelfGoesOn
<1>6. maps' \in Client \cup {None} /\ read \in [Client -> 0 .. MaxCount]
  BY <1>2 DEF WebInv, WebTypes
<1> QED BY <1>0, <1>1, <1>2, <1>4, <1>5, <1>6, OnlyGoesOn DEF Early

\* One more message for the kernel.
LEMMA OneMorePost ==
    ASSUME WebTypes, NEW cmd \in {"get", "clean", "cancel"}, NEW i \in Id,
           toKernel' = Append(toKernel, Post(cmd, i)), asked' = asked
    PROVE  /\ toKernel' \in Seq([cmd : {"get", "clean", "cancel"}, id : Id])
           /\ ElementsOf(toKernel)' = ElementsOf(toKernel) \cup {Post(cmd, i)}
           /\ Once(toKernel') <=> Once(toKernel) /\ Post(cmd, i) \notin ElementsOf(toKernel)
           /\ \A j : Sent(j)' <=> Sent(j) \/ (cmd = "get" /\ j = i)
<1> DEFINE T == [cmd : {"get", "clean", "cancel"}, id : Id]
           x == Post(cmd, i)
<1>1. toKernel \in Seq(T) /\ x \in T BY DEF WebTypes, Post
<1> HIDE DEF T, x
<1>2. /\ Append(toKernel, x) \in Seq(T)
      /\ ElementsOf(Append(toKernel, x)) = ElementsOf(toKernel) \cup {x}
      /\ Once(Append(toKernel, x)) <=> Once(toKernel) /\ x \notin ElementsOf(toKernel)
  BY <1>1, AppendedElements
<1>3. toKernel' = Append(toKernel, x) BY DEF x
<1>4. ElementsOf(toKernel)' = ElementsOf(Append(toKernel, x))
  BY <1>3 DEF ElementsOf
<1>5. \A j : Post("get", j) = x <=> cmd = "get" /\ j = i
  BY DEF Post, x
<1>6. \A j : Sent(j)' <=> Sent(j) \/ Post("get", j) = x
  <2>1. \A j : Sent(j)' <=> j \in asked \/ Post("get", j) \in ElementsOf(toKernel)'
    BY DEF Sent, Post
  <2> QED BY <2>1, <1>2, <1>4 DEF Sent
<1> QED BY <1>2, <1>3, <1>4, <1>5, <1>6 DEF T, x

\* handle_get_request: the kernel has not heard of this id.
LEMMA WebSendGet ==
    ASSUME WebInv, MapInv, NEW c \in Client, SendGet(c)
    PROVE  WebInv'
<1>0. PICK i \in Id : i = mine[c]
  BY DEF SendGet, Goes, WebInv, Owners
<1>1. /\ pc[c] = "send" /\ pc' = [pc EXCEPT ![c] = IF c \in Listener THEN "listen" ELSE "answer"]
      /\ c \in Listener => UNCHANGED toKernel
      /\ c \notin Listener => toKernel' = Append(toKernel, Post("get", i))
      /\ ~ aborted
      /\ UNCHANGED <<mine, read, counter, gets, clients, answer, gone, maps, tx, task, stopping,
                     inbox, asked, said, cleaned>>
  BY <1>0 DEF SendGet, Goes, Send, Post, books, promises, locks, kernel
<1>2. /\ HandlerAt(c) /\ ~ Sent(i) /\ gets[i] # None /\ gets[i].client = c
      /\ c \in Listener => clients[c] = i
  BY <1>0, <1>1 DEF WebInv, HandlerAt, MapInv, IdsFresh
<1>3. /\ maps \in Client \cup {None} /\ tx \in Client \cup {None}
      /\ read \in [Client -> 0 .. MaxCount]
  BY DEF WebInv, WebTypes
<1>5. CASE c \in Listener
  <2>0. PICK to \in {"listen"} : pc' = [pc EXCEPT ![c] = to] BY <1>1, <1>5
  <2>1. Sent(i)' <=> Sent(i) BY <1>1, <1>5, SameSent
  <2>2. HandlerAt(c)' BY <1>0, <1>1, <1>2, <1>5, <2>0, <2>1, SelfGoesOn
  <2> QED BY <1>1, <1>3, <1>5, <2>2, OnlyGoesOn DEF Early
<1>6. CASE c \notin Listener
  <2>1. /\ pc'[c] = "answer" /\ \A d \in Client \ {c} : pc'[d] = pc[d]
    BY <1>1, <1>6 DEF WebInv, WebTypes
  <2>2. /\ toKernel' \in Seq([cmd : {"get", "clean", "cancel"}, id : Id])
        /\ ElementsOf(toKernel)' = ElementsOf(toKernel) \cup {Post("get", i)}
        /\ Once(toKernel') <=> Once(toKernel) /\ Post("get", i) \notin ElementsOf(toKernel)
        /\ \A j : Sent(j)' <=> Sent(j) \/ j = i
    BY <1>1, <1>6, OneMorePost DEF WebInv
  <2>3. WebTypes' BY <1>1, <1>6, <2>2 DEF WebInv, WebTypes
  <2>4. \A j : (Busy(j)' <=> Busy(j)) /\ Pending(j)' = Pending(j) /\ Handled(j)' = Handled(j)
    BY <1>1, SamePending DEF Handled
  <2>5. Owners'
    <3>1. ~ (i > counter) BY <1>0 DEF WebInv, Owners, WebTypes, Id
    <3> QED BY <1>1, <2>1, <2>2, <3>1 DEF WebInv, Owners
  <2>6. TaskAt' /\ (Over' <=> Over) BY <1>1, SameTask DEF WebInv
  <2>7. ElementsOf(cleaned)' = ElementsOf(cleaned) BY <1>1 DEF ElementsOf
  <2>8. ASSUME NEW cmd, NEW j
        PROVE  /\ Post(cmd, j)' = Post(cmd, j)
               /\ Post(cmd, j) \in ElementsOf(toKernel)' <=>
                     Post(cmd, j) \in ElementsOf(toKernel) \/ (cmd = "get" /\ j = i)
    <3>1. Post(cmd, j)' = Post(cmd, j) /\ (Post(cmd, j) = Post("get", i) <=> cmd = "get" /\ j = i)
      BY DEF Post
    <3> QED BY <2>2, <3>1
  <2>9. \A j : CleanTold(j)' <=> CleanTold(j)
    BY <2>7, <2>8 DEF CleanTold
  <2>10. \A j \in Id : Talk(j)' BY <1>1, <2>4, SameTalk DEF WebInv
  <2>11. ASSUME NEW j \in Id PROVE Request(j)'
    <3>0. Alive(j) => Alive(j)' BY <1>1, <2>1 DEF Alive
    <3>1. CASE j # i
      BY <1>1, <2>2, <2>4, <2>6, <2>9, <3>0, <3>1, SameRequest DEF WebInv
    <3>2. CASE j = i
      <4>1. Request(i) /\ Handled(i) = 0 /\ Untold(i) BY <1>2, NotSent DEF WebInv
      <4>2. Handled(i)' = 0 BY <2>4, <4>1
      <4>3. Untold(i)' BY <1>1, <2>4, <2>6, <3>0, <3>2, <4>1 DEF Untold
      <4>4. Request(i)' BY <1>1, <1>2, <1>6, <2>6, <4>1, <4>2, <4>3 DEF Request
      <4> QED BY <3>2, <4>4
    <3> QED BY <3>1, <3>2
  <2>12. ASSUME NEW d \in Client PROVE HandlerAt(d)'
    <3>1. CASE d = c
      <4>1. (clients[c] # None =>
                \/ clients[c] = mine[c] \/ Handled(clients[c]) > 0
                \/ Busy(clients[c]) /\ mine[c] # 0 /\ answer[mine[c]] = None)'
        BY <1>1, <1>2, <2>4 DEF HandlerAt
      <4> QED BY <1>6, <2>1, <3>1, <4>1 DEF HandlerAt
    <3>2. CASE d # c
      <4>1. mine[d] # i BY <1>0, <3>2, OwnIds
      <4> QED BY <1>1, <2>1, <2>2, <2>4, <3>2, <4>1, SameHandler
    <3> QED BY <3>1, <3>2
  <2>13. Letters'
    <3>1. ASSUME NEW j \in Id, Erased(j) PROVE Erased(j)'
      <4>1. \A d \in Client : pc[d] \notin Early => pc'[d] \notin Early BY <1>1, <2>1 DEF Early
      <4> QED BY <1>1, <3>1, <4>1 DEF Erased
    <3>2. \A j \in Id : Announced(j)' <=> Announced(j) BY <1>1 DEF Announced
    <3>3. Post("get", i) \notin ElementsOf(toKernel) /\ i \notin asked
      BY <1>2 DEF Sent
    <3>4. Letters BY DEF WebInv
    <3>5. Once(toKernel)' /\ Once(cleaned)' BY <1>1, <2>2, <3>3, <3>4 DEF Once, Letters
    <3>6. \A d \in Client : pc[d] = "forget" => pc'[d] = "forget" /\ mine'[d] = mine[d]
      BY <1>1, <2>1
    <3> QED BY <1>1, <2>7, <2>8, <2>9, <3>1, <3>2, <3>3, <3>4, <3>5, <3>6 DEF Letters
  <2> QED BY <2>3, <2>5, <2>6, <2>10, <2>11, <2>12, <2>13 DEF WebInv
<1> QED BY <1>5, <1>6

\* cancel_livestream_get: the kernel was never asked for the request, and is told
\* once that it is cancelled.
LEMMA WebLeave ==
    ASSUME WebInv, MapInv, NEW c \in Client, Leave(c)
    PROVE  WebInv'
<1>0. PICK i \in Id : i = mine[c]
  BY DEF Leave, Goes, WebInv, Owners
<1>1. pc[c] = "leaving" /\ ~ aborted BY DEF Leave, Goes
<1>2. /\ c \in Listener /\ clients[c] = i /\ clients[c] # None
      /\ gets[i] # None
  BY <1>0, <1>1, NoneAssumption DEF WebInv, HandlerAt, MapInv, ClientsAgree
<1>3. /\ pc' = [pc EXCEPT ![c] = "forget"]
      /\ toKernel' = Append(toKernel, Post("cancel", i))
      /\ UNCHANGED <<mine, read, counter, gets, clients, answer, gone, maps, tx, task, stopping,
                     inbox, asked, said, cleaned>>
  BY <1>2 DEF Leave, Goes, Known, Send, Post, books, promises, kernel
<1>4. /\ toKernel' \in Seq([cmd : {"get", "clean", "cancel"}, id : Id])
      /\ ElementsOf(toKernel)' = ElementsOf(toKernel) \cup {Post("cancel", i)}
      /\ Once(toKernel') <=> Once(toKernel) /\ Post("cancel", i) \notin ElementsOf(toKernel)
      /\ \A j : Sent(j)' <=> Sent(j)
  BY <1>3, OneMorePost DEF WebInv
<1>5. pc'[c] = "forget" /\ \A d \in Client \ {c} : pc'[d] = pc[d]
  BY <1>3 DEF WebInv, WebTypes
<1>6. ElementsOf(cleaned)' = ElementsOf(cleaned) BY <1>3 DEF ElementsOf
<1>7. ASSUME NEW cmd, NEW j
      PROVE  /\ Post(cmd, j)' = Post(cmd, j)
             /\ Post(cmd, j) \in ElementsOf(toKernel)' <=>
                   Post(cmd, j) \in ElementsOf(toKernel) \/ (cmd = "cancel" /\ j = i)
  <2>1. Post(cmd, j)' = Post(cmd, j) /\ (Post(cmd, j) = Post("cancel", i) <=> cmd = "cancel" /\ j = i)
    BY DEF Post
  <2> QED BY <1>4, <2>1
<1>8. \A j : CleanTold(j)' <=> CleanTold(j)
  BY <1>6, <1>7 DEF CleanTold
<1>9. Letters'
  <2>1. Letters BY DEF WebInv
  <2>2. ASSUME NEW j \in Id, Erased(j) PROVE Erased(j)'
    <3>1. \A d \in Client : pc[d] \notin Early => pc'[d] \notin Early BY <1>1, <1>5 DEF Early
    <3> QED BY <1>3, <2>2, <3>1 DEF Erased
  <2>3. \A j \in Id : Announced(j)' <=> Announced(j) BY <1>3 DEF Announced
  <2>4. \A d \in Client : pc[d] = "forget" => pc'[d] = "forget" /\ mine'[d] = mine[d]
    BY <1>3, <1>5
  <2>5. Post("cancel", i) \notin ElementsOf(toKernel)
    <3>1. ~ Erased(i) BY <1>2 DEF Erased
    <3>2. \A d \in Client : mine[d] = i => d = c BY <1>0, OwnIds
    <3> QED BY <1>1, <2>1, <3>1, <3>2 DEF Letters
  <2>6. Once(toKernel)' /\ Once(cleaned)' BY <1>3, <1>4, <2>1, <2>5 DEF Once, Letters
  <2>7. mine'[c] = i BY <1>0, <1>3
  <2> QED BY <1>3, <1>5, <1>6, <1>7, <1>8, <2>1, <2>2, <2>3, <2>4, <2>6, <2>7 DEF Letters
<1>10. HandlerAt(c)'
  <2>1. PICK to \in {"forget"} : pc' = [pc EXCEPT ![c] = to] BY <1>3
  <2> QED BY <1>0, <1>2, <1>3, <1>4, <2>1, SelfGoesOn
<1>11. /\ maps \in Client \cup {None} /\ tx \in Client \cup {None}
       /\ read \in [Client -> 0 .. MaxCount] /\ \A d \in Client : maps' = maps
  BY <1>3 DEF WebInv, WebTypes
<1> QED BY <1>1, <1>3, <1>4, <1>8, <1>9, <1>10, <1>11, GoesOn

\* A handler erases the request i of its address: its own, or one that an earlier
\* handler has left behind, which is then a stream.
LEMMA WebErases ==
    ASSUME WebInv, MapInv, ~ aborted, NEW c \in Client, NEW i \in Id,
           gets[i] # None, gets[i].client = c, Erase(i, c), pc' = [pc EXCEPT ![c] = "idle"],
           pc[c] \in {"send", "cleaning", "forget"},
           UNCHANGED <<mine, read, counter, answer, gone, task, stopping, inbox, asked, said,
                       cleaned>>,
           maps' \in Client \cup {None}, tx' \in Client \cup {None},
           \A d \in Client : d # c /\ pc[d] = "cleaning" => maps' = maps,
           mine[c] = i \/ Handled(mine[c]) > 0,
           \/ toKernel' = Append(toKernel, Post("clean", i)) /\ Handled(i) > 0 /\ pc[c] = "cleaning"
           \/ toKernel' = toKernel /\ ~ Sent(i) /\ mine[c] = i
    PROVE  WebInv'
<1>1. /\ gets' = [gets EXCEPT ![i] = None] /\ clients' = [clients EXCEPT ![c] = None]
  BY DEF Erase
<1>2. /\ pc'[c] = "idle" /\ \A d \in Client \ {c} : pc'[d] = pc[d] /\ clients'[d] = clients[d]
      /\ clients'[c] = None
      /\ \A j \in Id : gets'[j] = IF j = i THEN None ELSE gets[j]
  BY <1>1 DEF WebInv, WebTypes
<1>3. i <= counter BY DEF MapInv, IdsFresh
<1>4. /\ toKernel' \in Seq([cmd : {"get", "clean", "cancel"}, id : Id])
      /\ ElementsOf(toKernel) \subseteq ElementsOf(toKernel)'
      /\ ElementsOf(toKernel)' \subseteq ElementsOf(toKernel) \cup {Post("clean", i)}
      /\ toKernel' # toKernel => Post("clean", i) \in ElementsOf(toKernel)'
      /\ Once(toKernel) /\ Post("clean", i) \notin ElementsOf(toKernel) => Once(toKernel')
      /\ \A j : Sent(j)' <=> Sent(j)
  <2>1. CASE toKernel' = Append(toKernel, Post("clean", i))
    <3>1. /\ toKernel' \in Seq([cmd : {"get", "clean", "cancel"}, id : Id])
          /\ ElementsOf(toKernel)' = ElementsOf(toKernel) \cup {Post("clean", i)}
          /\ Once(toKernel') <=> Once(toKernel) /\ Post("clean", i) \notin ElementsOf(toKernel)
          /\ \A j : Sent(j)' <=> Sent(j)
      BY <2>1, OneMorePost DEF WebInv
    <3> QED BY <3>1
  <2>2. CASE toKernel' = toKernel
    <3>1. ElementsOf(toKernel)' = ElementsOf(toKernel) BY <2>2 DEF ElementsOf
    <3> QED BY <2>2, <3>1, SameSent DEF WebInv, WebTypes
  <2> QED BY <2>1, <2>2
<1>5. WebTypes' BY <1>1, <1>4 DEF WebInv, WebTypes
<1>6. \A j : (Busy(j)' <=> Busy(j)) /\ Pending(j)' = Pending(j) /\ Handled(j)' = Handled(j)
  BY SamePending DEF Handled
<1>7. Owners' BY <1>2, <1>4 DEF WebInv, Owners
<1>8. TaskAt' /\ (Over' <=> Over) BY SameTask DEF WebInv
<1>9. ElementsOf(cleaned)' = ElementsOf(cleaned) BY DEF ElementsOf
<1>10. ASSUME NEW cmd, NEW j
       PROVE  /\ Post(cmd, j)' = Post(cmd, j)
              /\ Post(cmd, j) \in ElementsOf(toKernel) => Post(cmd, j) \in ElementsOf(toKernel)'
              /\ Post(cmd, j) \in ElementsOf(toKernel)' =>
                    Post(cmd, j) \in ElementsOf(toKernel)
                       \/ (cmd = "clean" /\ j = i /\ toKernel' # toKernel)
  <2>1. Post(cmd, j)' = Post(cmd, j) /\ (Post(cmd, j) = Post("clean", i) <=> cmd = "clean" /\ j = i)
    BY DEF Post
  <2>2. toKernel' = toKernel => ElementsOf(toKernel)' = ElementsOf(toKernel) BY DEF ElementsOf
  <2> QED BY <1>4, <2>1, <2>2
<1>11. \A j : CleanTold(j) => CleanTold(j)'
  BY <1>9, <1>10 DEF CleanTold
<1>12. \A d \in Client : mine[d] = i => d = c
  BY DEF MapInv, IdsFresh
<1>13. toKernel' # toKernel => CleanTold(i)' /\ Announced(i) /\ Told(i)
  <2> SUFFICES ASSUME toKernel' # toKernel PROVE CleanTold(i)' /\ Announced(i) /\ Told(i) OBVIOUS
  <2>1. Announced(i) /\ Told(i) BY EntryTold
  <2>2. Post("clean", i) \in ElementsOf(toKernel)' BY <1>4
  <2> QED BY <1>10, <2>1, <2>2 DEF CleanTold
<1>14. ASSUME NEW j \in Id PROVE Talk(j)' /\ Request(j)'
  <2>0. Talk(j)' BY <1>6, SameTalk DEF WebInv
  <2>1. CASE j # i
    <3>1. Alive(j) => Alive(j)' \/ Handled(j) > 0 BY <1>2, <2>1 DEF Alive
    <3> QED BY <1>2, <1>4, <1>6, <1>8, <1>11, <2>0, <2>1, <3>1, SameRequest DEF WebInv
  <2>2. CASE j = i
    <3>1. Request(i) BY DEF WebInv
    <3>2. gets'[i] = None BY <1>2
    <3>3. Handled(i) \in Nat BY HandledPart
    <3>4. CASE toKernel' # toKernel
      <4>1. Told(i)' BY <1>6, <1>13, <3>2, <3>4 DEF Told
      <4>2. Handled(i) > 0 BY <3>4
      <4>3. Request(i)' BY <1>6, <1>8, <3>1, <3>2, <3>3, <4>1, <4>2 DEF Request
      <4> QED BY <2>0, <2>2, <4>3
    <3>5. CASE toKernel' = toKernel
      <4>1. ~ Sent(i) /\ ~ Sent(i)'
        <5>1. ~ Sent(i)
          <6>1. Append(toKernel, Post("clean", i)) # toKernel
            BY DEF WebInv, WebTypes
          <6> QED BY <3>5, <6>1
        <5> QED BY <1>4, <5>1
      <4>2. Handled(i) = 0 /\ Untold(i) BY <4>1, NotSent
      <4>3. Untold(i)' BY <1>6, <3>2, <4>2 DEF Untold
      <4>4. Request(i)' BY <1>6, <1>8, <3>1, <3>2, <4>1, <4>2, <4>3 DEF Request
      <4> QED BY <2>0, <2>2, <4>4
    <3> QED BY <3>4, <3>5
  <2> QED BY <2>1, <2>2
<1>15. ASSUME NEW d \in Client PROVE HandlerAt(d)'
  <2>1. CASE d = c
    BY <1>2, <1>4, <2>1 DEF HandlerAt, WebInv
  <2>2. CASE d # c
    <3>1. mine[d] # i BY <1>12, <2>2
    <3> QED BY <1>2, <1>4, <1>6, <2>2, <3>1, SameHandler
  <2> QED BY <2>1, <2>2
<1>16. Letters'
  <2>1. ASSUME NEW j \in Id, Erased(j) PROVE Erased(j)'
    <3>1. \A d \in Client : pc[d] \notin Early => pc'[d] \notin Early BY <1>2 DEF Early
    <3> QED BY <1>2, <2>1, <3>1 DEF Erased
  <2>2. \A j \in Id : Announced(j)' <=> Announced(j) BY DEF Announced
  <2>3. Erased(i)'
    <3>1. ASSUME NEW d \in Client, mine[d] = i PROVE pc'[d] \notin Early
      BY <1>2, <1>12, <3>1 DEF Early
    <3> QED BY <1>2, <1>3, <3>1 DEF Erased
  <2>4. ~ Erased(i) BY DEF Erased
  <2>5. Letters BY DEF WebInv
  <2>6. ~ CleanTold(i) BY <2>4, <2>5 DEF Letters
  <2>7. Once(toKernel)' /\ Once(cleaned)'
    <3>1. Once(toKernel') BY <1>4, <2>5, <2>6 DEF Letters, CleanTold
    <3> QED BY <2>5, <3>1 DEF Once, Letters
  <2>8. ASSUME NEW j \in Id, CleanTold(j)' PROVE Erased(j)' /\ Announced(j)'
    <3>1. CleanTold(j) \/ (j = i /\ toKernel' # toKernel)
      BY <1>9, <1>10, <2>8 DEF CleanTold
    <3> QED BY <1>13, <2>1, <2>2, <2>3, <2>5, <3>1 DEF Letters
  <2>9. ASSUME NEW j \in Id, Post("cancel", j) \in ElementsOf(toKernel)
        PROVE  Erased(j)' \/ \E d \in Client : mine'[d] = j /\ pc'[d] = "forget"
    <3>1. Erased(j) \/ \E d \in Client : mine[d] = j /\ pc[d] = "forget"
      BY <2>5, <2>9 DEF Letters
    <3>2. ASSUME NEW d \in Client, mine[d] = j, pc[d] = "forget"
          PROVE  Erased(j)' \/ (mine'[d] = j /\ pc'[d] = "forget")
      <4>1. CASE d = c
        <5>1. mine[c] = i
          <6>1. ~ Sent(mine[c]) /\ mine[c] \in Id
            BY <3>2, <4>1 DEF WebInv, HandlerAt, Owners
          <6>2. Handled(mine[c]) = 0 BY <6>1, NotSent
          <6> QED BY <6>2
        <5> QED BY <2>3, <3>2, <4>1, <5>1
      <4>2. CASE d # c BY <1>2, <3>2, <4>2
      <4> QED BY <4>1, <4>2
    <3> QED BY <2>1, <3>1, <3>2
  <2>10. ASSUME NEW j \in Id, j \in ElementsOf(cleaned) PROVE Post("clean", j) \notin ElementsOf(toKernel)'
    <3>1. j # i /\ Post("clean", j) \notin ElementsOf(toKernel)
      BY <2>5, <2>6, <2>10 DEF Letters, CleanTold
    <3> QED BY <1>10, <3>1
  <2>11. \A j \in Id : Post("get", j) \in ElementsOf(toKernel)' => j \notin asked'
    BY <1>10, <2>5 DEF Letters
  <2>12. \A j \in Id : Post("cancel", j) \in ElementsOf(toKernel)' => Post("cancel", j) \in ElementsOf(toKernel)
    BY <1>10
  <2> QED BY <1>9, <1>10, <2>7, <2>8, <2>9, <2>10, <2>11, <2>12 DEF Letters
<1> QED BY <1>5, <1>7, <1>8, <1>14, <1>15, <1>16 DEF WebInv

\* The handler finds a request under its address: the entry is that of a request of
\* the address.
LEMMA FoundEntry ==
    ASSUME WebInv, MapInv, NEW c \in Client, clients[c] # None
    PROVE  clients[c] \in Id /\ gets[clients[c]] # None /\ gets[clients[c]].client = c
BY DEF WebInv, WebTypes, MapInv, ClientsAgree

\* clean_streaming_request: whoever's stream it is, the task has heard of it.
LEMMA WebClean ==
    ASSUME WebInv, MapInv, NEW c \in Client, Clean(c)
    PROVE  WebInv'
<1>1. pc[c] = "cleaning" /\ pc' = [pc EXCEPT ![c] = "idle"] /\ ~ aborted
  BY DEF Clean, Goes
<1>2. /\ mine[c] \in Id /\ clients[c] # None /\ maps = c
      /\ answer[mine[c]] # None /\ K!IsPrepare(answer[mine[c]])
  BY <1>1 DEF WebInv, HandlerAt, Owners
<1>3. Handled(mine[c]) > 0 BY <1>2, StreamTold
<1>4. PICK i \in Id : i = clients[c] /\ gets[i] # None /\ gets[i].client = c
  BY <1>2, FoundEntry
<1>5. Handled(i) > 0 BY <1>2, <1>3, <1>4 DEF WebInv, HandlerAt
<1>6. /\ toKernel' = Append(toKernel, Post("clean", i)) /\ Erase(i, c) /\ maps' = None
      /\ UNCHANGED <<mine, read, counter, answer, gone, task, stopping, inbox, asked, said,
                     cleaned, tx>>
  BY <1>4 DEF Clean, Send, Post, promises, kernel
<1>7. \A d \in Client : d # c => pc[d] # "cleaning"
  BY <1>2 DEF WebInv, HandlerAt
<1>8. maps' \in Client \cup {None} /\ tx' \in Client \cup {None}
  BY <1>6 DEF WebInv, WebTypes
<1> QED BY <1>1, <1>3, <1>4, <1>5, <1>6, <1>7, <1>8, WebErases

\* cancel_livestream_get and a request that cannot be sent: the kernel was never
\* asked for it.
LEMMA WebForget ==
    ASSUME WebInv, MapInv, NEW c \in Client, Forget(c) \/ SendFails(c)
    PROVE  WebInv'
<1>0. PICK i \in Id : i = mine[c]
  BY DEF Forget, SendFails, Goes, WebInv, Owners
<1>1. /\ pc[c] \in {"send", "forget"} /\ pc' = [pc EXCEPT ![c] = "idle"] /\ ~ aborted /\ maps = None
      /\ UNCHANGED <<mine, read, counter, answer, gone, task, stopping, inbox, asked, said,
                     cleaned, maps, toKernel>>
      /\ tx' = tx \/ tx' = None
  BY DEF Forget, SendFails, Goes, promises, locks, kernel
<1>2. pc[c] = "send" => gets[i] # None /\ gets[i].client = c /\ ~ Sent(i)
  BY <1>0 DEF WebInv, HandlerAt, MapInv, IdsFresh
<1>3. pc[c] = "forget" => /\ clients[c] = i /\ gets[i] # None /\ gets[i].client = c /\ ~ Sent(i)
  <2> SUFFICES ASSUME pc[c] = "forget"
               PROVE  clients[c] = i /\ gets[i] # None /\ gets[i].client = c /\ ~ Sent(i)
    OBVIOUS
  <2>1. c \in Listener /\ clients[c] = i /\ clients[c] # None
    BY <1>0, NoneAssumption DEF WebInv, HandlerAt
  <2> QED BY <2>1, FoundEntry, NoListenersRequest
<1>4. Erase(i, c)
  <2>1. CASE SendFails(c) BY <1>0, <2>1 DEF SendFails
  <2>2. CASE Forget(c)
    <3>1. pc[c] = "forget" BY <2>2 DEF Forget, Goes
    <3>2. Known(c) BY <1>3, <3>1, NoneAssumption DEF Known
    <3> QED BY <1>3, <2>2, <3>1, <3>2 DEF Forget
  <2> QED BY <2>1, <2>2
<1>5. maps' \in Client \cup {None} /\ tx' \in Client \cup {None}
  BY <1>1 DEF WebInv, WebTypes
<1> QED BY <1>0, <1>1, <1>2, <1>3, <1>4, <1>5, WebErases

-----------------------------------------------------------------------------
(* The task and the requests *)

\* What is known of a request the task still has a message for: the first message
\* finds the entry as it was made; the others are of a stream, whose entry is there
\* unless it was cleaned.
LEMMA NowKnown ==
    ASSUME WebInv, inbox # <<>>, NEW i, i = Now.id, NEW m, m = Now.msg
    PROVE  /\ i \in Id /\ m \in Message
           /\ Handled(i) = 0 \/ Handled(i) > 0
           /\ Handled(i) = 0 => /\ gets[i] # None /\ gets[i] \in Entry /\ Untold(i)
                                /\ said[i][1] = m
                                /\ m \in {K!Data, K!Fail} \/ K!IsPrepare(m)
           /\ Handled(i) > 0 => /\ Told(i) /\ Announced(i) /\ answer[i] \in Message
                                /\ m \in {K!Chunk, K!Fail}
                                /\ gets[i] = None => CleanTold(i)
                                /\ gets[i] # None => /\ gets[i] \in Entry
                                                     /\ gets[i].cur = Handled(i) - 1
                                                     /\ gets[i].chunks # None
                                                     /\ gets[i].chunks \in Nat
                                                     /\ m = K!Chunk => gets[i].cur < gets[i].chunks
<1> DEFINE s == said[i]
           h == Handled(i)
<1>1. /\ i \in Id /\ m \in Message /\ h \in Nat /\ h + 1 <= Len(s)
      /\ s[h + 1] = m /\ s \in Seq(Message) /\ s # <<>> /\ Sent(i)
  BY NowHeard
<1>2. Request(i) /\ Talk(i) BY <1>1 DEF WebInv
<1>3. s[1] \in Message BY <1>1
<1>4. CASE h = 0
  <2>1. Untold(i) /\ gets[i] # None BY <1>1, <1>2, <1>4 DEF Request
  <2>2. s[1] = m BY <1>1, <1>4
  <2>3. m \in {K!Data, K!Fail} \/ K!IsPrepare(m)
    BY <1>1, <1>2, <2>2 DEF Talk
  <2>4. gets[i] \in Entry BY <1>1, <2>1 DEF WebInv, WebTypes
  <2> QED BY <1>1, <1>4, <2>1, <2>2, <2>3, <2>4
<1>5. CASE h > 0
  <2>1. Told(i) BY <1>2, <1>5 DEF Request
  <2>2. Len(s) >= 2 BY <1>1, <1>5
  <2>3. /\ K!IsPrepare(s[1])
        /\ \A n \in 2 .. Len(s) : \/ s[n] = K!Chunk /\ n <= s[1].count + 1
                                  \/ s[n] = K!Fail /\ n = Len(s)
    <3>1. s \notin {<<>>, <<K!Data>>, <<K!Fail>>}
      <4> HIDE DEF s
      <4>1. Len(<<>>) = 0 /\ Len(<<K!Data>>) = 1 /\ Len(<<K!Fail>>) = 1 OBVIOUS
      <4> QED BY <2>2, <4>1
    <3> QED BY <1>2, <3>1 DEF Talk
  <2>4. s[1].count \in 0 .. MaxCount /\ s[1].count \in Nat
    BY <1>3, <2>3, PrepareHasCount, WebAssumption
  <2>5. /\ h + 1 \in 2 .. Len(s) /\ m \in {K!Chunk, K!Fail}
        /\ m = K!Chunk => h + 1 <= s[1].count + 1
    <3>1. h + 1 \in 2 .. Len(s) BY <1>1, <1>5
    <3> HIDE DEF s, h
    <3> QED BY <3>1, <2>3, <1>1, MessageKinds
  <2>6. s[h] # K!Fail
    <3>1. h = 1 => s[h] # K!Fail BY <2>3, MessageKinds
    <3>2. h # 1 => h \in 2 .. Len(s) /\ h # Len(s) BY <1>1, <1>5
    <3> HIDE DEF s, h
    <3> QED BY <3>1, <3>2, <2>3, MessageKinds
  <2>7. /\ gets[i] = None => CleanTold(i)
        /\ gets[i] # None => gets[i].chunks = s[1].count /\ gets[i].cur = h - 1
        /\ answer[i] = s[1]
    <3> HIDE DEF s, h
    <3> QED BY <2>1, <2>3, <2>6 DEF Told, s, h
  <2>8. gets[i] # None => gets[i] \in Entry BY <1>1 DEF WebInv, WebTypes
  <2>9. s[1].count # None BY <2>4, NoneAssumption
  <2>10. gets[i] # None /\ m = K!Chunk => gets[i].cur < gets[i].chunks
    <3> HIDE DEF s, h
    <3> QED BY <1>1, <2>4, <2>5, <2>7
  <2>11. Announced(i) BY <1>1, <2>3 DEF Announced
  <2> QED BY <1>1, <1>3, <1>5, <2>1, <2>4, <2>5, <2>7, <2>8, <2>9, <2>10, <2>11
<1> QED BY <1>1, <1>4, <1>5

\* The first message of metax_rx is done with.
LEMMA TakenTalk ==
    ASSUME WebInv, inbox # <<>>, inbox' = Tail(inbox), UNCHANGED <<said, asked>>, NEW k, k = Now.id
    PROVE  /\ \A i \in Id : Talk(i)' /\ Handled(i)' = IF i = k THEN Handled(i) + 1 ELSE Handled(i)
           /\ \A i \in Id : i # k => Pending(i)' = Pending(i)
<1>1. /\ k \in Id /\ Pending(k) # <<>>
      /\ \A i \in Id : Pending(i)' = IF i = k THEN Tail(Pending(i)) ELSE Pending(i)
  BY PendingTaken DEF WebInv
<1>2. ASSUME NEW i \in Id, i # k PROVE Talk(i)' /\ Handled(i)' = Handled(i)
  BY <1>1, <1>2, SameTalk DEF WebInv
<1>3. Talk(k)' /\ Handled(k)' = Handled(k) + 1
  <2> DEFINE p == Pending(k)
             q == Tail(p)
             s == said[k]
  <2>1. p \in Seq([id : Id, msg : Message]) /\ s \in Seq(Message) /\ Talk(k) /\ p # <<>>
    BY <1>1, HandledPart DEF WebInv
  <2>2. /\ Len(p) \in Nat /\ Len(q) = Len(p) - 1 /\ Len(s) \in Nat
        /\ \A n \in 1 .. Len(q) : q[n] = p[n + 1] /\ n + 1 \in 1 .. Len(p)
    <3> HIDE DEF s
    <3> QED BY <2>1
  <2>3. Handled(k) = Len(s) - Len(p) /\ Handled(k)' = Len(s) - Len(q)
    <3>1. Pending(k)' = q BY <1>1
    <3> QED BY <3>1 DEF Handled
  <2>4. Pending(k)' = q /\ said'[k] = s /\ Len(p) <= Len(s) BY <1>1, <2>1 DEF Talk
  <2>5. \A n \in 1 .. Len(p) : p[n].msg = s[Handled(k) + n] BY <2>1 DEF Talk
  <2> HIDE DEF p, q, s
  <2>6. Handled(k)' = Handled(k) + 1 BY <2>2, <2>3
  <2>7. ASSUME NEW n \in 1 .. Len(q) PROVE q[n].msg = s[Handled(k)' + n]
    <3>1. Handled(k) + (n + 1) = Handled(k)' + n BY <2>2, <2>3
    <3> QED BY <2>2, <2>5, <3>1
  <2>8. Len(q) <= Len(s) BY <2>2, <2>4
  <2> QED BY <2>1, <2>4, <2>6, <2>7, <2>8 DEF Talk, s
<1> QED BY <1>1, <1>2, <1>3

\* The process ends in the midst of a message about an announced stream.
LEMMA WebAbort ==
    ASSUME WebInv, task \in {"wait", "set"}, inbox # <<>>, Abort,
           UNCHANGED <<pc, mine, read, counter, gone, maps, tx, stopping, toKernel, asked, said,
                       cleaned>>,
           Announced(Now.id), ChunkAfterClean \/ FailureTooLate
    PROVE  WebInv'
<1>1. task' = "aborted" /\ UNCHANGED <<gets, clients, answer, inbox>> BY DEF Abort
<1>2. WebTypes' BY <1>1 DEF WebInv, WebTypes
<1>3. \A j : /\ (Sent(j)' <=> Sent(j)) /\ (CleanTold(j)' <=> CleanTold(j))
             /\ (Busy(j)' <=> Busy(j)) /\ Pending(j)' = Pending(j) /\ Handled(j)' = Handled(j)
  BY <1>1, SameSent, SamePending DEF Handled
<1>4. ~ Over BY DEF Over
<1>5. Owners' BY <1>1, <1>3 DEF WebInv, Owners
<1>6. \A j : Alive(j)' <=> Alive(j) BY DEF Alive
<1>7. \A j \in Id : Talk(j)' /\ Request(j)'
  BY <1>1, <1>3, <1>4, <1>6, SameTalk, SameRequest DEF WebInv
<1>8. \A d \in Client : HandlerAt(d)' BY <1>1, <1>3, SameHandler
<1>9. TaskAt'
  <2>1. Now' = Now BY <1>1 DEF Now
  <2>2. Announced(Now.id)' BY <2>1 DEF Announced
  <2>3. CleanSent(Now.id)' <=> CleanSent(Now.id) BY <2>1 DEF CleanSent, Closed
  <2>4. Alive(Now.id)' <=> Alive(Now.id) BY <2>1 DEF Alive
  <2>5. (ChunkAfterClean \/ FailureTooLate)'
    BY <2>1, <2>3, <2>4 DEF ChunkAfterClean, FailureTooLate
  <2> QED BY <1>1, <2>2, <2>5 DEF TaskAt, Over
<1>10. Letters'
  <2>1. \A j : (Erased(j)' <=> Erased(j)) /\ (Announced(j)' <=> Announced(j))
    BY <1>1 DEF Erased, Announced
  <2> QED BY <2>1, SameLetters DEF WebInv
<1> QED BY <1>2, <1>5, <1>7, <1>8, <1>9, <1>10 DEF WebInv

\* The handlers of metax_rx find the request they look up, unless it was cleaned:
\* a failure is then dropped, and a chunk is what ends the process.
LEMMA WebLookUp ==
    ASSUME WebInv, MapInv, LookUp
    PROVE  WebInv'
<1>0. PICK i, m : i = Now.id /\ m = Now.msg OBVIOUS
<1>1. /\ task = "wait" /\ inbox # <<>>
      /\ UNCHANGED <<pc, mine, read, counter, gone, maps, tx, stopping, toKernel, asked, said,
                     cleaned>>
  BY DEF LookUp, locks, kernel
<1>2. /\ i \in Id /\ Handled(i) \in Nat
      /\ gets[i] = None => /\ Handled(i) > 0 /\ Told(i) /\ Announced(i) /\ CleanTold(i)
                           /\ m \in {K!Chunk, K!Fail}
  BY <1>0, <1>1, NowKnown, HandledPart
<1>3. CASE gets[i] = None /\ m \in {K!Data, K!Chunk}
  <2>1. Abort BY <1>0, <1>3 DEF LookUp
  <2>2. Announced(Now.id) /\ ChunkAfterClean
    BY <1>0, <1>2, <1>3, CleanToldIs, MessageKinds DEF ChunkAfterClean
  <2> QED BY <1>1, <2>1, <2>2, WebAbort
<1>4. CASE ~ (gets[i] = None /\ m \in {K!Data, K!Chunk})
  <2>1. /\ UNCHANGED <<gets, clients, answer>>
        /\ \/ gets[i] # None /\ task' = "set" /\ inbox' = inbox
           \/ gets[i] = None /\ task' = "wait" /\ inbox' = Tail(inbox)
    BY <1>0, <1>1, <1>4 DEF LookUp, books
  <2>2. \A j : /\ (Sent(j)' <=> Sent(j)) /\ (CleanTold(j)' <=> CleanTold(j))
               /\ (Busy(j)' <=> Busy(j)) /\ ~ Busy(j)
    BY <1>1, <2>1, SameSent DEF Busy
  <2>3. ~ Over /\ ~ Over' BY <1>1, <2>1 DEF Over
  <2>4. inbox' \in Seq([id : Id, msg : Message])
    BY <1>1, <2>1, InboxTypes DEF WebInv, WebTypes
  <2>5. WebTypes' BY <1>1, <2>1, <2>4 DEF WebInv, WebTypes
  <2>6. Owners' BY <1>1, <2>1, <2>2 DEF WebInv, Owners
  <2>7. \A j : Alive(j)' <=> Alive(j) BY <1>1 DEF Alive
  <2>8. /\ \A j \in Id : Talk(j)'
        /\ \A j \in Id : j # i \/ gets[i] # None =>
               Pending(j)' = Pending(j) /\ Handled(j)' = Handled(j)
        /\ gets[i] = None => Handled(i)' = Handled(i) + 1
    <3>1. CASE inbox' = inbox /\ gets[i] # None
      <4>1. \A j : Pending(j)' = Pending(j) BY <3>1, SamePending
      <4> QED BY <1>1, <3>1, <4>1, SameTalk DEF WebInv
    <3>2. CASE inbox' = Tail(inbox) /\ gets[i] = None
      <4>1. /\ \A j \in Id : Talk(j)' /\ Handled(j)' = IF j = i THEN Handled(j) + 1 ELSE Handled(j)
            /\ \A j \in Id : j # i => Pending(j)' = Pending(j)
        BY <1>0, <1>1, <3>2, TakenTalk
      <4> QED BY <1>2, <3>2, <4>1
    <3> QED BY <2>1, <3>1, <3>2
  <2>9. ASSUME NEW j \in Id PROVE Request(j)'
    <3>1. CASE j # i \/ gets[i] # None
      BY <1>1, <2>1, <2>2, <2>3, <2>7, <2>8, <3>1, SameRequest DEF WebInv
    <3>2. CASE j = i /\ gets[i] = None
      <4>1. Request(i) BY <1>2 DEF WebInv
      <4>2. Told(i)' BY <1>1, <1>2, <2>1, <2>2, <3>2 DEF Told
      <4>3. Handled(i)' > 0 /\ Handled(i)' # 0 BY <1>2, <2>8, <3>2
      <4>4. answer[i] # Gone BY <2>3, <4>1 DEF Request
      <4>5. Request(i)' BY <2>1, <3>2, <4>2, <4>3, <4>4 DEF Request
      <4> QED BY <3>2, <4>5
    <3> QED BY <3>1, <3>2
  <2>10. ASSUME NEW d \in Client PROVE HandlerAt(d)'
    <3>1. clients[d] # None => clients[d] \in Id /\ gets[clients[d]] # None
      BY DEF WebInv, WebTypes, MapInv, ClientsAgree
    <3>2. clients[d] # None => Handled(clients[d])' = Handled(clients[d])
      <4> SUFFICES ASSUME clients[d] # None
                   PROVE  Handled(clients[d])' = Handled(clients[d])
        OBVIOUS
      <4>1. PICK k \in Id : k = clients[d] /\ gets[k] # None BY <3>1
      <4>2. Handled(k)' = Handled(k) BY <2>8, <4>1
      <4>3. clients'[d] = k BY <2>1, <4>1
      <4> QED BY <4>1, <4>2, <4>3
    <3> QED BY <1>1, <2>1, <2>2, <3>2, SameHandler
  <2>11. TaskAt' BY <1>1, <2>1, <2>3 DEF TaskAt, aborted
  <2>12. Letters'
    <3>1. \A j : (Erased(j)' <=> Erased(j)) /\ (Announced(j)' <=> Announced(j))
      BY <1>1, <2>1 DEF Erased, Announced
    <3> QED BY <1>1, <3>1, SameLetters DEF WebInv
  <2> QED BY <2>5, <2>6, <2>8, <2>9, <2>10, <2>11, <2>12 DEF WebInv
<1> QED BY <1>3, <1>4

\* The promise of a request is set, or its entry goes on.
LEMMA WebPromise ==
    ASSUME WebInv, MapInv, task = "set", NEW i, i = Now.id, NEW e \in Entry, NEW a \in Message,
           gets[i] # None, e.client = gets[i].client, answer[i] # None => a = answer[i],
           gets' = [gets EXCEPT ![i] = e], answer' = [answer EXCEPT ![i] = a],
           \/ inbox' = Tail(inbox) /\ task' = "wait"
           \/ inbox' = inbox /\ task' = "erase",
           UNCHANGED <<pc, mine, read, counter, clients, gone, maps, tx, stopping, toKernel,
                       asked, said, cleaned>>,
           Request(i)'
    PROVE  WebInv'
<1>1. inbox # <<>> BY DEF WebInv, TaskAt
<1>2. i \in Id /\ Sent(i) BY <1>1, NowKnown, NowHeard
<1>3. e # None BY NoneAssumption
<1>4. \A j \in Id : /\ gets'[j] = IF j = i THEN e ELSE gets[j]
                    /\ answer'[j] = IF j = i THEN a ELSE answer[j]
  BY DEF WebInv, WebTypes
<1>5. inbox' \in Seq([id : Id, msg : Message])
  BY <1>1, InboxTypes DEF WebInv, WebTypes
<1>6. WebTypes' BY <1>2, <1>5 DEF WebInv, WebTypes
<1>7. \A j : (Sent(j)' <=> Sent(j)) /\ (CleanTold(j)' <=> CleanTold(j)) BY SameSent
<1>8. \A j : ~ Busy(j) BY DEF Busy
<1>9. \A j : j # i => ~ Busy(j)' BY DEF Busy, Now
<1>10. Owners'
  <2>1. ~ (i > counter) BY <1>2 DEF WebInv, Owners
  <2> QED BY <1>4, <1>7, <2>1 DEF WebInv, Owners
<1>11. /\ \A j \in Id : Talk(j)' /\ (j # i => Pending(j)' = Pending(j))
       /\ \A j \in Id : Handled(j) > 0 => Handled(j)' > 0
  <2>1. CASE inbox' = inbox
    BY <2>1, SamePending, SameTalk DEF WebInv
  <2>2. CASE inbox' = Tail(inbox)
    <3>1. /\ \A j \in Id : Talk(j)' /\ Handled(j)' = IF j = i THEN Handled(j) + 1 ELSE Handled(j)
          /\ \A j \in Id : j # i => Pending(j)' = Pending(j)
      BY <1>1, <2>2, TakenTalk
    <3>2. \A j \in Id : Handled(j) \in Nat BY HandledPart
    <3> QED BY <3>1, <3>2
  <2> QED BY <2>1, <2>2
<1>12. ~ Over /\ ~ Over' BY DEF Over
<1>13. \A j : Alive(j)' <=> Alive(j) BY DEF Alive
<1>14. ASSUME NEW j \in Id, j # i PROVE Request(j)'
  BY <1>4, <1>7, <1>8, <1>9, <1>11, <1>12, <1>13, <1>14, SameRequest DEF WebInv
<1>15. ASSUME NEW d \in Client PROVE HandlerAt(d)'
  <2>1. HandlerAt(d) /\ (pc[d] # "idle" => mine[d] \in Id) BY DEF WebInv, Owners
  <2>2. clients[d] # None => clients[d] \in Id BY DEF WebInv, WebTypes
  <2>3. (clients[d] # None =>
            \/ clients[d] = mine[d] \/ Handled(clients[d]) > 0
            \/ Busy(clients[d]) /\ mine[d] # 0 /\ answer[mine[d]] = None)'
    BY <1>8, <1>11, <2>1, <2>2 DEF HandlerAt
  <2>4. mine[d] \in Id => /\ gets[mine[d]] # None => gets'[mine[d]] # None
                          /\ answer[mine[d]] # None => answer'[mine[d]] = answer[mine[d]]
    BY <1>3, <1>4
  <2> QED BY <1>7, <2>1, <2>3, <2>4 DEF HandlerAt
<1>16. TaskAt' BY <1>1, <1>12 DEF TaskAt, aborted
<1>17. Letters'
  <2>1. \A j \in Id : Erased(j) => Erased(j)' BY <1>2, <1>4 DEF Erased
  <2>2. \A j \in Id : Announced(j)' <=> Announced(j) BY DEF Announced
  <2> QED BY <2>1, <2>2, SameLetters DEF WebInv
<1> QED BY <1>6, <1>10, <1>11, <1>14, <1>15, <1>16, <1>17 DEF WebInv

\* The first message sets the promise of the request, whose handler waits for it;
\* those after it count the chunks, of which there are never more than announced.
\* What the task cannot use comes of a clean, or is a failure that nobody waits for.
LEMMA WebSetPromise ==
    ASSUME WebInv, MapInv, SetPromise
    PROVE  WebInv'
<1>1. task = "set" /\ inbox # <<>> BY DEF SetPromise, WebInv, TaskAt
<1>2. PICK i, m : i = Now.id /\ m = Now.msg OBVIOUS
<1> DEFINE e == gets[i]
           h == Handled(i)
           s == said[i]
<1>3. /\ i \in Id /\ m \in Message /\ Sent(i)
      /\ h = 0 \/ h > 0
      /\ h = 0 => /\ e # None /\ e \in Entry /\ Untold(i) /\ s[1] = m
                  /\ m \in {K!Data, K!Fail} \/ K!IsPrepare(m)
      /\ h > 0 => /\ Told(i) /\ Announced(i) /\ answer[i] \in Message
                  /\ m \in {K!Chunk, K!Fail}
                  /\ e = None => CleanTold(i)
                  /\ e # None => /\ e \in Entry /\ e.cur = h - 1
                                 /\ e.chunks # None /\ e.chunks \in Nat
                                 /\ m = K!Chunk => e.cur < e.chunks
      /\ h \in Nat /\ s[h + 1] = m /\ s # <<>> /\ h + 1 <= Len(s)
  BY <1>1, <1>2, NowKnown, NowHeard
<1>4. UNCHANGED <<pc, mine, read, counter, gone, maps, tx, stopping, toKernel, asked, said,
                  cleaned>>
  BY DEF SetPromise, locks, kernel
<1>5. /\ Request(i) /\ ~ Busy(i) /\ ~ Over /\ answer[i] # Gone
      /\ gets \in [Id -> Entry \cup {None}] /\ answer \in [Id -> Message \cup {Gone, None}]
  BY <1>1, <1>3 DEF WebInv, WebTypes, Request, Busy, Over
<1>6. CASE Unusable(i, m)
  <2>1. Abort BY <1>2, <1>6 DEF SetPromise
  <2>2. h > 0 /\ (e = None \/ (m # K!Chunk /\ ~ Alive(i)))
    <3>1. h > 0
      <4> SUFFICES ASSUME h = 0 PROVE FALSE BY <1>3
      <4>1. e # None /\ e.chunks = None /\ Alive(i) BY <1>3, <1>5 DEF Untold
      <4> QED BY <1>6, <4>1 DEF Unusable, OfStream
    <3>2. ASSUME e # None, m = K!Chunk PROVE FALSE
      <4>1. h - 1 < e.chunks /\ h - 1 \in Int /\ e.chunks \in Nat /\ e.cur = h - 1
        BY <1>3, <3>1, <3>2
      <4> HIDE DEF h
      <4> QED BY <1>3, <1>6, <3>1, <3>2, <4>1 DEF Unusable, OfStream
    <3>3. ASSUME e # None, m # K!Chunk PROVE ~ Alive(i)
      <4>1. m = K!Fail BY <1>3, <3>1, <3>3
      <4> QED BY <1>6, <3>3, <4>1, MessageKinds DEF Unusable, OfStream
    <3> QED BY <3>1, <3>2, <3>3
  <2>3. Announced(Now.id) BY <1>2, <1>3, <2>2
  <2>4. ChunkAfterClean \/ FailureTooLate
    <3>1. CASE e = None
      <4>1. CleanSent(i) BY <1>3, <2>2, <3>1, CleanToldIs
      <4> QED BY <1>2, <1>3, <2>2, <4>1 DEF ChunkAfterClean, FailureTooLate
    <3>2. CASE m # K!Chunk /\ ~ Alive(i)
      <4>1. m = K!Fail BY <1>3, <2>2, <3>2
      <4> QED BY <1>2, <3>2, <4>1 DEF FailureTooLate
    <3> QED BY <2>2, <3>1, <3>2
  <2> QED BY <1>1, <1>4, <2>1, <2>3, <2>4, WebAbort
<1>7. CASE ~ Unusable(i, m)
  <2>0. e # None /\ e \in Entry BY <1>3, <1>7 DEF Unusable
  <2>1. /\ gets' = IF OfStream(m, e) THEN [gets EXCEPT ![i].cur = @ + 1]
                   ELSE IF K!IsPrepare(m) THEN [gets EXCEPT ![i].chunks = m.count]
                   ELSE gets
        /\ answer' = IF OfStream(m, e) \/ answer[i] # None THEN answer
                     ELSE [answer EXCEPT ![i] = m]
        /\ \/ DoneWith(m, e) /\ task' = "erase" /\ inbox' = inbox
           \/ ~ DoneWith(m, e) /\ task' = "wait" /\ inbox' = Tail(inbox)
        /\ clients' = clients
    BY <1>2, <1>7 DEF SetPromise, MaySet
  <2>2. DoneWith(m, e) <=> \/ m \in {K!Data, K!Chunk} /\ e.chunks = None
                           \/ m = K!Fail /\ answer[i] = None
    BY <1>2 DEF DoneWith, MaySet
  <2>3. ASSUME inbox' = Tail(inbox), task' = "wait"
        PROVE  Handled(i)' = h + 1 /\ ~ Busy(i)' /\ (Sent(i)' <=> Sent(i))
    <3>1. Handled(i)' = h + 1 BY <1>1, <1>2, <1>3, <1>4, <2>3, TakenTalk
    <3>2. Sent(i)' <=> Sent(i) BY <1>4, SameSent
    <3> QED BY <2>3, <3>1, <3>2 DEF Busy
  <2>4. UNCHANGED <<pc, mine, read, counter, clients, gone, maps, tx, stopping, toKernel,
                    asked, said, cleaned>>
    BY <1>4, <2>1
\* The first message.
  <2>5. CASE h = 0
    <3>1. e.chunks = None /\ e.cur = 0 /\ answer[i] = None /\ ~ OfStream(m, e)
      BY <1>3, <1>5, <2>0, <2>5 DEF Untold, OfStream
    <3>2. CASE K!IsPrepare(m)
      <4> DEFINE f == [e EXCEPT !.chunks = m.count]
      <4>1. m.count \in 0 .. MaxCount /\ m \notin {K!Data, K!Fail, K!Chunk}
        BY <1>3, <3>2, PrepareHasCount, MessageKinds
      <4>2. f \in Entry /\ f.client = e.client /\ f.chunks = m.count /\ f.cur = 0
        BY <2>0, <3>1, <4>1 DEF Entry
      <4>3. /\ gets' = [gets EXCEPT ![i] = f] /\ answer' = [answer EXCEPT ![i] = m]
            /\ task' = "wait" /\ inbox' = Tail(inbox)
        BY <1>3, <1>5, <2>1, <2>2, <3>1, <3>2, <4>1
      <4> HIDE DEF f
      <4>4. gets'[i] = f /\ answer'[i] = m /\ f # None
        BY <1>3, <1>5, <4>2, <4>3, NoneAssumption
      <4>5. Handled(i)' = 1 /\ ~ Busy(i)' /\ said'[i] = s /\ (Sent(i)' <=> Sent(i))
        BY <1>4, <2>3, <2>5, <4>3
      <4>6. Told(i)'
        BY <1>3, <2>5, <3>2, <4>1, <4>2, <4>4, <4>5 DEF Told
      <4>7. Request(i)'
        <5>1. m # Gone BY <1>3, MessageKinds
        <5>2. (Handled(i) = 0 => Untold(i))' /\ (Handled(i) > 0 => Told(i))'
              /\ (Sent(i) /\ Handled(i) = 0 => gets[i] # None)'
          BY <4>5, <4>6
        <5>3. (Sent(i) /\ gets[i] # None => gets[i].client \notin Listener)'
          BY <1>3, <1>5, <2>0, <4>2, <4>4, <4>5 DEF Request
        <5> QED BY <4>4, <5>1, <5>2, <5>3 DEF Request
      <4> QED BY <1>1, <1>2, <1>3, <2>0, <2>4, <3>1, <4>2, <4>3, <4>7, WebPromise
    <3>3. CASE m \in {K!Data, K!Fail}
      <4>1. ~ K!IsPrepare(m) BY <3>3, MessageKinds
      <4>2. /\ gets' = gets /\ answer' = [answer EXCEPT ![i] = m]
            /\ task' = "erase" /\ inbox' = inbox
        BY <2>1, <2>2, <3>1, <3>3, <4>1
      <4>3. gets' = [gets EXCEPT ![i] = e] BY <1>3, <1>5, <4>2
      <4>4. answer'[i] = m BY <1>3, <1>5, <4>2
      <4>5. Busy(i)' BY <1>2, <4>2 DEF Busy, Now
      <4>6. Handled(i)' = 0 /\ said'[i] = s BY <1>4, <2>5, <4>2, SamePending DEF Handled
      <4>7. Untold(i)'
        <5>1. gets'[i] = e /\ e.chunks = None /\ e.cur = 0 BY <3>1, <4>2
        <5>2. answer'[i] \in {K!Data, K!Fail} /\ said'[i] # <<>> /\ answer'[i] = said'[i][1]
          BY <1>3, <2>5, <3>3, <4>4, <4>6
        <5> HIDE DEF e, h, s
        <5> QED BY <4>5, <5>1, <5>2 DEF Untold
      <4>8. Request(i)'
        <5>1. m # Gone BY <1>3, MessageKinds
        <5>2. Sent(i)' <=> Sent(i) BY <1>4, SameSent
        <5> QED BY <1>3, <1>4, <1>5, <2>0, <4>2, <4>4, <4>6, <4>7, <5>1, <5>2 DEF Request
      <4> QED BY <1>1, <1>2, <1>3, <2>0, <2>4, <3>1, <4>2, <4>3, <4>8, WebPromise
    <3> QED BY <1>3, <2>5, <3>2, <3>3
\* A chunk, or a failure in the midst of the stream or at its end.
  <2>6. CASE h > 0
    <3>1. answer[i] = s[1] /\ answer[i] # None /\ ~ K!IsPrepare(m)
      BY <1>3, <2>6, MessageKinds DEF Told
    <3>2. answer' = answer /\ answer' = [answer EXCEPT ![i] = answer[i]]
      BY <1>3, <1>5, <2>1, <3>1
    <3>3. ~ DoneWith(m, e) BY <1>3, <2>0, <2>2, <2>6, <3>1
    <3>4. task' = "wait" /\ inbox' = Tail(inbox) BY <2>1, <3>3
    <3>5. Handled(i)' = h + 1 /\ ~ Busy(i)' /\ said'[i] = s /\ (Sent(i)' <=> Sent(i))
      BY <1>4, <2>3, <3>4
    <3>6. K!IsPrepare(s[1]) => e.chunks = s[1].count
      BY <1>3, <2>0, <2>6 DEF Told
    <3>7. s[1] \notin {K!Data, K!Fail} BY <1>3, <2>0, <2>6 DEF Told
    <3>8. ASSUME NEW f \in Entry, f.client = e.client, f.chunks = e.chunks,
                 gets' = [gets EXCEPT ![i] = f],
                 f.cur = IF m = K!Fail THEN h - 1 ELSE h
          PROVE  Request(i)'
      <4>1. gets'[i] = f /\ f # None BY <1>3, <1>5, <3>8, NoneAssumption
      <4>2. f.cur = IF m = K!Fail THEN (h + 1) - 2 ELSE (h + 1) - 1
        BY <1>3, <3>8
      <4>3. answer'[i] = s[1] BY <3>1, <3>2
      <4>4. Told(i)'
        <5> HIDE DEF e, h, s
        <5> QED BY <1>3, <3>5, <3>6, <3>7, <3>8, <4>1, <4>2, <4>3 DEF Told
      <4>5. Handled(i)' # 0 BY <1>3, <3>5
      <4>6. answer'[i] # Gone BY <1>5, <3>2
      <4> QED BY <1>3, <1>5, <2>0, <3>5, <3>8, <4>1, <4>4, <4>5, <4>6 DEF Request
    <3>9. CASE m = K!Chunk
      <4> DEFINE f == [e EXCEPT !.cur = @ + 1]
      <4>1. OfStream(m, e) /\ m # K!Fail BY <1>3, <2>0, <2>6, <3>9, MessageKinds DEF OfStream
      <4>2. f \in Entry /\ f.client = e.client /\ f.chunks = e.chunks /\ f.cur = h
        <5>1. e.cur = h - 1 /\ h \in Nat BY <1>3, <2>0, <2>6
        <5>2. f.cur = e.cur + 1 /\ f.chunks = e.chunks BY <2>0 DEF Entry
        <5> HIDE DEF e, h
        <5> QED BY <2>0, <5>1, <5>2, ChangedEntry
      <4>3. gets' = [gets EXCEPT ![i] = f] BY <2>1, <4>1
      <4> HIDE DEF f
      <4>4. Request(i)' BY <3>8, <4>1, <4>2, <4>3
      <4> QED BY <1>1, <1>2, <1>3, <2>0, <2>4, <2>6, <3>2, <3>4, <4>2, <4>3, <4>4, WebPromise
    <3>10. CASE m = K!Fail
      <4>1. ~ OfStream(m, e) BY <3>10, MessageKinds DEF OfStream
      <4>2. gets' = [gets EXCEPT ![i] = e] BY <1>3, <1>5, <2>1, <3>1, <4>1
      <4>3. Request(i)' BY <1>3, <2>0, <2>6, <3>8, <3>10, <4>2
      <4> QED BY <1>1, <1>2, <1>3, <2>0, <2>4, <2>6, <3>2, <3>4, <4>2, <4>3, WebPromise
    <3> QED BY <1>3, <2>6, <3>9, <3>10
  <2> QED BY <1>3, <2>5, <2>6
<1> QED BY <1>6, <1>7

\* clean_get_request: the entry is that of the request, and its client one that
\* has no other.
LEMMA WebEraseRequest ==
    ASSUME WebInv, MapInv, EraseRequest
    PROVE  WebInv'
<1>1. task = "erase" /\ maps = None /\ inbox # <<>> BY DEF EraseRequest, WebInv, TaskAt
<1>2. PICK i, m : i = Now.id /\ m = Now.msg OBVIOUS
<1>3. i \in Id /\ m \in Message /\ Sent(i) /\ Request(i) /\ Busy(i)
  BY <1>1, <1>2, NowKnown, NowHeard DEF WebInv, Busy
<1>4. Handled(i) = 0 /\ Untold(i) /\ said[i] # <<>> /\ gets[i] # None
      /\ answer[i] = said[i][1] /\ answer[i] \in {K!Data, K!Fail}
  <2>1. Handled(i) = 0 \/ Handled(i) > 0 BY <1>1, <1>2, NowKnown
  <2> QED BY <1>3, <2>1 DEF Request, Told, Untold
<1>5. PICK c \in Client : c = gets[i].client
  BY <1>3, <1>4 DEF WebInv, WebTypes, Entry
<1>6. /\ gets' = [gets EXCEPT ![i] = None] /\ clients' = [clients EXCEPT ![c] = None]
      /\ task' = "wait" /\ inbox' = Tail(inbox)
      /\ UNCHANGED <<pc, mine, read, counter, answer, gone, maps, tx, stopping, toKernel,
                     asked, said, cleaned>>
  BY <1>2, <1>4, <1>5 DEF EraseRequest, Erase, locks, kernel
<1>7. /\ \A j \in Id : gets'[j] = IF j = i THEN None ELSE gets[j]
      /\ \A d \in Client : clients'[d] = IF d = c THEN None ELSE clients[d]
  BY <1>3, <1>6 DEF WebInv, WebTypes
<1>8. inbox' \in Seq([id : Id, msg : Message]) BY <1>1, <1>6, InboxTypes
<1>9. WebTypes' BY <1>3, <1>6, <1>8 DEF WebInv, WebTypes
<1>10. \A j : (Sent(j)' <=> Sent(j)) /\ (CleanTold(j)' <=> CleanTold(j)) BY <1>6, SameSent
<1>11. (\A j : ~ Busy(j)') /\ (\A j : Busy(j) <=> j = i)
  BY <1>1, <1>2, <1>6 DEF Busy
<1>12. Owners' BY <1>6, <1>10 DEF WebInv, Owners
<1>13. /\ \A j \in Id : Talk(j)' /\ Handled(j)' = IF j = i THEN Handled(j) + 1 ELSE Handled(j)
       /\ \A j \in Id : j # i => Pending(j)' = Pending(j)
  BY <1>1, <1>2, <1>6, TakenTalk
<1>14. ~ Over /\ ~ Over' BY <1>1, <1>6 DEF Over
<1>15. \A j : Alive(j)' <=> Alive(j) BY <1>6 DEF Alive
<1>16. ASSUME NEW j \in Id PROVE Request(j)'
  <2>1. CASE j # i
    BY <1>1, <1>6, <1>7, <1>10, <1>11, <1>13, <1>14, <1>15, <2>1, SameRequest DEF WebInv
  <2>2. CASE j = i
    <3>1. Handled(i)' = 1 BY <1>3, <1>4, <1>13
    <3>2. gets'[i] = None BY <1>3, <1>7
    <3>3. ~ K!IsPrepare(said[i][1]) BY <1>4, MessageKinds
    <3>4. Told(i)' BY <1>4, <1>6, <1>11, <3>2, <3>3 DEF Told
    <3>5. answer[i] # Gone BY <1>4, MessageKinds
    <3>6. Handled(i)' # 0 BY <3>1
    <3>7. Request(i)' BY <1>3, <1>6, <3>2, <3>4, <3>5, <3>6 DEF Request
    <3> QED BY <2>2, <3>7
  <2> QED BY <2>1, <2>2
<1>17. ASSUME NEW d \in Client PROVE HandlerAt(d)'
  <2>1. HandlerAt(d) /\ (pc[d] # "idle" => mine[d] \in Id) BY DEF WebInv, Owners
  <2>2. c \notin Listener BY <1>3, <1>4, <1>5 DEF Request
  <2>3. d # c => clients'[d] = clients[d] BY <1>7
  <2>4. d = c => clients'[d] = None BY <1>7
  <2>5. pc[d] \in {"send", "chunks", "clean", "cleaning"} => mine[d] # i
    <3>1. pc[d] = "send" => mine[d] # i BY <1>3, <2>1 DEF HandlerAt
    <3>2. pc[d] \in {"chunks", "clean", "cleaning"} => mine[d] # i
      BY <1>4, <2>1, MessageKinds DEF HandlerAt
    <3> QED BY <3>1, <3>2
  <2>6. mine[d] \in Id /\ mine[d] # i => gets'[mine[d]] = gets[mine[d]] BY <1>7
  <2>7. pc[d] # "cleaning" BY <1>1, <2>1, NoneAssumption DEF HandlerAt
  <2>8. (clients[d] # None =>
            \/ clients[d] = mine[d] \/ Handled(clients[d]) > 0
            \/ Busy(clients[d]) /\ mine[d] # 0 /\ answer[mine[d]] = None)'
    <3>1. CASE d = c BY <2>4, <3>1
    <3>2. CASE d # c /\ clients[d] # None
      <4>1. PICK k \in Id : k = clients[d] /\ gets[k].client = d
        BY <3>2 DEF WebInv, WebTypes, MapInv, ClientsAgree
      <4>2. k # i BY <1>5, <3>2, <4>1
      <4>3. k = mine[d] \/ Handled(k) > 0 BY <1>11, <2>1, <3>2, <4>1, <4>2 DEF HandlerAt
      <4>4. Handled(k)' = Handled(k) BY <1>13, <4>2
      <4>5. clients'[d] = k /\ mine' = mine BY <1>6, <2>3, <3>2, <4>1
      <4> QED BY <4>3, <4>4, <4>5
    <3>3. CASE d # c /\ clients[d] = None BY <2>3, <3>3
    <3> QED BY <3>1, <3>2, <3>3
  <2>9. d \in Listener /\ pc[d] \in {"send", "listen", "leaving", "forget"} => clients'[d] = mine[d]
    BY <2>1, <2>2, <2>3 DEF HandlerAt
  <2> QED BY <1>6, <1>10, <2>1, <2>5, <2>6, <2>7, <2>8, <2>9 DEF HandlerAt
<1>18. TaskAt' BY <1>6, <1>14 DEF TaskAt, aborted
<1>19. Letters'
  <2>1. ASSUME NEW j \in Id, Erased(j) PROVE Erased(j)' BY <1>6, <1>7, <2>1 DEF Erased
  <2>2. \A j \in Id : Announced(j)' <=> Announced(j) BY <1>6 DEF Announced
  <2> QED BY <1>6, <2>1, <2>2, SameLetters DEF WebInv
<1> QED BY <1>9, <1>12, <1>13, <1>16, <1>17, <1>18, <1>19 DEF WebInv

\* set_exception_to_promises leaves a promise alone that is set, and finds the
\* handlers of those it sets.
LEMMA WebFinish ==
    ASSUME WebInv, MapInv, Finish \/ Join \/ Stop
    PROVE  WebInv'
<1>0. ASSUME NEW i \in Id, WaitsForAnswer(i) PROVE Handled(i) = 0
  <2>1. Handled(i) \in Nat BY HandledPart
  <2>2. ~ (Handled(i) > 0) BY <1>0, EntryTold DEF WaitsForAnswer
  <2> QED BY <2>1, <2>2
<1>1. Finish => task' = "join"
  <2> SUFFICES ASSUME Finish, NEW i \in Id, WaitsForAnswer(i) PROVE Alive(i)
    BY DEF Finish
  <2>1. task = "wait" /\ gets[i] # None BY DEF Finish, WaitsForAnswer
  <2>2. Request(i) /\ Handled(i) = 0 BY <1>0 DEF WebInv
  <2> QED BY <2>1, <2>2 DEF Request, Untold, Busy, Over
<1>2. /\ UNCHANGED <<pc, mine, read, counter, gets, clients, maps, tx, toKernel, inbox, asked,
                     said, cleaned>>
      /\ \/ UNCHANGED <<answer, gone>>
         \/ /\ task = "wait" /\ task' = "join" /\ gone' \subseteq Id
            /\ answer' = [i \in Id |-> IF WaitsForAnswer(i) /\ answer[i] = None THEN Gone
                                       ELSE answer[i]]
      /\ \/ task' = task /\ ~ aborted
         \/ task = "wait" /\ task' = "join" /\ stopping
         \/ task = "join" /\ task' = "done"
      /\ stopping => stopping'
      /\ stopping' \in BOOLEAN
  BY <1>1 DEF Finish, Join, Stop, books, promises, locks, kernel, WebInv, WebTypes
<1>3. \A i \in Id : \/ answer'[i] = answer[i]
                    \/ /\ answer[i] = None /\ answer'[i] = Gone /\ WaitsForAnswer(i)
                       /\ task = "wait" /\ task' = "join"
  BY <1>2
<1>4. WebTypes' BY <1>2 DEF WebInv, WebTypes
<1>5. \A j : /\ (Sent(j)' <=> Sent(j)) /\ (CleanTold(j)' <=> CleanTold(j))
             /\ (Busy(j)' <=> Busy(j)) /\ Pending(j)' = Pending(j) /\ Handled(j)' = Handled(j)
  <2>1. \A j : (Sent(j)' <=> Sent(j)) /\ (CleanTold(j)' <=> CleanTold(j)) BY <1>2, SameSent
  <2>2. \A j : Pending(j)' = Pending(j) BY <1>2, SamePending
  <2>3. \A j : Busy(j)' <=> Busy(j) BY <1>2 DEF Busy, Now
  <2> QED BY <1>2, <2>1, <2>2, <2>3 DEF Handled
<1>6. Owners'
  <2>1. \A i \in Id : i > counter => ~ (i <= counter)
    BY WebAssumption DEF Id, WebInv, WebTypes
  <2>2. \A i \in Id : i > counter => answer'[i] = answer[i]
    BY <1>3, <2>1 DEF MapInv, IdsFresh, WaitsForAnswer
  <2> QED BY <1>2, <1>5, <2>2 DEF WebInv, Owners
<1>7. Over => Over' BY <1>2 DEF Over
<1>8. \A j : Alive(j)' <=> Alive(j) BY <1>2 DEF Alive
<1>9. \A j \in Id : Talk(j)' BY <1>2, <1>5, SameTalk DEF WebInv
<1>10. ASSUME NEW j \in Id PROVE Request(j)'
  <2>1. CASE answer'[j] = answer[j]
    BY <1>2, <1>5, <1>7, <1>8, <2>1, SameRequest DEF WebInv
  <2>2. CASE answer[j] = None /\ answer'[j] = Gone /\ WaitsForAnswer(j) /\ task' = "join"
    <3>1. Request(j) /\ Handled(j) = 0 /\ Handled(j)' = 0 BY <1>0, <1>5, <2>2 DEF WebInv
    <3>2. Over' BY <2>2 DEF Over
    <3>3. Untold(j)
      BY <3>1 DEF Request
    <3>4. ~ Busy(j) BY <2>2, <3>3, MessageKinds DEF Untold
    <3>5. Untold(j)' BY <1>2, <1>5, <2>2, <3>2, <3>3, <3>4 DEF Untold
    <3> QED BY <1>2, <1>5, <3>1, <3>2, <3>5 DEF Request
  <2> QED BY <1>3, <2>1, <2>2
<1>11. ASSUME NEW d \in Client PROVE HandlerAt(d)'
  <2>1. HandlerAt(d) /\ (pc[d] # "idle" => mine[d] \in Id) /\ mine[d] \in Id \cup {0}
    BY DEF WebInv, Owners, WebTypes
  <2>2. ASSUME mine[d] \notin Id \/ answer'[mine[d]] = answer[mine[d]] PROVE HandlerAt(d)'
    BY <1>2, <1>5, <2>2, SameHandler
  <2>3. CASE mine[d] \in Id /\ answer'[mine[d]] # answer[mine[d]]
    <3>1. answer[mine[d]] = None /\ task = "wait"
      BY <1>2, <1>3, <2>3
    <3>2. \A j : ~ Busy(j) BY <3>1 DEF Busy
    <3>3. (clients[d] # None =>
              \/ clients[d] = mine[d] \/ Handled(clients[d]) > 0
              \/ Busy(clients[d]) /\ mine[d] # 0 /\ answer[mine[d]] = None)'
      BY <1>2, <1>5, <2>1, <3>2 DEF HandlerAt
    <3> QED BY <1>2, <1>5, <2>1, <3>1, <3>3 DEF HandlerAt
  <2> QED BY <2>2, <2>3
<1>12. TaskAt'
  <2>1. TaskAt BY DEF WebInv
  <2>2. CASE task' = task /\ ~ aborted BY <1>2, <2>1, <2>2 DEF TaskAt, Over, aborted
  <2>3. CASE task = "wait" /\ task' = "join" /\ stopping BY <1>2, <2>1, <2>3 DEF TaskAt, aborted
  <2>4. CASE task = "join" /\ task' = "done" BY <1>2, <2>1, <2>4 DEF TaskAt, Over, aborted
  <2> QED BY <1>2, <2>2, <2>3, <2>4
<1>13. Letters'
  <2>1. \A j : (Erased(j)' <=> Erased(j)) /\ (Announced(j)' <=> Announced(j))
    BY <1>2 DEF Erased, Announced
  <2> QED BY <1>2, <2>1, SameLetters DEF WebInv
<1> QED BY <1>4, <1>6, <1>9, <1>10, <1>11, <1>12, <1>13 DEF WebInv

-----------------------------------------------------------------------------
(* The kernel and the requests *)

\* The kernel takes a message from metax_tx: to clean a stream it is told once.
LEMMA WebKernelReceives ==
    ASSUME WebInv, MapInv, KernelReceives
    PROVE  WebInv'
<1> DEFINE T == [cmd : {"get", "clean", "cancel"}, id : Id]
           x == Head(toKernel)
           rest == Tail(toKernel)
<1>1. /\ toKernel # <<>> /\ toKernel' = rest /\ ~ aborted
      /\ asked' = IF x.cmd = "get" THEN asked \cup {x.id} ELSE asked
      /\ cleaned' = IF x.cmd = "clean" THEN Append(cleaned, x.id) ELSE cleaned
      /\ UNCHANGED <<pc, mine, read, counter, gets, clients, answer, gone, maps, tx, task,
                     stopping, inbox, said>>
  BY DEF KernelReceives, books, promises, locks
<1>2. /\ x \in T /\ rest \in Seq(T)
      /\ ElementsOf(toKernel) = ElementsOf(rest) \cup {x}
      /\ Once(toKernel) <=> Once(rest) /\ x \notin ElementsOf(rest)
  <2> toKernel \in Seq(T) BY DEF WebInv, WebTypes
  <2> HIDE DEF T
  <2> QED BY <1>1, TailElements
<1> HIDE DEF x, rest
<1>3. x.cmd \in {"get", "clean", "cancel"} /\ x.id \in Id /\ x = Post(x.cmd, x.id)
  BY <1>2 DEF Post
<1>4. Letters /\ Once(rest) /\ x \notin ElementsOf(rest) BY <1>2 DEF WebInv, Letters
<1>5. ElementsOf(toKernel)' = ElementsOf(rest) BY <1>1 DEF ElementsOf
<1>6. \A cmd, j : /\ Post(cmd, j)' = Post(cmd, j)
                  /\ Post(cmd, j) = x <=> cmd = x.cmd /\ j = x.id
  BY <1>3 DEF Post
<1>7. \A j : Sent(j)' <=> Sent(j)
  <2>1. \A j : Sent(j)' <=> j \in asked' \/ Post("get", j) \in ElementsOf(rest)
    BY <1>5, <1>6 DEF Sent
  <2>2. \A j : Sent(j) <=> j \in asked \/ Post("get", j) \in ElementsOf(rest) \/ Post("get", j) = x
    BY <1>2 DEF Sent
  <2> QED BY <1>1, <1>6, <2>1, <2>2
<1>8. \A j : /\ (Busy(j)' <=> Busy(j)) /\ Pending(j)' = Pending(j) /\ Handled(j)' = Handled(j)
             /\ (Alive(j)' <=> Alive(j))
  BY <1>1, SamePending DEF Handled, Alive
<1>9. /\ cleaned' \in Seq(Id)
      /\ ElementsOf(cleaned)' = ElementsOf(cleaned) \cup (IF x.cmd = "clean" THEN {x.id} ELSE {})
      /\ Once(cleaned') <=> Once(cleaned) /\ (x.cmd = "clean" => x.id \notin ElementsOf(cleaned))
  <2>1. cleaned \in Seq(Id) BY DEF WebInv, WebTypes
  <2>2. ElementsOf(cleaned)' = ElementsOf(cleaned') BY DEF ElementsOf
  <2>3. CASE x.cmd = "clean"
    <3>1. cleaned' = Append(cleaned, x.id) BY <1>1, <2>3
    <3>2. /\ Append(cleaned, x.id) \in Seq(Id)
          /\ ElementsOf(Append(cleaned, x.id)) = ElementsOf(cleaned) \cup {x.id}
          /\ Once(Append(cleaned, x.id)) <=> Once(cleaned) /\ x.id \notin ElementsOf(cleaned)
      BY <1>3, <2>1, AppendedElements
    <3> QED BY <2>2, <2>3, <3>1, <3>2
  <2>4. CASE x.cmd # "clean"
    <3>1. cleaned' = cleaned BY <1>1, <2>4
    <3> QED BY <2>1, <2>2, <2>4, <3>1
  <2> QED BY <2>3, <2>4
<1>10. asked \subseteq asked' /\ asked' \subseteq Id
  BY <1>1, <1>3 DEF WebInv, WebTypes
<1>11. WebTypes' BY <1>1, <1>2, <1>9, <1>10 DEF WebInv, WebTypes
<1>12. Owners' BY <1>1, <1>7 DEF WebInv, Owners
<1>13. \A j : CleanTold(j)' <=> CleanTold(j)
  <2>1. \A j : CleanTold(j)' <=> j \in ElementsOf(cleaned)' \/ Post("clean", j) \in ElementsOf(rest)
    BY <1>5, <1>6 DEF CleanTold
  <2>2. \A j : CleanTold(j) <=> j \in ElementsOf(cleaned) \/ Post("clean", j) \in ElementsOf(rest)
                                  \/ Post("clean", j) = x
    BY <1>2 DEF CleanTold
  <2> QED BY <1>6, <1>9, <2>1, <2>2
<1>14. TaskAt' /\ (Over' <=> Over) BY <1>1, SameTask DEF WebInv
<1>15. \A j \in Id : Talk(j)' /\ Request(j)'
  BY <1>1, <1>7, <1>8, <1>10, <1>13, <1>14, SameTalk, SameRequest DEF WebInv
<1>16. \A d \in Client : HandlerAt(d)' BY <1>1, <1>7, <1>8, SameHandler
<1>17. Letters'
  <2>1. \A j : (Erased(j)' <=> Erased(j)) /\ (Announced(j)' <=> Announced(j))
    BY <1>1 DEF Erased, Announced
  <2>2. Once(toKernel)' BY <1>1, <1>4 DEF Once
  <2>3. Once(cleaned)'
    <3>1. x.cmd = "clean" => x.id \notin ElementsOf(cleaned)
      BY <1>2, <1>3, <1>4, <1>6 DEF Letters
    <3>2. Once(cleaned') BY <1>4, <1>9, <3>1 DEF Letters
    <3> QED BY <3>2 DEF Once
  <2>4. ASSUME NEW j \in Id
        PROVE  /\ (Post("get", j) \in ElementsOf(toKernel) => j \notin asked)'
               /\ Post("cancel", j) \in ElementsOf(toKernel)' => Post("cancel", j) \in ElementsOf(toKernel)
               /\ (j \in ElementsOf(cleaned) => Post("clean", j) \notin ElementsOf(toKernel))'
    <3>1. /\ Post("get", j) \in ElementsOf(rest) => j \notin asked /\ Post("get", j) # x
          /\ Post("clean", j) \in ElementsOf(rest) => Post("clean", j) # x
      BY <1>2, <1>4 DEF Letters
    <3>2. Post("get", j) \in ElementsOf(rest) => j \notin asked'
      BY <1>1, <1>6, <3>1
    <3>3. j \in ElementsOf(cleaned) => Post("clean", j) \notin ElementsOf(rest)
      BY <1>2, <1>4 DEF Letters
    <3>4. j \in ElementsOf(cleaned)' => Post("clean", j) \notin ElementsOf(rest)
      BY <1>6, <1>9, <3>1, <3>3
    <3> QED BY <1>2, <1>5, <1>6, <3>2, <3>4
  <2>5. ASSUME NEW j \in Id, Post("cancel", j) \in ElementsOf(toKernel)'
        PROVE  (Erased(j) \/ \E c \in Client : mine[c] = j /\ pc[c] = "forget")'
    <3>1. Erased(j) \/ \E c \in Client : mine[c] = j /\ pc[c] = "forget"
      BY <1>4, <2>4, <2>5 DEF Letters
    <3> QED BY <1>1, <2>1, <3>1
  <2>6. \A j \in Id : Post("cancel", j)' = Post("cancel", j) BY <1>6
  <2>7. \A j \in Id : (CleanTold(j) => Erased(j) /\ Announced(j))'
    BY <1>4, <1>13, <2>1 DEF Letters
  <2> QED BY <2>2, <2>3, <2>4, <2>5, <2>6, <2>7 DEF Letters
<1> QED BY <1>11, <1>12, <1>14, <1>15, <1>16, <1>17 DEF WebInv

\* What a legal conversation looks like.
LEMMA LegalTalk ==
    ASSUME NEW r, K!Legal(r), r \notin {<<>>, <<K!Data>>, <<K!Fail>>}
    PROVE  /\ r # <<>> /\ K!IsPrepare(r[1])
           /\ \A n \in 2 .. Len(r) : \/ r[n] = K!Chunk /\ n <= r[1].count + 1
                                     \/ r[n] = K!Fail /\ n = Len(r)
BY Zenon DEF K!Legal, K!Stream

\* A message of the kernel is one more of the conversation.
LEMMA WebKernelSays ==
    ASSUME WebInv, MapInv, NEW id \in Id, NEW m \in Message, KernelSays(id, m)
    PROVE  WebInv'
<1>0. PICK s, r, x : s = said[id] /\ r = Append(s, m) /\ x = [id |-> id, msg |-> m]
  OBVIOUS
<1>1. /\ id \in asked /\ ~ aborted
      /\ said' = [said EXCEPT ![id] = r] /\ K!Legal(said'[id])
      /\ inbox' = Append(inbox, x)
      /\ UNCHANGED <<pc, mine, read, counter, gets, clients, answer, gone, maps, tx, task,
                     stopping, toKernel, asked, cleaned>>
  BY <1>0 DEF KernelSays, books, promises, locks
<1>2. /\ s \in Seq(Message) /\ r \in Seq(Message) /\ Len(r) = Len(s) + 1 /\ r[Len(r)] = m
      /\ Len(s) \in Nat /\ \A n \in 1 .. Len(s) : r[n] = s[n]
  BY <1>0 DEF WebInv, WebTypes
<1>3. /\ said'[id] = r /\ K!Legal(r)
      /\ \A j \in Id : j # id => said'[j] = said[j]
  BY <1>1 DEF WebInv, WebTypes
<1>4. /\ Talk(id) /\ Request(id) /\ Sent(id)
      /\ Handled(id) \in Nat /\ Handled(id) <= Len(s)
      /\ Pending(id) \in Seq([id : Id, msg : Message])
  BY <1>0, <1>1, HandledPart DEF WebInv, Sent
<1>5. /\ r \in {<<>>, <<K!Data>>, <<K!Fail>>} \/
             /\ r # <<>> /\ K!IsPrepare(r[1])
             /\ \A n \in 2 .. Len(r) : \/ r[n] = K!Chunk /\ n <= r[1].count + 1
                                       \/ r[n] = K!Fail /\ n = Len(r)
      /\ r # <<>> /\ (s # <<>> => r[1] = s[1])
  <2>1. r # <<>> /\ (s # <<>> => r[1] = s[1]) BY <1>2
  <2> QED BY <1>3, <2>1, LegalTalk
<1>6. \A j \in Id : Pending(j)' = IF j = id THEN Append(Pending(j), x) ELSE Pending(j)
  BY <1>0, <1>1, PendingSaid DEF WebInv
<1>7. Talk(id)' /\ Handled(id)' = Handled(id)
  <2> DEFINE p == Pending(id)
             q == Append(p, x)
  <2>1. p \in Seq([id : Id, msg : Message]) /\ x \in [id : Id, msg : Message]
    BY <1>0, <1>4
  <2>2. /\ Len(p) \in Nat /\ Len(q) = Len(p) + 1 /\ q[Len(p) + 1] = x
        /\ \A n \in 1 .. Len(p) : q[n] = p[n]
    BY <2>1
  <2>3. Pending(id)' = q BY <1>6
  <2>4. Handled(id) = Len(s) - Len(p) /\ Handled(id)' = Len(r) - Len(q)
    BY <1>0, <1>3, <2>3 DEF Handled
  <2>5. \A n \in 1 .. Len(p) : p[n].msg = s[Handled(id) + n] BY <1>0, <1>4 DEF Talk
  <2>6. x.msg = m BY <1>0
  <2> HIDE DEF p, q
  <2>7. Handled(id)' = Handled(id) /\ Len(q) <= Len(r)
    BY <1>2, <1>4, <2>2, <2>4
  <2>8. ASSUME NEW n \in 1 .. Len(q) PROVE q[n].msg = r[Handled(id) + n]
    <3>1. CASE n \in 1 .. Len(p)
      <4>1. Handled(id) + n \in 1 .. Len(s) BY <1>2, <1>4, <2>2, <2>4, <3>1
      <4> QED BY <1>2, <2>2, <2>5, <3>1, <4>1
    <3>2. CASE n = Len(p) + 1
      <4>1. Handled(id) + n = Len(r) BY <1>2, <1>4, <2>2, <2>4, <3>2
      <4> QED BY <1>2, <2>2, <2>6, <3>2, <4>1
    <3> QED BY <2>2, <3>1, <3>2
  <2> QED BY <1>1, <1>3, <1>5, <2>3, <2>7, <2>8 DEF Talk
<1>8. WebTypes'
  <2>1. inbox' \in Seq([id : Id, msg : Message])
    BY <1>0, <1>1 DEF WebInv, WebTypes
  <2> QED BY <1>1, <1>2, <2>1 DEF WebInv, WebTypes
<1>9. \A j : (Sent(j)' <=> Sent(j)) /\ (CleanTold(j)' <=> CleanTold(j)) BY <1>1, SameSent
<1>10. inbox' # <<>> /\ (inbox # <<>> => Now' = Now)
  <2> inbox \in Seq([id : Id, msg : Message]) /\ x \in [id : Id, msg : Message]
    BY <1>0 DEF WebInv, WebTypes
  <2> QED BY <1>1 DEF Now
<1>11. \A j : (Busy(j)' <=> Busy(j)) /\ (Alive(j)' <=> Alive(j)) /\ (Over' <=> Over)
  BY <1>1, <1>10 DEF Busy, WebInv, TaskAt, Alive, Over
<1>12. Owners' BY <1>1, <1>9 DEF WebInv, Owners
<1>13. \A j \in Id : Talk(j)' /\ Handled(j)' = Handled(j)
  <2>1. \A j \in Id : j # id => Talk(j)' /\ Handled(j)' = Handled(j)
    BY <1>1, <1>3, <1>6, SameTalk DEF WebInv
  <2> QED BY <1>7, <2>1
<1>14. ASSUME NEW j \in Id PROVE Request(j)'
  <2>1. CASE j # id
    BY <1>1, <1>3, <1>6, <1>9, <1>11, <2>1, SameRequest DEF WebInv
  <2>2. CASE j = id
    <3>1. Handled(id) > 0 => r[Handled(id)] = s[Handled(id)] /\ s # <<>> BY <1>2, <1>4
    <3>2. Untold(id) => Untold(id)'
      BY <1>0, <1>1, <1>3, <1>5, <1>11 DEF Untold
    <3>3. Handled(id) > 0 /\ Told(id) => Told(id)'
      <4>1. Handled(id) > 0 => said'[id][1] = said[id][1]
                               /\ said'[id][Handled(id)] = said[id][Handled(id)]
        BY <1>0, <1>3, <1>5, <3>1
      <4> QED BY <1>1, <1>7, <1>9, <1>11, <4>1 DEF Told
    <3>4. Request(id)'
      BY <1>1, <1>4, <1>7, <1>9, <1>11, <3>2, <3>3 DEF Request
    <3> QED BY <2>2, <3>4
  <2> QED BY <2>1, <2>2
<1>15. ASSUME NEW d \in Client PROVE HandlerAt(d)'
  <2>1. clients[d] # None => clients[d] \in Id BY DEF WebInv, WebTypes
  <2> QED BY <1>1, <1>9, <1>11, <1>13, <2>1, SameHandler
<1>16. TaskAt' BY <1>1, <1>10, <1>11 DEF WebInv, TaskAt, aborted
<1>17. Letters'
  <2>1. \A j : Erased(j)' <=> Erased(j) BY <1>1 DEF Erased
  <2>2. \A j \in Id : Announced(j) => Announced(j)' BY <1>0, <1>3, <1>5 DEF Announced
  <2> QED BY <1>1, <2>1, <2>2, SameLetters DEF WebInv
<1> QED BY <1>8, <1>12, <1>13, <1>14, <1>15, <1>16, <1>17 DEF WebInv

-----------------------------------------------------------------------------

\* At the start there is nothing to tell.
LEMMA InitWeb == Init => WebInv
<1> SUFFICES ASSUME Init PROVE WebInv
  OBVIOUS
<1>1. /\ pc = [c \in Client |-> "idle"] /\ mine = [c \in Client |-> 0] /\ counter = 0
      /\ read = [c \in Client |-> 0]
      /\ gets = [i \in Id |-> None] /\ clients = [c \in Client |-> None]
      /\ answer = [i \in Id |-> None] /\ gone = {} /\ maps = None /\ tx = None
      /\ task = "wait" /\ stopping = FALSE /\ toKernel = <<>> /\ inbox = <<>>
      /\ asked = {} /\ said = [i \in Id |-> <<>>] /\ cleaned = <<>>
  BY DEF Init, K!Init
<1>2. WebTypes
  <2>1. /\ pc \in [Client -> {"idle", "insert", "send", "answer", "chunks", "clean",
                            "cleaning", "listen", "leaving", "forget"}]
        /\ mine \in [Client -> Id \cup {0}] /\ counter \in 0 .. MaxRequests
        /\ read \in [Client -> 0 .. MaxCount]
    BY <1>1, WebAssumption
  <2>2. /\ gets \in [Id -> Entry \cup {None}]
        /\ clients \in [Client -> Id \cup {None}]
        /\ answer \in [Id -> Message \cup {Gone, None}]
    BY <1>1
  <2>3. said \in [Id -> Seq(Message)] /\ cleaned \in Seq(Id)
    BY <1>1
  <2>4. /\ gone \subseteq Id /\ asked \subseteq Id
        /\ maps \in Client \cup {None} /\ tx \in Client \cup {None}
        /\ task \in {"wait", "set", "erase", "join", "done", "aborted"} /\ stopping \in BOOLEAN
    BY <1>1
  <2>5. /\ toKernel \in Seq([cmd : {"get", "clean", "cancel"}, id : Id])
        /\ inbox \in Seq([id : Id, msg : Message])
    BY <1>1
  <2> HIDE <1>1
  <2> QED BY <2>1, <2>2, <2>3, <2>4, <2>5 DEF WebTypes
<1>3. \A i : ~ Sent(i) /\ ~ CleanTold(i) BY <1>1, NoElements DEF Sent, CleanTold
<1>4. Owners
  <2>1. \A c \in Client : mine[c] <= counter BY <1>1
  <2> QED BY <1>1, <1>3, <2>1 DEF Owners
<1>5. \A i \in Id : Pending(i) = <<>> BY <1>1, KeptNone DEF Pending
<1>6. \A i \in Id : Handled(i) = 0 BY <1>1, <1>5 DEF Handled
<1>7. \A i \in Id : Talk(i)
  <2>1. Len(<<>>) = 0 OBVIOUS
  <2> QED BY <1>1, <1>5, <2>1 DEF Talk
<1>8. \A i \in Id : Request(i)
  BY <1>1, <1>3, <1>6, MessageKinds DEF Request, Untold, Busy
<1>9. \A c \in Client : HandlerAt(c)
  BY <1>1 DEF HandlerAt
<1>10. TaskAt BY <1>1 DEF TaskAt, Over, aborted
<1>11. Letters BY <1>1, <1>3, NoElements DEF Letters
<1> QED BY <1>2, <1>4, <1>7, <1>8, <1>9, <1>10, <1>11 DEF WebInv

\* Every step keeps it.
LEMMA WebNext == WebInv /\ MapInv /\ [Next]_vars => WebInv'
<1> SUFFICES ASSUME WebInv, MapInv, [Next]_vars PROVE WebInv'
  OBVIOUS
<1>1. ASSUME NEW c \in Client, Handler(c) PROVE WebInv'
  BY <1>1, WebInsert, WebSendGet, WebForget, WebGetAnswer, WebStream, WebStartClean, WebClean,
     WebLeave, WebListen DEF Handler
<1>2. ASSUME NEW c \in Client, Arrive(c) \/ StartLeave(c) PROVE WebInv'
  BY <1>2, WebArrive, WebListen
<1>3. CASE Task
  BY <1>3, WebLookUp, WebSetPromise, WebEraseRequest, WebFinish DEF Task
<1>4. CASE KernelReceives \/ KernelAnswers \/ Stop \/ \E id \in Id : KernelSays(id, K!Fail)
  <2>1. K!Fail \in Message BY MessageKinds
  <2> QED BY <1>4, <2>1, WebKernelReceives, WebKernelSays, WebFinish DEF KernelAnswers
<1>5. CASE UNCHANGED vars
  <2>1. UNCHANGED <<pc, mine, read, counter, gets, clients, answer, gone, maps, tx, task,
                    stopping, toKernel, inbox, asked, said, cleaned>>
    BY <1>5 DEF vars, books, promises, locks, kernel
  <2>2. \A j : /\ (Sent(j)' <=> Sent(j)) /\ (CleanTold(j)' <=> CleanTold(j))
               /\ (Busy(j)' <=> Busy(j)) /\ Pending(j)' = Pending(j) /\ Handled(j)' = Handled(j)
    BY <2>1, SameSent, SamePending DEF Handled
  <2>3. WebTypes' /\ Owners' BY <2>1, <2>2 DEF WebInv, WebTypes, Owners
  <2>4. \A j : (Alive(j)' <=> Alive(j)) /\ (Over' <=> Over) BY <2>1 DEF Alive, Over
  <2>5. \A j \in Id : Talk(j)' /\ Request(j)'
    BY <2>1, <2>2, <2>4, SameTalk, SameRequest DEF WebInv
  <2>6. \A d \in Client : HandlerAt(d)' BY <2>1, <2>2, SameHandler
  <2>7. TaskAt'
    <3>1. Now' = Now BY <2>1 DEF Now
    <3>2. (Announced(Now.id)' <=> Announced(Now.id)) /\ (CleanSent(Now.id)' <=> CleanSent(Now.id))
      BY <2>1, <3>1 DEF Announced, CleanSent, Closed
    <3>3. Alive(Now.id)' <=> Alive(Now.id) BY <2>1, <3>1 DEF Alive
    <3> QED BY <2>1, <2>4, <3>1, <3>2, <3>3
            DEF WebInv, TaskAt, aborted, ChunkAfterClean, FailureTooLate
  <2>8. Letters'
    <3>1. \A j : (Erased(j)' <=> Erased(j)) /\ (Announced(j)' <=> Announced(j))
      BY <2>1 DEF Erased, Announced
    <3> QED BY <2>1, <3>1, SameLetters DEF WebInv
  <2> QED BY <2>3, <2>5, <2>6, <2>7, <2>8 DEF WebInv
<1> QED
  BY <1>1, <1>2, <1>3, <1>4, <1>5 DEF Next, Work

\* web_api_adapter's task (web_api_adapter.cpp:1560-1950): whatever the kernel says
\* when, no assertion of it fails and nothing that is gone is used, but for a chunk
\* of a stream that was cleaned before its end, and a failure of an announced stream
\* that comes when the stream is cleaned or its handler has gone.
THEOREM WebNoAbort == Spec => []NoAbort
<1>1. Init => WebInv /\ MapInv
  BY InitWeb, InitMap
<1>2. WebInv /\ MapInv /\ [Next]_vars => (WebInv /\ MapInv)'
  BY WebNext, NextKeeps
<1>3. WebInv => NoAbort
  BY DEF WebInv, WebTypes, TaskAt, NoAbort, TypeOK, aborted
<1> QED
  BY <1>1, <1>2, <1>3, PTL DEF Spec

\* clean_streaming_request (web_api_adapter.cpp): the kernel is told to clean a
\* stream only once, after it has announced it, and never one whose handler still
\* waits for it, whichever handler finds it under its address.
THEOREM WebCleansOnce == Spec => []CleansOnce
<1>1. Init => WebInv /\ MapInv
  BY InitWeb, InitMap
<1>2. WebInv /\ MapInv /\ [Next]_vars => (WebInv /\ MapInv)'
  BY WebNext, NextKeeps
<1>3. WebInv => CleansOnce
  <2> SUFFICES ASSUME WebInv PROVE CleansOnce
    OBVIOUS
  <2>1. Once(cleaned) BY DEF WebInv, Letters
  <2>2. \A k \in DOMAIN cleaned : cleaned[k] \in Id /\ Erased(cleaned[k]) /\ Announced(cleaned[k])
    BY DEF WebInv, WebTypes, Letters, CleanTold, ElementsOf
  <2>3. \A k \in DOMAIN cleaned, c \in Client :
           mine[c] = cleaned[k] => pc[c] \notin {"answer", "chunks"}
    BY <2>2 DEF Erased, Early
  <2> QED BY <2>1, <2>2, <2>3 DEF CleansOnce, Once
<1> QED
  BY <1>1, <1>2, <1>3, PTL DEF Spec
=============================================================================
