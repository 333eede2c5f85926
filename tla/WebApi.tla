------------------------------- MODULE WebApi -------------------------------
(***************************************************************************)
(* The Web API (src/src/metax_web_api/web_api_adapter.cpp,                 *)
(* db_request_handler.cpp): HTTP threads ask the kernel for objects through *)
(* the maps of web_api_adapter and wait for promises; its task sets them    *)
(* when the kernel answers.                                                *)
(*                                                                         *)
(* Threads and task share m_get_requests, m_client_to_request and the       *)
(* output metax_tx, each under a mutex.  A step is what happens under one   *)
(* lock, or between two.  m_get_requests_mutex is always taken before       *)
(* m_client_to_request_mutex, and nobody waits with the second one alone:   *)
(* they are one lock here, "maps".                                         *)
(*                                                                         *)
(* A client id is the address of the handler object: a new handler may have *)
(* that of one that is gone, and then gets, and cleans, the stream that one *)
(* left behind.  A request holds a raw pointer to the promise of its        *)
(* handler.  The kernel is the one of GetService; what a livestream sends   *)
(* is left out, a listener only comes and goes.                             *)
(***************************************************************************)
EXTENDS Naturals, Sequences, FiniteSets, FiniteSetsExt

CONSTANTS
    Client,       \* the addresses of handler objects
    Listener,     \* the clients that listen to a livestream
    MaxRequests,  \* bound on m_counter
    MaxCount,     \* bound on the chunks of a stream
    None          \* no entry in a map, a free lock

ASSUME WebAssumption ==
    /\ IsFiniteSet(Client) /\ Listener \subseteq Client
    /\ MaxRequests \in Nat /\ MaxCount \in Nat

VARIABLES
    pc,        \* pc[c]: where the handler at this address is
    mine,      \* mine[c]: the id of its request
    read,      \* read[c]: the chunks of its stream that it has sent on
    counter,   \* m_counter
    gets,      \* gets[id]: the entry of m_get_requests, or None
    clients,   \* clients[c]: the entry of m_client_to_request, or None
    answer,    \* answer[id]: what the promise of the handler holds, or None
    gone,      \* the ids whose next chunk's promise holds an exception
    maps, tx,  \* who holds the mutexes
    task,      \* where the task of web_api_adapter is
    stopping,  \* the application stops
    toKernel,  \* metax_tx
    inbox,     \* metax_rx
    asked,     \* the requests the kernel has received
    said,      \* said[id]: what the kernel has said of it
    cleaned    \* clean_stream_request messages the kernel has received

locks == <<maps, tx>>
books == <<gets, clients>>
promises == <<answer, gone>>
kernel == <<asked, said, cleaned>>
vars == <<pc, mine, read, counter, books, promises, locks, task, stopping, toKernel, inbox,
          kernel>>

Id == 1 .. MaxRequests

\* The streams that the kernel has cleaned
Closed == {cleaned[k] : k \in DOMAIN cleaned}

K == INSTANCE GetService WITH Get <- Id, closed <- Closed
Message == {K!Data, K!Fail, K!Chunk} \cup {K!Prepare(n) : n \in 0 .. MaxCount}
Gone == [cmd |-> "gone"]

\* request_info: m_stream_promises is None or their number.
Entry == [client : Client, chunks : (0 .. MaxCount) \cup {None}, cur : Nat]

\* No entry, no lock: None is none of the values that stand for something.
ASSUME NoneAssumption ==
    /\ None \notin Entry /\ None \notin Id /\ None \notin 0 .. MaxCount
    /\ None \notin Client /\ None \notin Message \cup {Gone}

Init ==
    /\ pc = [c \in Client |-> "idle"] /\ mine = [c \in Client |-> 0]
    /\ read = [c \in Client |-> 0] /\ counter = 0
    /\ gets = [i \in Id |-> None] /\ clients = [c \in Client |-> None]
    /\ answer = [i \in Id |-> None] /\ gone = {}
    /\ maps = None /\ tx = None
    /\ task = "wait" /\ stopping = FALSE
    /\ toKernel = <<>> /\ inbox = <<>>
    /\ asked = {} /\ cleaned = <<>> /\ K!Init

\* A poco_assert of the task has failed, or it has used an entry or a promise that
\* is gone: the process has ended.
aborted == task = "aborted"

\* A step of the handler at c: from one place to another.
Goes(c, from, to) == ~ aborted /\ pc[c] = from /\ pc' = [pc EXCEPT ![c] = to]

Send(cmd, id) == toKernel' = Append(toKernel, [cmd |-> cmd, id |-> id])

\* There is a handler for the request, whose promise it points to.
Alive(id) == \E c \in Client : mine[c] = id /\ pc[c] # "idle"

-----------------------------------------------------------------------------
(* The handlers *)

\* A request arrives and gets its id (generate_request_id).
Arrive(c) ==
    /\ ~ stopping /\ counter < MaxRequests
    /\ Goes(c, "idle", "insert")
    /\ counter' = counter + 1
    /\ mine' = [mine EXCEPT ![c] = counter']
    /\ UNCHANGED <<read, books, promises, locks, task, stopping, toKernel, inbox, kernel>>

\* generate_get_request_info; insert leaves an entry that is there already.
Insert(c) ==
    /\ Goes(c, "insert", "send")
    /\ maps = None
    /\ gets' = [gets EXCEPT ![mine[c]] = [client |-> c, chunks |-> None, cur |-> 0]]
    /\ clients' = [clients EXCEPT ![c] = IF @ = None THEN mine[c] ELSE @]
    /\ UNCHANGED <<mine, read, counter, promises, locks, task, stopping, toKernel, inbox,
                   kernel>>

\* Mutant: the client keeps its entry.
EraseGet(id, c) == gets' = [gets EXCEPT ![id] = None] /\ UNCHANGED clients

Erase(id, c) ==
    /\ gets' = [gets EXCEPT ![id] = None]
    /\ clients' = [clients EXCEPT ![c] = None]

\* handle_get_request
SendGet(c) ==
    /\ Goes(c, "send", IF c \in Listener THEN "listen" ELSE "answer")
    /\ tx = None
    /\ IF c \in Listener THEN UNCHANGED toKernel ELSE Send("get", mine[c])
    /\ UNCHANGED <<mine, read, counter, books, promises, locks, task, stopping, inbox,
                   kernel>>

\* What the client sent is no UUID: clean_get_request, and the exception goes on.
SendFails(c) ==
    /\ Goes(c, "send", "idle")
    /\ tx = None /\ maps = None
    /\ Erase(mine[c], c)
    /\ UNCHANGED <<mine, read, counter, promises, locks, task, stopping, toKernel, inbox,
                   kernel>>

\* wait_for_response: of a stream the chunks are still to come, unless the
\* headers throw.
GetAnswer(c) ==
    /\ pc[c] = "answer" /\ answer[mine[c]] # None
    /\ \/ Goes(c, "answer", "chunks") /\ K!IsPrepare(answer[mine[c]])
       \/ Goes(c, "answer", "idle")
    /\ UNCHANGED <<mine, read, counter, books, promises, locks, task, stopping, toKernel,
                   inbox, kernel>>

\* The handler leaves the loop of start_media_streaming.
Quits(c, to) == Goes(c, "chunks", to) /\ read' = [read EXCEPT ![c] = 0]

\* The next chunk has come: its file is sent, or is missing, which ends the
\* loop, or an exception does.
ReadChunk(c) ==
    /\ pc[c] = "chunks" /\ gets[mine[c]] # None /\ read[c] < gets[mine[c]].cur
    /\ \/ Goes(c, "chunks", "chunks") /\ read' = [read EXCEPT ![c] = @ + 1]
       \/ Quits(c, "clean")
       \/ Quits(c, "idle")
    /\ UNCHANGED <<mine, counter, books, promises, locks, task, stopping, toKernel, inbox,
                   kernel>>

\* There is no other chunk, or its promise holds an exception.
EndStream(c) ==
    /\ pc[c] = "chunks" /\ gets[mine[c]] # None
    /\ \/ Quits(c, "clean") /\ read[c] = gets[mine[c]].chunks
       \/ Quits(c, "idle") /\ read[c] = gets[mine[c]].cur /\ mine[c] \in gone
    /\ UNCHANGED <<mine, counter, books, promises, locks, task, stopping, toKernel, inbox,
                   kernel>>

\* Does m_client_to_request lead to a request?
Known(c) == clients[c] # None /\ gets[clients[c]] # None

\* clean_streaming_request takes the mutexes of the maps and then the one of
\* metax_tx.  Its assertions throw in the handler, which ignores that.
StartClean(c) ==
    /\ maps = None
    /\ \/ ~ Known(c) /\ Goes(c, "clean", "idle") /\ UNCHANGED maps
       \/ Known(c) /\ Goes(c, "clean", "cleaning") /\ maps' = c
    /\ UNCHANGED <<mine, read, counter, books, promises, tx, task, stopping, toKernel,
                   inbox, kernel>>

\* Mutant: the request is not erased.
CleanOnly(c) ==
    /\ Goes(c, "cleaning", "idle")
    /\ tx = None
    /\ Send("clean", clients[c])
    /\ maps' = None
    /\ UNCHANGED <<mine, read, counter, books, promises, tx, task, stopping, inbox, kernel>>

Clean(c) ==
    /\ Goes(c, "cleaning", "idle")
    /\ tx = None
    /\ Send("clean", clients[c])
    /\ Erase(clients[c], c)
    /\ maps' = None
    /\ UNCHANGED <<mine, read, counter, promises, tx, task, stopping, inbox, kernel>>

\* The client of a livestream is gone: cancel_livestream_get takes the mutex
\* of metax_tx and then, for its look-up, those of the maps.  Its assertions
\* are ignored like those of clean_streaming_request.
StartLeave(c) ==
    /\ Goes(c, "listen", "leaving")
    /\ tx = None /\ tx' = c
    /\ UNCHANGED <<mine, read, counter, books, promises, maps, task, stopping, toKernel,
                   inbox, kernel>>

Leave(c) ==
    /\ Goes(c, "leaving", IF Known(c) THEN "forget" ELSE "idle")
    /\ maps = None
    /\ IF Known(c) THEN UNCHANGED tx /\ Send("cancel", clients[c])
       ELSE tx' = None /\ UNCHANGED toKernel
    /\ UNCHANGED <<mine, read, counter, books, promises, maps, task, stopping, inbox, kernel>>

\* clean_get_request at the end of cancel_livestream_get
Forget(c) ==
    /\ Goes(c, "forget", "idle")
    /\ maps = None
    /\ tx' = None
    /\ IF Known(c) THEN Erase(clients[c], c) ELSE UNCHANGED books
    /\ UNCHANGED <<mine, read, counter, promises, maps, task, stopping, toKernel, inbox,
                   kernel>>

\* The livestream ends with the exception the task sets when it stops.
LivestreamEnds(c) ==
    /\ Goes(c, "listen", "idle") /\ answer[mine[c]] # None
    /\ UNCHANGED <<mine, read, counter, books, promises, locks, task, stopping, toKernel,
                   inbox, kernel>>

-----------------------------------------------------------------------------
(* The task of web_api_adapter *)

Now == Head(inbox)

\* An assertion that fails in the task aborts the process, in the middle of
\* its message; so does, at best, the use of what is gone.
Abort == task' = "aborted" /\ UNCHANGED <<gets, clients, answer, inbox>>

\* The handlers of metax_rx look their request up, and use it without the
\* lock.  Only send_get_response asserts that it is there.
LookUp ==
    /\ task = "wait" /\ inbox # <<>> /\ maps = None
    /\ IF gets[Now.id] = None /\ Now.msg \in {K!Data, K!Chunk} THEN Abort
       ELSE /\ IF gets[Now.id] # None THEN task' = "set" /\ UNCHANGED inbox
               ELSE inbox' = Tail(inbox) /\ UNCHANGED task
            /\ UNCHANGED <<books, answer>>
    /\ UNCHANGED <<pc, mine, read, counter, gone, locks, stopping, toKernel, kernel>>

\* set_value throws when the promise is set already: the handler is left, and
\* the request not cleaned.
MaySet(id) == answer[id] = None

\* Mutant: a stream is cleaned like a file.
DoneWithMore(m, e) == TRUE

\* Is the request erased after this message?
DoneWith(m, e) ==
    \/ m \in {K!Data, K!Chunk} /\ e.chunks = None
    \/ m = K!Fail /\ MaySet(Now.id)

\* Is the message a chunk of a stream?
OfStream(m, e) == e.chunks # None /\ m \in {K!Data, K!Chunk}

\* The request has been erased since the look-up, a chunk is one too many
\* (poco_assert), or the promise has gone with its handler.
Unusable(id, m) ==
    \/ gets[id] = None
    \/ IF OfStream(m, gets[id]) THEN gets[id].cur >= gets[id].chunks ELSE ~ Alive(id)

\* send_streaming_chunk, send_complete_file, handle_streaming_prepare and
\* handle_get_fail
SetPromise ==
    /\ task = "set"
    /\ LET m == Now.msg
           id == Now.id
           e == gets[id]
       IN IF Unusable(id, m) THEN Abort
          ELSE /\ gets' = IF OfStream(m, e) THEN [gets EXCEPT ![id].cur = @ + 1]
                          ELSE IF K!IsPrepare(m) THEN [gets EXCEPT ![id].chunks = m.count]
                          ELSE gets
               /\ answer' = IF OfStream(m, e) \/ ~ MaySet(id) THEN answer
                            ELSE [answer EXCEPT ![id] = m]
               /\ IF DoneWith(m, e) THEN task' = "erase" /\ UNCHANGED inbox
                  ELSE task' = "wait" /\ inbox' = Tail(inbox)
               /\ UNCHANGED clients
    /\ UNCHANGED <<pc, mine, read, counter, gone, locks, stopping, toKernel, kernel>>

\* clean_get_request of the client id that the entry holds
EraseRequest ==
    /\ task = "erase" /\ maps = None
    /\ IF gets[Now.id] = None THEN Abort
       ELSE /\ Erase(Now.id, gets[Now.id].client)
            /\ task' = "wait" /\ inbox' = Tail(inbox)
            /\ UNCHANGED answer
    /\ UNCHANGED <<pc, mine, read, counter, gone, locks, stopping, toKernel, kernel>>

\* The HTTP server accepts no more connections, and the task is told to stop.
Stop ==
    /\ ~ aborted /\ ~ stopping /\ stopping' = TRUE
    /\ UNCHANGED <<pc, mine, read, counter, books, promises, locks, task, toKernel, inbox,
                   kernel>>

\* Mutant: the promise of the request is thought to be enough.
NeverWaits(e) == FALSE

\* A stream that misses a chunk
WaitsForChunk(e) == e.chunks # None /\ e.cur < e.chunks

\* A request whose own promise is set at the end
WaitsForAnswer(i) == gets[i] # None /\ gets[i].chunks = None

\* wait() returns false: set_exception_to_promises, without any lock.
Finish ==
    /\ task = "wait" /\ stopping
    /\ gone' = gone \cup {i \in Id : gets[i] # None /\ WaitsForChunk(gets[i])}
    /\ answer' = [i \in Id |-> IF WaitsForAnswer(i) /\ answer[i] = None THEN Gone ELSE answer[i]]
    /\ task' = IF \E i \in Id : WaitsForAnswer(i) /\ ~ Alive(i) THEN "aborted" ELSE "join"
    /\ UNCHANGED <<pc, mine, read, counter, books, locks, stopping, toKernel, inbox, kernel>>

\* joinAll has waited for all handlers.
Join ==
    /\ task = "join" /\ \A c \in Client : pc[c] = "idle"
    /\ task' = "done"
    /\ UNCHANGED <<pc, mine, read, counter, books, promises, locks, stopping, toKernel,
                   inbox, kernel>>

-----------------------------------------------------------------------------
(* The kernel *)

KernelReceives ==
    /\ ~ aborted /\ toKernel # <<>>
    /\ LET m == Head(toKernel)
       IN /\ asked' = IF m.cmd = "get" THEN asked \cup {m.id} ELSE asked
          /\ cleaned' = IF m.cmd = "clean" THEN Append(cleaned, m.id) ELSE cleaned
    /\ toKernel' = Tail(toKernel)
    /\ UNCHANGED <<pc, mine, read, counter, books, promises, locks, task, stopping, inbox,
                   said>>

\* What GetService allows: of a stream that has ended the kernel may still say
\* that it has failed, as long as it is not cleaned.
KernelSays(id, m) ==
    /\ ~ aborted /\ id \in asked /\ id \notin Closed
    /\ said' = [said EXCEPT ![id] = Append(@, m)]
    /\ K!Legal(said'[id])
    /\ inbox' = Append(inbox, [id |-> id, msg |-> m])
    /\ UNCHANGED <<pc, mine, read, counter, books, promises, locks, task, stopping, toKernel,
                   asked, cleaned>>

KernelAnswers == \E id \in Id, m \in Message : ~ K!Complete(said[id]) /\ KernelSays(id, m)

Handler(c) ==
    \/ Insert(c) \/ SendGet(c) \/ SendFails(c) \/ GetAnswer(c)
    \/ ReadChunk(c) \/ EndStream(c) \/ StartClean(c) \/ Clean(c)
    \/ Leave(c) \/ Forget(c) \/ LivestreamEnds(c)
Task == LookUp \/ SetPromise \/ EraseRequest \/ Finish \/ Join

Work == (\E c \in Client : Handler(c)) \/ Task \/ KernelReceives \/ KernelAnswers

Next ==
    \/ Work \/ Stop
    \/ \E c \in Client : Arrive(c) \/ StartLeave(c)
    \/ \E id \in Id : KernelSays(id, K!Fail)

\* Threads, task and kernel go on while they can; nobody has to ask for
\* anything, to stop the application, to leave a livestream, or to fail a stream
\* that has ended.
Spec == Init /\ [][Next]_vars /\ WF_vars(Work)

-----------------------------------------------------------------------------
(* Correctness *)

\* The maps, promises, locks and messages keep their types.
TypeOK ==
    /\ \A c \in Client : pc[c] \in {"idle", "insert", "send", "answer", "chunks", "clean",
                                   "cleaning", "listen", "leaving", "forget"}
    /\ mine \in [Client -> Id \cup {0}]
    /\ read \in [Client -> 0 .. MaxCount] /\ counter \in 0 .. MaxRequests
    /\ \A i \in Id : gets[i] = None \/ gets[i] \in Entry
    /\ clients \in [Client -> Id \cup {None}]
    /\ \A i \in Id : answer[i] = None \/ answer[i] \in Message \cup {Gone}
    /\ gone \subseteq Id /\ asked \subseteq Id
    /\ maps \in Client \cup {None} /\ tx \in Client \cup {None}
    /\ task \in {"wait", "set", "erase", "join", "done", "aborted"} /\ stopping \in BOOLEAN
    /\ toKernel \in Seq([cmd : {"get", "clean", "cancel"}, id : Id])
    /\ inbox \in Seq([id : Id, msg : Message])
    /\ said \in [Id -> Seq(Message)] /\ cleaned \in Seq(Id)

\* The stream is cleaned, or the message is under way.
CleanSent(id) ==
    id \in Closed \/ \E k \in DOMAIN toKernel : toKernel[k] = [cmd |-> "clean", id |-> id]

Announced(id) == said[id] # <<>> /\ K!IsPrepare(said[id][1])

\* What can end the process, each a flaw of the code: a chunk of a stream that was
\* cleaned before its last one (its file of an earlier chunk was missing, or its
\* handler ended with an exception and the next one of the address cleaned it), and
\* a failure of a stream after its announcement that comes when the stream is
\* cleaned or its handler gone.
ChunkAfterClean == Now.msg = K!Chunk /\ CleanSent(Now.id)
FailureTooLate == Now.msg = K!Fail /\ (CleanSent(Now.id) \/ ~ Alive(Now.id))

\* Apart from that no assertion of the adapter's task fails, and it never uses an
\* entry that a handler has erased since the look-up, nor the promise of a handler
\* that has gone: not for a file, nor for a stream that is read to its end.
NoAbort ==
    /\ TypeOK
    /\ aborted => inbox # <<>> /\ Announced(Now.id) /\ (ChunkAfterClean \/ FailureTooLate)

\* Handlers come and go, and leave entries behind that the next handler of the
\* address finds: whatever m_client_to_request holds for an address is in
\* m_get_requests as a request of that address, and of no other.
ClientsAgree ==
    \A c \in Client : clients[c] # None =>
        gets[clients[c]] # None /\ gets[clients[c]].client = c

\* What KernelGet assumes of its clients, whoever's stream a handler finds under
\* its address: the kernel is told to clean nothing but a stream it has announced,
\* only once (it would fail the assertion at kernel.cpp:8155, as m_ims_req_ids keeps
\* the request), and never one whose handler still waits for it.
CleansOnce ==
    /\ \A k \in DOMAIN cleaned :
          /\ Announced(cleaned[k])
          /\ \A c \in Client : mine[c] = cleaned[k] => pc[c] \notin {"answer", "chunks"}
    /\ \A j, k \in DOMAIN cleaned : cleaned[j] = cleaned[k] => j = k

\* What keeps a handler from its end, each a flaw of the code: the stream has
\* failed before its last chunk, and the promise of the next one is never set; a
\* handler that cleans its stream and one that leaves a livestream hold a mutex each
\* that the other waits for; and the request was entered after the task had looked
\* through them at the end.
StreamFailed(c) ==
    LET talk == said[mine[c]]
    IN pc[c] = "chunks" /\ ~ stopping /\ talk[Len(talk)] = K!Fail /\ Len(talk) <= talk[1].count + 1
LockCycle == \E c, d \in Client : pc[c] = "cleaning" /\ pc[d] \in {"leaving", "forget"}
TooLate(c) == task = "join" /\ pc[c] \in {"answer", "listen"} /\ answer[mine[c]] = None

\* Apart from that, and as long as the process lives, every handler comes to an
\* end, with an answer of the kernel or the exception the task sets at the end,
\* however the handlers, the task, the kernel and the stop of the application
\* interleave.
EveryHandlerEnds ==
    <>[](\A c \in Client : \/ aborted \/ pc[c] = "idle"
                          \/ (pc[c] = "listen" /\ ~ stopping) \/ StreamFailed(c) \/ LockCycle
                          \/ TooLate(c))
=============================================================================
