----------------------------- MODULE KernelGet -----------------------------
(***************************************************************************)
(* How the kernel (src/src/metax/kernel.cpp) gets an object for its        *)
(* clients.  The master object names the pieces; the master and each piece *)
(* are looked up in the storage, asked of the router when they are not     *)
(* there, and decrypted by the key manager.  Requests for one object form  *)
(* a list: the first one, the leader, does the work and all are answered   *)
(* together.  Of media every request gets the chunks of its own range, and *)
(* whoever needs a chunk first asks for it.                                *)
(*                                                                         *)
(* As in KernelSave the kernel is one record and a handler an operator     *)
(* from record to record.  An answer of the storage or the key manager is  *)
(* computed when the kernel handles it: they answer in order, and the      *)
(* kernel does not see their state otherwise.                              *)
(***************************************************************************)
EXTENDS Integers, FiniteSets, FiniteSetsExt, Lists

CONSTANTS
    Get,       \* the get requests of clients
    Object,    \* the objects
    Size,      \* Size[o]: its bytes
    Cut,       \* the objects kept in pieces; of the others the master has all
    ChunkSize, \* bytes of a piece, but for the last
    Media,     \* the objects is_streaming_media holds for
    Enc,       \* the objects with a key in the user json
    Ranges,    \* get_range of requests for media: first byte and length, or -1
    MaxGet,    \* max_get_count
    MaxRouter, \* max_router_get_input_size, in pieces
    Placed,    \* which files the storage may hold at first
    MaxLost,   \* how many files may go away while they are in use
    Word,      \* chunk_count is a number modulo Word
    None       \* no list of chunks yet

ASSUME GetAssumption ==
    /\ IsFiniteSet(Get) /\ IsFiniteSet(Object)
    /\ Size \in [Object -> Nat \ {0}] /\ ChunkSize \in Nat \ {0}
    /\ Cut \subseteq Object /\ Media \subseteq Object /\ Enc \subseteq Object
    /\ Ranges \subseteq (Nat \cup {-1}) \X (Nat \cup {-1})
ASSUME GetLimits ==
    /\ MaxGet \in Nat \ {0} /\ MaxRouter \in Nat \ {0} /\ MaxLost \in Nat
    /\ Word \in Nat /\ \A o \in Object : Word > Size[o]

VARIABLES
    k,       \* the kernel, what it posted to its neighbours, and its answers
    stored,  \* the masters and pieces in the storage or its cache
    lost     \* how many files have gone away

vars == <<k, stored, lost>>

Count(o) == (Size[o] + ChunkSize - 1) \div ChunkSize
PiecesOf(o) == IF o \in Cut THEN 0 .. Count(o) - 1 ELSE {}

\* Master objects and pieces, and requests for them: a client's request is for
\* the master, the request of a piece belongs to the one that needed it first.
Master(o) == <<o, -1>>
File == UNION {{Master(o)} \cup {<<o, i>> : i \in PiecesOf(o)} : o \in Object}
PieceId == Get \X UNION {PiecesOf(o) : o \in Object}
Id == {<<g, -1>> : g \in Get} \cup PieceId
Root(g) == <<g, -1>>
Parent(id) == id[1]
IsPiece(id) == id[2] # -1
FileOf(s, id) == <<s.uuid[Parent(id)], id[2]>>

Chunks(o) == IF o \in Cut THEN PiecesOf(o) ELSE {0}
Start(o, i) == IF o \in Cut THEN i * ChunkSize ELSE 0
End(o, i) == IF o \in Cut /\ i < Count(o) - 1 THEN (i + 1) * ChunkSize ELSE Size[o]

ASSUME FileAssumption ==
    /\ Placed \subseteq SUBSET File
    /\ \A o \in Object : None \notin [Chunks(o) -> {"no", "requested", "available"}]

\* The bytes from .. to - 1.
Part(from, to) == [cmd |-> "chunk", from |-> from, to |-> to]
Data == [cmd |-> "get_data"]
Fail == [cmd |-> "get_fail"]
Prepare(n) == [cmd |-> "prepare_streaming", count |-> n]
Message == {Data, Fail} \cup {Prepare(n) : n \in 0 .. Word - 1}
           \cup [cmd : {"chunk"}, from : Nat, to : Nat]

Kernel ==
    [uuid : [Get -> Object],              \* request::uuid of the clients' requests
     requests : SUBSET Id,                \* m_requests
     ims : SUBSET Get,                    \* m_ims_req_ids
     cleaned : SUBSET Get,                \* the streams the clients have had cleaned
     waiting : [Object -> Seq(Get)],      \* m_pending_ims_get_requests
     units : [Get -> SUBSET Nat],         \* request::units
     missing : [Get -> SUBSET Nat],       \* the pieces left in master_json
     chunk : [Object -> {None} \cup       \* streaming_state.list, which the
        UNION {[Chunks(o) -> {"no", "requested", "available"}] : o \in Object}],
                                          \* requests of the object share
     range : [Get -> Int \X Int],         \* get_range
     curr : [Get -> Nat],                 \* streaming_state.curr
     last : [Get -> Nat],                 \* streaming_state.last
     pendingRouter : Seq(PieceId),        \* m_pending_router_get_reqs
     routerSize : Nat,                    \* m_router_get_input_size
     blocked : BOOLEAN,                   \* m_should_block_get_request
     storage : Seq([job : {"look_up", "get"}, id : Id]), \* asked of the storage
     cache : SUBSET File,                 \* asked of the cache's task
     key : Seq(Id),                       \* asked of the key manager
     tenders : SUBSET Id,                 \* open tenders of the router
     told : [Get -> Seq(Message)],        \* answers to the clients
     aborted : BOOLEAN]                   \* a poco_assert has failed

Init ==
    /\ \E uuid \in [Get -> Object], range \in [Get -> Ranges], blocked \in BOOLEAN :
        /\ \A g \in Get : uuid[g] \notin Media => range[g] = <<-1, -1>>
        /\ k = [uuid |-> uuid, requests |-> {}, ims |-> {}, cleaned |-> {},
                waiting |-> [o \in Object |-> <<>>],
                units |-> [g \in Get |-> {}], missing |-> [g \in Get |-> {}],
                chunk |-> [o \in Object |-> None],
                range |-> range, curr |-> [g \in Get |-> 0],
                last |-> [g \in Get |-> 0],
                pendingRouter |-> <<>>, routerSize |-> 0, blocked |-> blocked,
                storage |-> <<>>, cache |-> {}, key |-> <<>>, tenders |-> {},
                told |-> [g \in Get |-> <<>>], aborted |-> FALSE]
    /\ stored \in Placed
    /\ lost = 0

-----------------------------------------------------------------------------
(* What the handlers share *)

Known(s, id) == id \in s.requests
Require(holds, s) == [s EXCEPT !.aborted = @ \/ ~ holds]

Ask(s, job, id) == [s EXCEPT !.storage = Append(@, [job |-> job, id |-> id])]

\* Those of the n pieces from first on that are in S are looked up for g.
LookUp(s, g, first, n, S) ==
    LET is == Kept([i \in 1 .. n |-> first + i - 1], S)
    IN [s EXCEPT !.storage =
            @ \o [i \in DOMAIN is |-> [job |-> "look_up", id |-> <<g, is[i]>>]]]

\* send_ims_response: all requests of the object get one answer.
AnswerAll(s, o, m) ==
    LET gs == ElementsOf(s.waiting[o]) \cap s.ims
    IN Require(s.waiting[o] # <<>>,
         [s EXCEPT !.told = [g \in Get |-> IF g \in gs THEN Append(@[g], m) ELSE @[g]],
                   !.ims = @ \ gs,
                   !.requests = @ \ {Root(g) : g \in gs},
                   !.waiting[o] = <<>>, !.chunk[o] = None])

\* How many of the waiting pieces the limit lets pass.
Passing(s) ==
    LET free == IF s.routerSize < MaxRouter THEN MaxRouter - s.routerSize ELSE 0
    IN IF free < Len(s.pendingRouter) THEN free ELSE Len(s.pendingRouter)

\* The requests of waiting pieces are never erased: see NoAbort.
ProcessRouterPending(s) ==
    LET n == Passing(s)
    IN Require(ElementsOf(s.pendingRouter) \subseteq s.requests,
        [s EXCEPT !.routerSize = @ + n,
                  !.tenders = @ \cup ElementsOf(Front(s.pendingRouter, n)),
                  !.pendingRouter = Behind(@, n)])

\* Mutant: a piece that is there or has failed keeps its place.
KeepRouterSize(s) == s

\* The size is counted only when the piece is asked of the router, and
\* taken off whenever it fails; below 0 an error is logged.
ReduceRouterSize(s) ==
    [s EXCEPT !.routerSize = IF @ > 0 THEN @ - 1 ELSE 0]

\* handle_failed_request: one missing piece fails all requests of the object.
\* The request of the piece itself stays in m_requests.
Failed(s, id) ==
    LET o == s.uuid[Parent(id)]
    IN IF ~ IsPiece(id) THEN AnswerAll(s, o, Fail)
       ELSE LET t == IF Known(s, Root(Parent(id))) THEN AnswerAll(s, o, Fail) ELSE s
            IN ProcessRouterPending(ReduceRouterSize(t))

-----------------------------------------------------------------------------
(* Streaming *)

\* normalize_streaming_range; get_range is signed and the size is not, so a
\* negative number counts as one beyond the end.
Normalized(r, l) ==
    LET first == IF r[1] # -1 THEN r[1] ELSE IF r[2] = -1 THEN 0 ELSE l - r[2]
        second == IF r[1] = -1 \/ r[2] = -1 THEN l - 1 ELSE r[1] + r[2] - 1
    IN <<IF first \in 0 .. l THEN first ELSE 0,
         IF second \in 0 .. l THEN second ELSE l - 1>>

\* The chunk that holds the byte, but not as its first one.
Inside(o, byte) == {i \in Chunks(o) : Start(o, i) < byte /\ byte < End(o, i)}

\* Mutant: every chunk is sent whole.
WholeChunk(o, i, r) == Part(Start(o, i), End(o, i))

\* prepare_partial_chunk, or the whole chunk.
PartOf(o, i, r) ==
    LET from == IF Start(o, i) < r[1] THEN r[1] ELSE Start(o, i)
        to == IF End(o, i) - 1 > r[2] THEN r[2] + 1 ELSE End(o, i)
    IN Part(from, IF to < from THEN from ELSE to)

\* Mutant: the chunk that holds the last byte is left out.
SetStateTooShort(s, gs) ==
    LET r == [g \in Get |-> Normalized(s.range[g], Size[s.uuid[g]])]
        first == [g \in Get |-> Max({0} \cup Inside(s.uuid[g], r[g][1]))]
        end == [g \in Get |-> Max({first[g]} \cup Inside(s.uuid[g], r[g][2]))]
    IN [s EXCEPT !.range = [g \in Get |-> IF g \in gs THEN r[g] ELSE @[g]],
                 !.curr = [g \in Get |-> IF g \in gs THEN first[g] ELSE @[g]],
                 !.last = [g \in Get |-> IF g \in gs THEN end[g] ELSE @[g]],
                 !.told = [g \in Get |-> IF g \in gs
                              THEN Append(@[g], Prepare(end[g] - first[g])) ELSE @[g]]]

\* calculate_stream_current_chunk_from_range; curr and last are 0 at first.
FirstChunk(o, r) == IF Inside(o, r[1]) = {} THEN 0 ELSE Max(Inside(o, r[1]))
LastChunk(o, r) == IF Inside(o, r[2]) = {} THEN 0 ELSE Max(Inside(o, r[2])) + 1

\* The requests gs of an object whose list of chunks is there.
SetStreamingState(s, gs) ==
    LET r == [g \in Get |-> Normalized(s.range[g], Size[s.uuid[g]])]
        curr == [g \in Get |-> FirstChunk(s.uuid[g], r[g])]
        last == [g \in Get |-> LastChunk(s.uuid[g], r[g])]
    IN [s EXCEPT !.range = [g \in Get |-> IF g \in gs THEN r[g] ELSE @[g]],
                 !.curr = [g \in Get |-> IF g \in gs THEN curr[g] ELSE @[g]],
                 !.last = [g \in Get |-> IF g \in gs THEN last[g] ELSE @[g]],
                 !.told = [g \in Get |-> IF g \in gs
                     THEN Append(@[g], Prepare((last[g] - curr[g]) % Word)) ELSE @[g]]]

\* post_storage_next_streaming_chunk_get_request: of the next MaxGet chunks
\* the ones nobody has asked for.
AskNextChunks(s, g) ==
    LET o == s.uuid[g]
        new == {i \in s.curr[g] .. s.last[g] - 1 :
                   i < s.curr[g] + MaxGet /\ s.chunk[o][i] = "no"}
    IN LookUp([s EXCEPT !.chunk[o] =
                            [i \in Chunks(o) |-> IF i \in new THEN "requested" ELSE @[i]],
                        !.requests = @ \cup {<<g, i>> : i \in new}],
              g, s.curr[g], MaxGet, new)

\* Mutant: only the chunk at hand is sent, not those that are there already.
SendOneChunk(s, g) ==
    LET o == s.uuid[g]
        next == s.curr[g] + 1
    IN AskNextChunks(
         [s EXCEPT !.curr[g] = next,
                   !.told[g] = Append(@, PartOf(o, next - 1, s.range[g]))], g)

SendAvailableChunks(s, g) ==
    LET o == s.uuid[g]
        Gap == {i \in s.curr[g] .. s.last[g] - 1 : s.chunk[o][i] # "available"}
        next == IF Gap = {} THEN Max({s.curr[g], s.last[g]}) ELSE Min(Gap)
        parts == [n \in 1 .. next - s.curr[g] |->
                     PartOf(o, s.curr[g] + n - 1, s.range[g])]
    IN AskNextChunks([s EXCEPT !.curr[g] = next, !.told[g] = @ \o parts], g)

\* F for each request of the object, in the order of its list.
ForAll(F(_, _), s, o) ==
    LET gs == s.waiting[o]
        done[n \in 0 .. Len(gs)] == IF n = 0 THEN s ELSE F(done[n - 1], gs[n])
    IN done[Len(gs)]

SendToThoseAt(s, o, i) ==
    ForAll(LAMBDA t, g : IF t.curr[g] = i THEN SendAvailableChunks(t, g) ELSE t, s, o)

\* construct_streaming_state: the leader and the requests that joined it get
\* their ranges, and the first chunks are asked for.
ConstructStreamingState(s, g) ==
    LET o == s.uuid[g]
        have == IF o \in Cut THEN "no" ELSE "available"
        listed == [s EXCEPT !.chunk[o] = [i \in Chunks(o) |-> have]]
        ranged == SetStreamingState(listed, ElementsOf(s.waiting[o]))
    IN IF o \in Cut THEN ForAll(AskNextChunks, ranged, o) ELSE SendToThoseAt(ranged, o, 0)

-----------------------------------------------------------------------------
(* Masters and pieces *)

\* Mutant: only the first MaxGet pieces are asked for.
AskNoMore(s, g) == s

\* post_storage_next_piece_get_request
AskNextPiece(s, g) ==
    IF s.units[g] = {} THEN s
    ELSE LET id == <<g, Min(s.units[g])>>
         IN Require(Known(s, id),
              [Ask(s, "look_up", id) EXCEPT !.units[g] = @ \ {id[2]}])

\* The first MaxGet of all pieces, in their order.
AskPieces(s, g) ==
    LookUp([s EXCEPT !.units[g] = @ \ 0 .. MaxGet - 1], g, 0, MaxGet, s.units[g])

StartGettingPieces(s, g) ==
    LET pieces == PiecesOf(s.uuid[g])
    IN IF pieces = {} THEN AnswerAll(s, s.uuid[g], Data)
       ELSE AskPieces([s EXCEPT !.requests = @ \cup {<<g, i>> : i \in pieces},
                                !.units[g] = pieces, !.missing[g] = pieces], g)

HandleMaster(s, g) ==
    IF s.uuid[g] \in Media THEN ConstructStreamingState(s, g) ELSE StartGettingPieces(s, g)

\* got_master_object; valid: a master that is not encrypted can be parsed.
GotMaster(s, g, valid) ==
    IF s.uuid[g] \in Enc THEN [s EXCEPT !.key = Append(@, Root(g))]
    ELSE IF valid THEN HandleMaster(s, g) ELSE Failed(s, Root(g))

ParentGone(s, id) == ~ Known(s, Root(Parent(id)))
Erase(s, id) == [s EXCEPT !.requests = @ \ {id}]

\* process_unencrypted_piece, which asserts that the parent is a get request;
\* then the request of the piece is erased.
ProcessPiece(s, id) ==
    LET g == Parent(id)
        o == s.uuid[g]
        left == s.missing[g] \ {id[2]}
        processed ==
            IF o \in Media
            THEN Require(s.chunk[o] # None /\ s.waiting[o] # <<>>
                         /\ \A r \in ElementsOf(s.waiting[o]) : Known(s, Root(r)),
                   SendToThoseAt([s EXCEPT !.chunk[o][id[2]] = "available"], o, id[2]))
            ELSE LET t == [s EXCEPT !.missing[g] = left]
                 IN IF left = {} THEN AnswerAll(t, o, Data) ELSE t
    IN Require(~ ParentGone(s, id), Erase(processed, id))

HandlePiece(s, id) ==
    IF ParentGone(s, id) THEN Erase(s, id)
    ELSE LET t == AskNextPiece(s, Parent(id))
         IN IF s.uuid[Parent(id)] \in Enc THEN [t EXCEPT !.key = Append(@, id)]
            ELSE ProcessPiece(t, id)

Got(s, id, valid) ==
    IF IsPiece(id) THEN HandlePiece(s, id) ELSE GotMaster(s, Parent(id), valid)

-----------------------------------------------------------------------------
(* The client *)

\* process_ims_get_request: the first request of an object asks the storage; a
\* later one joins, and of media gets what is there already.
Join(s, g) ==
    LET o == s.uuid[g]
        joined == [s EXCEPT !.requests = @ \cup {Root(g)}, !.ims = @ \cup {g},
                            !.waiting[o] = Append(@, g)]
    IN IF s.waiting[o] = <<>> THEN Ask(joined, "look_up", Root(g))
       ELSE IF s.chunk[o] = None THEN joined
       ELSE SendAvailableChunks(SetStreamingState(joined, {g}), g)

Asked(g) == g \in k.ims \/ k.told[g] # <<>>

ImsGet(g) ==
    /\ ~ Asked(g)
    /\ k' = IF k.blocked THEN [k EXCEPT !.told[g] = Append(@, Fail)] ELSE Join(k, g)
    /\ UNCHANGED <<stored, lost>>

Conversation(told) ==
    [i \in DOMAIN told |-> IF told[i].cmd = "chunk" THEN [cmd |-> "chunk"] ELSE told[i]]
Abstract == INSTANCE GetService
    WITH said <- [g \in Get |-> Conversation(k.told[g])], closed <- k.cleaned
Ended(g) == Abstract!Complete(Conversation(k.told[g]))

Drop(s, g) ==
    LET rest == Kept(s.waiting[s.uuid[g]], Get \ {g})
    IN [s EXCEPT !.waiting[s.uuid[g]] = rest, !.requests = @ \ {Root(g)},
                 !.chunk[s.uuid[g]] = IF rest = <<>> THEN None ELSE @]

\* A handler cleans a stream, read to its end or not, which it was told of, and
\* only once: see WebApi.  The request leaves the list; its entry in
\* m_ims_req_ids stays.
ImsCleanStream(g) ==
    /\ g \notin k.cleaned
    /\ k.told[g] # <<>> /\ Abstract!IsPrepare(k.told[g][1])
    /\ LET s == [k EXCEPT !.cleaned = @ \cup {g}]
           listed == Known(k, Root(g)) /\ g \in ElementsOf(k.waiting[k.uuid[g]])
       IN k' = IF g \in k.ims THEN Require(listed, Drop(s, g)) ELSE s
    /\ UNCHANGED <<stored, lost>>

-----------------------------------------------------------------------------
(* The storage, the key manager and the router *)

\* The storage has no such file: handle_storage_negative_response.
NotStored(s, id) ==
    IF IsPiece(id)
    THEN ProcessRouterPending([s EXCEPT !.pendingRouter = Append(@, id)])
    ELSE [s EXCEPT !.tenders = @ \cup {id}]

StorageAnswer(valid) ==
    /\ k.storage # <<>>
    /\ LET id == Head(k.storage).id
           there == FileOf(k, id) \in stored
           s == [k EXCEPT !.storage = Tail(@)]
       IN k' = IF ~ Known(s, id) THEN s
               ELSE IF Head(k.storage).job = "look_up"
                    THEN IF there THEN Ask(s, "get", id) ELSE NotStored(s, id)
               ELSE IF there THEN Got(s, id, valid) ELSE Failed(s, id)
    /\ UNCHANGED <<stored, lost>>

\* The router has the data.
RouterGetData(id, valid) ==
    /\ id \in k.tenders
    /\ LET s == [k EXCEPT !.tenders = @ \ {id}]
           cached == [s EXCEPT !.cache = @ \cup {FileOf(s, id)}]
           counted == IF IsPiece(id) THEN ProcessRouterPending(ReduceRouterSize(cached))
                      ELSE cached
       IN k' = IF Known(s, id) THEN Got(counted, id, valid) ELSE s
    /\ UNCHANGED <<stored, lost>>

\* Nobody has it; max_get_fail_count is 1.
RouterCancel(id) ==
    /\ id \in k.tenders
    /\ LET s == [k EXCEPT !.tenders = @ \ {id}]
       IN k' = IF Known(s, id) THEN Failed(s, id) ELSE s
    /\ UNCHANGED <<stored, lost>>

\* Mutant: the decrypted piece of a parent that is gone is processed.
DecryptedAnyway(s, id) == ProcessPiece(s, id)

Decrypted(s, id) ==
    IF ParentGone(s, id) THEN Erase(s, id) ELSE ProcessPiece(s, id)

DecryptionFailed(s, id) ==
    LET t == IF IsPiece(id) THEN Erase(s, id) ELSE s
    IN IF ParentGone(t, id) THEN t ELSE AnswerAll(t, s.uuid[Parent(id)], Fail)

\* decrypted: the key fits; valid: the decrypted master can be parsed.
KeyAnswer(decrypted, valid) ==
    /\ k.key # <<>>
    /\ LET id == Head(k.key)
           s == Require(Known(k, id), [k EXCEPT !.key = Tail(@)])
       IN k' = CASE ~ decrypted -> DecryptionFailed(s, id)
                 [] decrypted /\ IsPiece(id) -> Decrypted(s, id)
                 [] OTHER -> IF valid THEN HandleMaster(s, Parent(id)) ELSE Failed(s, id)
    /\ UNCHANGED <<stored, lost>>

\* The synchronization after the start has finished.
RouterSyncFinished ==
    /\ k.blocked
    /\ k' = [k EXCEPT !.blocked = FALSE]
    /\ UNCHANGED <<stored, lost>>

\* The cache's task keeps what was received; its clean-up, or a deletion, takes
\* a file away.
AddInCache(f) ==
    /\ f \in k.cache
    /\ k' = [k EXCEPT !.cache = @ \ {f}]
    /\ stored' = stored \cup {f}
    /\ UNCHANGED lost

Lose(f) ==
    /\ f \in stored /\ lost < MaxLost
    /\ stored' = stored \ {f} /\ lost' = lost + 1
    /\ UNCHANGED k

\* Whoever is asked answers: the storage, the key manager, and the router, which
\* has the data or lets the tender expire.
Answer ==
    \/ \E valid \in BOOLEAN : StorageAnswer(valid)
    \/ \E decrypted, valid \in BOOLEAN : KeyAnswer(decrypted, valid)
    \/ \E id \in Id : RouterCancel(id) \/ \E valid \in BOOLEAN : RouterGetData(id, valid)

Next ==
    \/ \E g \in Get : ImsGet(g) \/ ImsCleanStream(g)
    \/ Answer
    \/ RouterSyncFinished
    \/ \E f \in File : AddInCache(f) \/ Lose(f)

\* WF_vars(Answer); Busy is ENABLED Answer, in a form that TLC evaluates fast.
Busy == k.storage # <<>> \/ k.key # <<>> \/ k.tenders # {}
Fairness == []<> ~ Busy \/ []<><<Answer>>_vars

Spec == Init /\ [][Next]_vars /\ Fairness

-----------------------------------------------------------------------------
(* Correctness *)

\* The kernel's maps, queues and counters keep their types.
TypeOK ==
    /\ k.uuid \in [Get -> Object] /\ k.requests \subseteq Id
    /\ k.ims \subseteq Get /\ k.cleaned \subseteq Get
    /\ k.waiting \in [Object -> Seq(Get)]
    /\ k.units \in [Get -> SUBSET Nat] /\ k.missing \in [Get -> SUBSET Nat]
    /\ \A o \in Object : k.chunk[o] = None
          \/ k.chunk[o] \in [Chunks(o) -> {"no", "requested", "available"}]
    /\ k.range \in [Get -> Int \X Int]
    /\ k.curr \in [Get -> Nat] /\ k.last \in [Get -> Nat]
    /\ k.pendingRouter \in Seq(PieceId) /\ k.routerSize \in Nat
    /\ k.storage \in Seq([job : {"look_up", "get"}, id : Id])
    /\ k.cache \subseteq File /\ k.key \in Seq(Id) /\ k.tenders \subseteq Id
    /\ k.told \in [Get -> Seq(Message)]
    /\ k.blocked \in BOOLEAN /\ k.aborted \in BOOLEAN
    /\ stored \subseteq File /\ lost \in 0 .. MaxLost

\* The types hold, and no poco_assert of the get handlers fails, which would
\* abort the process: no answer of the key manager finds its request gone, no
\* list of an object is answered twice, no request of a list is gone while it is
\* in it, and a stream that is cleaned, at whatever moment, is either in the list
\* of its object or has failed.
NoAbort == TypeOK /\ ~ k.aborted

\* The bytes a client has been sent so far are the first ones of the range it
\* asked for: none is missing between two chunks, none comes twice, whoever
\* asked for the chunk and in whatever order the chunks arrived.
HasBytes(m) == m.cmd = "chunk" /\ m.from < m.to
StreamsInOrder ==
    \A g \in Get : \A n \in DOMAIN k.told[g] :
        LET m == k.told[g][n]
            before == {i \in 1 .. n - 1 : HasBytes(k.told[g][i])}
        IN HasBytes(m) =>
             /\ m.from = IF before = {} THEN k.range[g][1] ELSE k.told[g][Max(before)].to
             /\ m.to <= k.range[g][2] + 1

\* A stream that has ended without a failure has brought the whole range,
\* unless the range ends at the first byte of a chunk, or just after the
\* object: then streaming_state.last is never set.
RangeServed ==
    \A g \in Get :
        LET last == k.told[g][Len(k.told[g])]
        IN k.told[g] # <<>> /\ last.cmd = "chunk" /\ Ended(g)
              /\ Inside(k.uuid[g], k.range[g][2]) # {}
           => last.to = k.range[g][2] + 1

\* The router's limit loses nothing: what m_router_get_input_size counts is
\* asked of the router, so it is 0 again when nothing is, and pieces only wait
\* while the limit is reached.
RouterAccount ==
    /\ k.routerSize <= Cardinality({id \in k.tenders : IsPiece(id)})
    /\ k.pendingRouter # <<>> => k.routerSize >= MaxRouter

\* A request that was cleaned before its end is not there when the chunks come that
\* it has asked for; nobody asks for them again.
LeftBehind(g) ==
    LET o == k.uuid[g]
    IN /\ k.chunk[o] # None /\ k.curr[g] \in Chunks(o) /\ k.chunk[o][k.curr[g]] = "requested"
       /\ \E c \in k.cleaned :
             k.uuid[c] = o /\ ~ Ended(c) /\ k.curr[g] \in k.curr[c] .. k.curr[c] + MaxGet - 1

\* Every client that waits is told the data, a failure, or all its chunks,
\* whichever requests of the object came and went and whichever files disappeared.
\* The exceptions are a stream whose number of chunks has wrapped around, and one
\* that needs a chunk another client asked for and left.
EveryGetAnswered ==
    <>[](\A g \in Get : Asked(g) =>
            Ended(g) \/ g \in k.cleaned \/ k.last[g] < k.curr[g] \/ LeftBehind(g))

\* The kernel keeps the promise of GetService.
GetService == Abstract!Spec
=============================================================================
