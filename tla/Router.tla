------------------------------- MODULE Router -------------------------------
(***************************************************************************)
(* The router tasks (src/src/metax/router.cpp) of a network of nodes: how  *)
(* a request of one kernel is flooded hop by hop as a tender, offered to   *)
(* the kernels it meets, and how the answers travel back the way it came.  *)
(*                                                                         *)
(* Each action is the handling of one input of one router; an input of a   *)
(* kernel and what its router does with the answer are one action.  The    *)
(* queues between routers are one FIFO per pair of nodes.  The tenders of  *)
(* the storage sync and livestreams are left out.                          *)
(***************************************************************************)
EXTENDS Naturals, Sequences, FiniteSets

CONSTANTS
    Node,      \* the nodes of the network
    Edge,      \* the pairs of nodes that are connected at first, both ways
    Tender,    \* tender ids: one for each request a kernel makes
    Asker,     \* Asker[t]: the node whose kernel makes it
    Kind,      \* Kind[t]: the class of commands it belongs to
    Copies,    \* the tenders of kind save that are copies
    Holder,    \* Holder[t]: the nodes whose kernel or storage satisfies t
    MaxHops,   \* MAX_HOPS of the configuration
    HopWidth,  \* the number of values of a hop_id, an ID16
    MaxDown,   \* bound: the connections that break
    Patient,   \* TRUE: answers come before any tender is idle for too long
    None       \* no entry in m_tenders

\* The first commands of a tender by the way router and kernel treat them:
\*   get       get
\*   save      save, update, del, copy
\*   register  on_update_register
\*   find      find_peer
\*   record    recording_start, recording_stop, on_update_unregister
\*   notify    notify_update, notify_delete
Kinds == {"get", "save", "register", "find", "record", "notify"}

ASSUME NodeAssumption ==
    /\ IsFiniteSet(Node) /\ Edge \subseteq Node \X Node
    /\ \A n \in Node : <<n, n>> \notin Edge
ASSUME TenderAssumption ==
    /\ Asker \in [Tender -> Node]
    /\ Kind \in [Tender -> Kinds]
    /\ Copies \subseteq {t \in Tender : Kind[t] = "save"}
    /\ \A t \in Tender : t \notin Nat
ASSUME HopAssumption == HopWidth \in Nat /\ MaxHops \in 1 .. HopWidth - 1
ASSUME BoundAssumption ==
    MaxDown \in Nat /\ Patient \in BOOLEAN
    /\ Holder \in [Tender -> SUBSET Node]

VARIABLES
    tenders,   \* tenders[n][t]: m_tenders of a node, None without an entry
    ids,       \* m_id_tenders: pairs of a request id and a tender id
    timeline,  \* m_tenders_timeline: the tenders whose expiry is watched
    counter,   \* m_request_counter: the last request id the router gave out
    net,       \* net[<<m, n>>]: what m sent to n; net[<<n, n>>]: nacks of n's link
    up,        \* the connections, as pairs in both directions
    owed,      \* owed[n]: what the kernel of n was handed and has to answer
    told,      \* told[t]: what the kernel that asked was told, in order
    heard,     \* heard[t]: how much of it the kernel has handled
    asked,     \* the tenders that were asked for
    waiting,   \* those whose request is in m_requests of the kernel
    aborted    \* the nodes a failed poco_assert has aborted

tables == <<tenders, ids, timeline, counter>>
kernels == <<owed, told, heard, asked, waiting>>
vars == <<tables, net, up, kernels, aborted>>

\* request_id UINT32_MAX; a kernel's own request id is named by its tender,
\* those the router gives out are the numbers from 1 on.
NoId == 0
RequestId == Nat \cup Tender
HopId == 0 .. HopWidth - 1
Command == {"request", "data", "offer", "deliver", "receipt"}
Message == [cmd : Command, id : Tender, hop : HopId]
Debt == [rid : RequestId, id : Tender, cmd : {"request", "deliver", "clear"}]

\* The fields of a tender the router acts on.
Entry == [rid : RequestId, typ : {"internal", "remote"},
          st : {"announced", "received", "confirmed"},
          prs : SUBSET Node, hop : HopId, canceled : BOOLEAN]

ASSUME NoneAssumption == None \notin Entry

Init ==
    /\ tenders = [n \in Node |-> [t \in Tender |-> None]]
    /\ ids = [n \in Node |-> {}]
    /\ timeline = [n \in Node |-> {}]
    /\ counter = [n \in Node |-> NoId]
    /\ net = [c \in Node \X Node |-> <<>>]
    /\ up = Edge \cup {<<e[2], e[1]>> : e \in Edge}
    /\ owed = [n \in Node |-> {}]
    /\ told = [t \in Tender |-> <<>>]
    /\ heard = [t \in Tender |-> 0]
    /\ asked = {}
    /\ waiting = {}
    /\ aborted = {}

-----------------------------------------------------------------------------
(* Predicates on commands *)

\* is_first_command_of_multiwinner_tender
IsMultiwinner(t) == Kind[t] \in {"save", "notify"}

\* Mutants: the test for get, or for find, is missing.
IgnoresSomeRepeats(t) == Kind[t] \in {"save", "register", "find"}
IgnoresMostRepeats(t) == Kind[t] \in {"get", "save", "register"}

\* The first commands process_existing_tender ignores for a tender it knows.
IgnoresRepeat(t) == Kind[t] \in {"get", "save", "register", "find"}

\* The requests a kernel refuses when it cannot satisfy them, which makes the
\* router pass them on; the others it drops silently.
MayRefuse(t) == Kind[t] \in {"get", "register", "find", "record"}

\* Mutants: the last hop is tested too early, or not at all.
LastHopEarly(hop) == hop <= 2
LastHopNever(hop) == FALSE

\* The test of handle_refuse and handle_new_remote_tender: the tender goes no
\* further.
LastHop(hop) == hop = 1

\* hop_id is unsigned and wraps.
Before(hop) == (hop + HopWidth - 1) % HopWidth

-----------------------------------------------------------------------------
(* The link of a node: broadcast, broadcast_with_exclude and send *)

Connected(n) == {p \in Node : <<n, p>> \in up}

\* q with m appended to the queue from n to each of the peers
Post(q, n, peers, m) ==
    [c \in Node \X Node |->
        IF c[1] = n /\ c[2] \in peers THEN Append(q[c], m) ELSE q[c]]

\* link::broadcast and broadcast_with_exclude answer with a nack when the node
\* has no peers at all.
Broadcast(q, n, except, m) ==
    Post(q, n, IF Connected(n) = {} THEN {n} ELSE Connected(n) \ except, m)

\* link::send posts one nack if any of the peers is not connected.
SendTo(q, n, peers, m) ==
    Post(q, n, (peers \cap Connected(n)) \cup
               (IF peers \subseteq Connected(n) THEN {} ELSE {n}), m)

-----------------------------------------------------------------------------
(* Operations on the tables of one node *)

\* m_id_tenders.find(r), then m_tenders.find
TendersOf(n, r) == {t \in Tender : <<r, t>> \in ids[n] /\ tenders[n][t] # None}

SetTender(n, t, e) == tenders' = [tenders EXCEPT ![n][t] = e]

\* Mutant: the pointer stays in m_tenders_timeline.
CleanUpTables(n, t) ==
    /\ ids' = [ids EXCEPT ![n] = {x \in @ : x[1] # tenders[n][t].rid}]
    /\ SetTender(n, t, None)
    /\ UNCHANGED <<timeline, counter>>

\* clean_up_tender_info: the tender leaves the three tables.
CleanUpInfo(n, t) ==
    /\ timeline' = [timeline EXCEPT ![n] = @ \ {t}]
    /\ ids' = [ids EXCEPT ![n] = {x \in @ : x[1] # tenders[n][t].rid}]
    /\ SetTender(n, t, None)
    /\ UNCHANGED counter

\* Mutants: every request is cancelled, or only those nobody has answered.
CancelsAlways(e, t) == e.rid = t
CancelsUnanswered(e, t) == ~e.canceled /\ e.rid = t /\ e.st = "announced"

\* clean_up_tender and cancel_request: a kernel that has not cleared the request
\* is told so; the cancel of a request of another node changes nothing here.
Cancels(e, t) == ~e.canceled /\ e.rid = t

CleanUp(n, t) ==
    /\ CleanUpInfo(n, t)
    /\ told' = IF Cancels(tenders[n][t], t)
                 THEN [told EXCEPT ![t] = Append(@, "cancel")]
                 ELSE told

\* A poco_assert does not hold: the process aborts.
Abort(n) == aborted' = aborted \cup {n} /\ UNCHANGED <<tables, net, told>>

-----------------------------------------------------------------------------
(* What the router does for its kernel *)

\* send_tender_data: the answer goes to a peer of the tender.
SendData(n, t, cmd, st) ==
    LET e == tenders[n][t] IN
    /\ \E p \in e.prs :
          net' = SendTo(net, n, {p}, [cmd |-> cmd, id |-> t, hop |-> Before(MaxHops)])
    /\ SetTender(n, t, [e EXCEPT !.st = st, !.hop = MaxHops])
    /\ UNCHANGED <<ids, timeline, counter, told, aborted>>

\* handle_kernel_data_transfer and handle_storage_data_transfer
Transfer(n, t, cmd) ==
    LET e == tenders[n][t] IN
    IF e.st \notin {"confirmed", "received"} \/ e.prs = {}
      THEN Abort(n)
      ELSE SendData(n, t, cmd, "confirmed")

\* handle_kernel_confirm_for_multiwinner_tender: the state stays.
Confirm(n, t, cmd) ==
    LET e == tenders[n][t] IN
    IF e.typ # "remote" \/ e.prs = {} THEN Abort(n) ELSE SendData(n, t, cmd, e.st)

\* The answer goes on: only the kernel's word that it made a copy takes
\* handle_kernel_confirm_for_multiwinner_tender; gets, saves, updates and
\* deletions are answered by the storage itself.
Respond(n, t, cmd) ==
    \/ ~(cmd = "data" /\ t \in Copies) /\ Transfer(n, t, cmd)
    \/ cmd = "data" /\ t \in Copies /\ Confirm(n, t, cmd)

\* handle_refuse: on its last hop a refused tender ends, otherwise it is
\* passed on and from then on belongs to no request of this node.
Refuse(n, t) ==
    LET e == tenders[n][t] IN
    IF LastHop(e.hop)
      THEN CleanUp(n, t) /\ UNCHANGED <<net, aborted>>
      ELSE IF Cardinality(e.prs) # 1 \/ e.typ # "remote"
        THEN Abort(n)
        ELSE /\ net' = Broadcast(net, n, e.prs,
                          [cmd |-> "request", id |-> t, hop |-> Before(e.hop)])
             /\ SetTender(n, t, [e EXCEPT !.rid = NoId])
             /\ ids' = [ids EXCEPT ![n] = {x \in @ : x[1] # e.rid}]
             /\ UNCHANGED <<timeline, counter, told, aborted>>

\* handle_kernel_clear_request
ClearRequest(n, t) ==
    /\ SetTender(n, t, [tenders[n][t] EXCEPT !.canceled = TRUE])
    /\ UNCHANGED <<ids, timeline, counter, net, told, aborted>>

Nothing == UNCHANGED <<tables, net, told, aborted>>

-----------------------------------------------------------------------------
(* The kernels *)

\* handle_kernel_get, handle_kernel_save_request, handle_kernel_find_peer and
\* the like: the router announces a new tender to all its peers.
Ask(t) ==
    LET n == Asker[t] IN
    /\ n \notin aborted
    /\ t \notin asked
    /\ asked' = asked \cup {t}
    /\ waiting' = waiting \cup {t}
    /\ SetTender(n, t, [rid |-> t, typ |-> "internal", st |-> "announced",
                        prs |-> {}, hop |-> MaxHops, canceled |-> FALSE])
    /\ timeline' = [timeline EXCEPT ![n] = @ \cup {t}]
    /\ ids' = [ids EXCEPT ![n] = @ \cup {<<t, t>>}]
    /\ net' = Broadcast(net, n, {}, [cmd |-> "request", id |-> t, hop |-> Before(MaxHops)])
    /\ UNCHANGED <<counter, up, owed, told, heard, aborted>>

\* What a kernel or storage makes of what it was handed for another node.
Answer(n, o) ==
    CASE o.cmd = "deliver" -> "receipt"
      [] o.cmd = "clear" -> "clear"
      [] o.cmd = "request" /\ n \notin Holder[o.id] ->
            IF MayRefuse(o.id) THEN "refuse" ELSE "silence"
      [] o.cmd = "request" /\ n \in Holder[o.id] ->
            CASE Kind[o.id] = "find" -> "offer"
              [] Kind[o.id] = "notify" -> "silence"
              [] OTHER -> "data"

\* The kernel clears the request after its last word on it.
DebtAfter(o, answer) ==
    IF answer = "receipt" \/ (answer = "data" /\ Kind[o.id] = "record")
      THEN {[o EXCEPT !.cmd = "clear"]} ELSE {}

\* The kernel or the storage of a node answers, in any order; an answer to a
\* request the router no longer knows is dropped.
Reply(n) ==
    /\ n \notin aborted
    /\ \E o \in owed[n] :
        LET answer == Answer(n, o) IN
        /\ owed' = [owed EXCEPT ![n] = (@ \ {o}) \cup DebtAfter(o, answer)]
        /\ IF answer = "silence" \/ TendersOf(n, o.rid) = {}
             THEN Nothing
             ELSE \E t \in TendersOf(n, o.rid) :
                    CASE answer = "refuse" -> Refuse(n, t)
                      [] answer = "clear" -> ClearRequest(n, t)
                      [] OTHER -> Respond(n, t, answer)
    /\ UNCHANGED <<up, heard, asked, waiting>>

\* The kernel that asked handles what it is told. It answers an offer with the
\* message for the peer and drops the request with the answer (a save may wait
\* for more) or the cancel; it ignores what comes for a dropped request,
\* except that handle_router_peer_found asserts there is one.
Hear(t) ==
    LET n == Asker[t]
        word == told[t][heard[t] + 1]
    IN
    /\ n \notin aborted
    /\ heard[t] < Len(told[t])
    /\ heard' = [heard EXCEPT ![t] = @ + 1]
    /\ \/ /\ word = "offer"
          /\ IF t \notin waiting THEN Abort(n)
             ELSE IF TendersOf(n, t) = {} THEN Nothing ELSE Respond(n, t, "deliver")
          /\ UNCHANGED waiting
       \/ /\ word \in {"data", "receipt"} /\ t \in waiting
          /\ waiting' = waiting \ {t}
          /\ IF TendersOf(n, t) = {} THEN Nothing ELSE ClearRequest(n, t)
       \/ /\ \/ word \in {"cancel", "request"} \/ t \notin waiting
             \/ word = "data" /\ Kind[t] = "save"
          /\ word # "offer"
          /\ waiting' = IF word = "cancel" THEN waiting \ {t} ELSE waiting
          /\ Nothing
    /\ UNCHANGED <<up, owed, asked>>

-----------------------------------------------------------------------------
(* The link's side: handle_link_data *)

\* handle_new_remote_tender: only a first command makes an entry; it is offered
\* to the kernel and, for a multiwinner command, passed on at once.
NewRemote(n, from, m, rest) ==
    IF m.cmd # "request"
      THEN UNCHANGED <<tables, owed>> /\ net' = rest
      ELSE
        LET rid == counter[n] + 1 IN
        /\ SetTender(n, m.id, [rid |-> rid, typ |-> "remote", st |-> "received",
                               prs |-> {from}, hop |-> m.hop, canceled |-> FALSE])
        /\ counter' = [counter EXCEPT ![n] = rid]
        /\ owed' = [owed EXCEPT ![n] = @ \cup {[rid |-> rid, id |-> m.id, cmd |-> "request"]}]
        /\ ids' = [ids EXCEPT ![n] = @ \cup {<<rid, m.id>>}]
        /\ timeline' = [timeline EXCEPT ![n] = @ \cup {m.id}]
        /\ net' = IF IsMultiwinner(m.id) /\ ~LastHop(m.hop)
                    THEN Broadcast(rest, n, {from}, [m EXCEPT !.hop = Before(m.hop)])
                    ELSE rest

\* Mutants: a second answer is never, or always, dropped.
NotDropped(e, m) == FALSE
DroppedForAll(e, m) == m.cmd = "data" /\ e.st = "confirmed"

\* The second data for a get
Dropped(e, m) == m.cmd = "data" /\ Kind[m.id] = "get" /\ e.st = "confirmed"

\* send_response_to_kernel
ToKernel(n, from, m, rest) ==
    LET e == tenders[n][m.id]
        mine == e.rid = m.id
    IN
    /\ net' = rest
    /\ IF Dropped(e, m)
         THEN UNCHANGED <<tables, owed, told, aborted>>
       ELSE IF e.rid = NoId \/ <<e.rid, m.id>> \notin ids[n]
         THEN aborted' = aborted \cup {n} /\ UNCHANGED <<tables, owed, told>>
       ELSE
         /\ SetTender(n, m.id, [e EXCEPT !.prs = @ \cup {from}, !.st = "confirmed"])
         /\ told' = IF mine THEN [told EXCEPT ![m.id] = Append(@, m.cmd)] ELSE told
         /\ owed' = IF mine THEN owed
                     ELSE [owed EXCEPT ![n] = @ \cup {[rid |-> e.rid, id |-> m.id, cmd |-> m.cmd]}]
         /\ UNCHANGED <<ids, timeline, counter, aborted>>

\* Mutant: every answer turns the route of its tender.
TurnsAlways(cmd) == TRUE

\* The messages of a conversation: they come from where the next one goes to.
Turns(cmd) == cmd \in {"offer", "deliver"}

\* bypass_tender_response: the message goes on to the peers of the tender; the
\* sender of an offer or of what is to be delivered takes their place.
Bypass(n, from, m, rest) ==
    LET e == tenders[n][m.id] IN
    IF e.rid # NoId /\ ~IsMultiwinner(m.id)
      THEN aborted' = aborted \cup {n} /\ net' = rest /\ UNCHANGED <<tables, owed, told>>
      ELSE /\ net' = SendTo(rest, n, e.prs, [m EXCEPT !.hop = Before(m.hop)])
           /\ SetTender(n, m.id, [e EXCEPT !.hop = m.hop,
                    !.prs = IF Turns(m.cmd) THEN {from} ELSE @])
           /\ UNCHANGED <<ids, timeline, counter, owed, told, aborted>>

IsNew(n, t) == tenders[n][t] = None

\* process_existing_tender drops a repeated request and what comes for a
\* request the kernel has cleared.
Ignored(n, m) ==
    \/ m.cmd = "request" /\ IgnoresRepeat(m.id)
    \/ tenders[n][m.id].canceled

\* process_existing_tender_data and process_remote_tender
GoesToKernel(n, m) ==
    LET e == tenders[n][m.id]
    IN  e.typ = "internal" \/ (m.cmd = "deliver" /\ e.st = "confirmed")

\* A node handles the next message of a peer.
Receive(from, n) ==
    /\ n \notin aborted /\ from # n
    /\ net[<<from, n>>] # <<>>
    /\ LET m == Head(net[<<from, n>>])
           rest == [net EXCEPT ![<<from, n>>] = Tail(@)]
       IN  \/ IsNew(n, m.id) /\ NewRemote(n, from, m, rest) /\ UNCHANGED <<told, aborted>>
           \/ ~IsNew(n, m.id) /\ Ignored(n, m) /\ net' = rest
              /\ UNCHANGED <<tables, owed, told, aborted>>
           \/ ~IsNew(n, m.id) /\ ~Ignored(n, m)
              /\ IF GoesToKernel(n, m) THEN ToKernel(n, from, m, rest)
                                       ELSE Bypass(n, from, m, rest)
    /\ UNCHANGED <<up, heard, asked, waiting>>

\* handle_link_nack: the link could not reach a peer, the tender ends.
Nack(n) ==
    /\ n \notin aborted
    /\ net[<<n, n>>] # <<>>
    /\ net' = [net EXCEPT ![<<n, n>>] = Tail(@)]
    /\ LET t == Head(net[<<n, n>>]).id IN
        IF IsNew(n, t) THEN UNCHANGED <<tables, told>> ELSE CleanUp(n, t)
    /\ UNCHANGED <<up, owed, heard, asked, waiting, aborted>>

\* handle_expired_tenders: a tender that was idle for too long ends.
Expire(n) ==
    /\ ~Patient
    /\ n \notin aborted
    /\ \E t \in timeline[n] : CleanUp(n, t)
    /\ UNCHANGED <<net, up, owed, heard, asked, waiting, aborted>>

\* A connection breaks; what was not received yet is lost from some point on.
Disconnect(m, n) ==
    /\ <<m, n>> \in up
    /\ Cardinality(up) > 2 * Cardinality(Edge) - 2 * MaxDown
    /\ up' = up \ {<<m, n>>, <<n, m>>}
    /\ \E i \in 0 .. Len(net[<<m, n>>]), j \in 0 .. Len(net[<<n, m>>]) :
        net' = [net EXCEPT ![<<m, n>>] = SubSeq(@, 1, i), ![<<n, m>>] = SubSeq(@, 1, j)]
    /\ UNCHANGED <<tables, kernels, aborted>>

Next ==
    \/ \E t \in Tender : Ask(t) \/ Hear(t)
    \/ \E n \in Node : Reply(n) \/ Nack(n) \/ Expire(n)
    \/ \E m, n \in Node : Receive(m, n) \/ Disconnect(m, n)

\* Routers handle their inputs, kernels answer, idle tenders expire.
Spec ==
    /\ Init /\ [][Next]_vars
    /\ \A n \in Node : WF_vars(Reply(n)) /\ WF_vars(Nack(n)) /\ WF_vars(Expire(n))
    /\ \A t \in Tender : WF_vars(Hear(t))
    /\ \A m, n \in Node : WF_vars(Receive(m, n))
-----------------------------------------------------------------------------
(* Properties *)

\* Every variable has its type.
TypeOK ==
    /\ tenders \in [Node -> [Tender -> Entry \cup {None}]]
    /\ ids \in [Node -> SUBSET (RequestId \X Tender)]
    /\ timeline \in [Node -> SUBSET Tender]
    /\ counter \in [Node -> Nat]
    /\ net \in [Node \X Node -> Seq(Message)]
    /\ up \subseteq Node \X Node
    /\ owed \in [Node -> SUBSET Debt]
    /\ told \in [Tender -> Seq(Command \cup {"cancel"})]
    /\ heard \in [Tender -> Nat]
    /\ asked \subseteq Tender /\ waiting \subseteq asked
    /\ aborted \subseteq Node

\* The three tables agree: m_tenders_timeline, which holds raw pointers into
\* m_tenders, has exactly its entries, and m_id_tenders those that belong to a
\* request, whatever mix of answers, nacks and expirations changes them.
Bookkeeping ==
    \A n \in Node :
        /\ timeline[n] = {t \in Tender : tenders[n][t] # None}
        /\ ids[n] = {<<tenders[n][t].rid, t>> :
                        t \in {u \in timeline[n] : tenders[n][u].rid # NoId}}

\* No interleaving of answers, repeats, nacks and expirations makes one of the
\* assertions of router.cpp and of the kernel's handlers fail.
NoAbort == aborted = {}

\* The kernel that asked is told data at most once and nothing after a cancel,
\* though several holders may answer (send_response_to_kernel).
OneAnswer ==
    \A t \in Tender : Kind[t] = "get" =>
        told[t] \in {<<>>, <<"data">>, <<"cancel">>, <<"data", "cancel">>}

\* Once the kernel has cleared a request its router tells it nothing more
\* about it (is_canceled): no late answer, nack or expiry.
QuietAfterClear ==
    [][\A t \in Tender :
         LET e == tenders[Asker[t]][t]
         IN  e # None /\ e.canceled => told'[t] = told[t]]_vars

\* However connections break, answers get lost or tenders expire on the way,
\* the kernel that asked gets an answer or a cancel and drops its request.
EveryRequestEnds == \A t \in Tender : t \in waiting ~> t \notin waiting

\* With its network intact a request reaches a holder within MAX_HOPS and its
\* answer the kernel that asked, whichever of the copies arrives first.
HolderFound ==
    \A t \in Tender : t \in asked ~> \E k \in DOMAIN told[t] : told[t][k] \in {"data", "receipt"}

\* In an intact network the kernel that saves hears of every copy that is made,
\* until it has heard enough: it counts them (data_copy_count).
EveryCopyReported ==
    \A t \in Tender : Kind[t] = "save" /\ t \in asked ~>
        t \notin waiting \/ Len(told[t]) = Cardinality(Holder[t] \ {Asker[t]})

\* No set of nodes passes an answer round: following the peers of a tender,
\* which a conversation of find_peer may turn, leads to the node that asked.
NoLoops ==
    \A t \in Tender : \A S \in (SUBSET Node) \ {{}} : Kind[t] # "find" =>
        \E n \in S : LET e == tenders[n][t]
                     IN  e = None \/ e.typ = "internal" \/ e.prs \cap S = {}

Linked(p, q) == <<p, q>> \in Edge \/ <<q, p>> \in Edge

\* The nodes to which k connections lead from the asker
Within(t, k) ==
    {n \in Node : \E route \in [0 .. k -> Node] :
        /\ route[0] = Asker[t] /\ route[k] = n
        /\ \A i \in 1 .. k : Linked(route[i - 1], route[i])}

Reach == [t \in Tender |-> UNION {Within(t, k) : k \in 0 .. MaxHops}]

\* router.hpp:427, max hops is the "Maximum hop numbers in the route of the
\* tender"; config.xml:108 lets it be any positive integer.
HopsRespected ==
    \A n \in Node, t \in Tender : tenders[n][t] # None => n \in Reach[t]
=============================================================================
