---------------------------- MODULE RouterProofs ----------------------------
(***************************************************************************)
(* Proofs about Router, for any network, tenders, holders and bounds: the  *)
(* types; that the three tables of a router agree; that no request goes    *)
(* further than MAX_HOPS, unless MAX_HOPS is 1 or a request is one whose   *)
(* repeats are not ignored; that a kernel that gets is answered once,      *)
(* whatever fails; and, where nothing fails, that routes lead home and no  *)
(* assertion fails.                                                        *)
(***************************************************************************)
EXTENDS Router, SequenceTheorems, FiniteSetTheorems, TLAPS

-----------------------------------------------------------------------------
(* The inductive invariant. *)

MessageOf(S) == [cmd : Command, id : S, hop : HopId]

\* Only what was asked for is under way.
NetAsked == net \in [Node \X Node -> Seq(MessageOf(asked))]

OthersType ==
    /\ NetAsked
    /\ up \subseteq Node \X Node /\ \A n \in Node : <<n, n>> \notin up
    /\ owed \in [Node -> SUBSET Debt]
    /\ told \in [Tender -> Seq(Command \cup {"cancel"})]
    /\ heard \in [Tender -> Nat]
    /\ asked \subseteq Tender /\ waiting \subseteq asked
    /\ aborted \subseteq Node

TablesType ==
    /\ tenders \in [Node -> [Tender -> Entry \cup {None}]]
    /\ ids \in [Node -> SUBSET (RequestId \X Tender)]
    /\ timeline \in [Node -> SUBSET Tender]
    /\ counter \in [Node -> Nat]

Known(n, t) == tenders[n][t] # None

\* An entry exists only for what was asked for. Its request is the kernel's own,
\* at the node that asks, or one whose id the router has given out, or none.
EntryOK(n, t) ==
    Known(n, t) =>
        /\ t \in asked
        /\ tenders[n][t].typ = "internal" => tenders[n][t].rid = t
        /\ \/ tenders[n][t].rid = t /\ n = Asker[t]
           \/ tenders[n][t].rid \in Nat /\ tenders[n][t].rid <= counter[n]

\* No two tenders of a node belong to one request.
UniqueIds ==
    \A n \in Node, t, u \in Tender :
        /\ Known(n, t) /\ Known(n, u)
        /\ tenders[n][t].rid = tenders[n][u].rid /\ tenders[n][t].rid # NoId
        => t = u

\* Bookkeeping, pointwise.
Agree(n, t) ==
    /\ t \in timeline[n] <=> Known(n, t)
    /\ \A r \in RequestId :
        <<r, t>> \in ids[n] <=> Known(n, t) /\ r = tenders[n][t].rid /\ r # NoId

TablesOK ==
    /\ TablesType
    /\ \A n \in Node, t \in Tender : EntryOK(n, t) /\ Agree(n, t)
    /\ UniqueIds

RouterInv == TablesOK /\ OthersType

-----------------------------------------------------------------------------
(* Types of the operators. *)

LEMMA HopBefore ==
    ASSUME NEW h \in HopId
    PROVE  Before(h) \in HopId
BY HopAssumption DEF HopId, Before

LEMMA MaxHopsIsHop == MaxHops \in HopId
BY HopAssumption DEF HopId

LEMMA TenderIsNotNumber == \A t \in Tender : t \notin Nat /\ t # NoId /\ t \in RequestId
BY TenderAssumption DEF NoId, RequestId

LEMMA SeqOfMore ==
    ASSUME NEW S, NEW T, S \subseteq T, NEW s \in Seq(S)
    PROVE  s \in Seq(T)
OBVIOUS

LEMMA PostType ==
    ASSUME NEW S, NEW q \in [Node \X Node -> Seq(MessageOf(S))],
           NEW n \in Node, NEW peers, NEW m \in MessageOf(S)
    PROVE  Post(q, n, peers, m) \in [Node \X Node -> Seq(MessageOf(S))]
<1>1. ASSUME NEW c \in Node \X Node
      PROVE  Append(q[c], m) \in Seq(MessageOf(S)) /\ q[c] \in Seq(MessageOf(S))
  OBVIOUS
<1> QED
  BY <1>1 DEF Post

LEMMA NetOfMore ==
    ASSUME NEW S, NEW T, S \subseteq T, NEW q \in [Node \X Node -> Seq(MessageOf(S))]
    PROVE  q \in [Node \X Node -> Seq(MessageOf(T))]
<1>1. MessageOf(S) \subseteq MessageOf(T)
  BY DEF MessageOf
<1>2. \A c \in Node \X Node : q[c] \in Seq(MessageOf(T))
  BY <1>1, SeqOfMore
<1> QED
  BY <1>2

LEMMA LinkType ==
    ASSUME NEW S, NEW q \in [Node \X Node -> Seq(MessageOf(S))],
           NEW n \in Node, NEW peers, NEW m \in MessageOf(S)
    PROVE  /\ Broadcast(q, n, peers, m) \in [Node \X Node -> Seq(MessageOf(S))]
           /\ SendTo(q, n, peers, m) \in [Node \X Node -> Seq(MessageOf(S))]
BY PostType DEF Broadcast, SendTo

\* The pointwise form is the property.
LEMMA TablesGiveBookkeeping == TablesOK => Bookkeeping
<1> SUFFICES ASSUME TablesOK, NEW n \in Node
             PROVE  /\ timeline[n] = {t \in Tender : tenders[n][t] # None}
                    /\ ids[n] = {<<tenders[n][t].rid, t>> :
                                   t \in {u \in timeline[n] : tenders[n][u].rid # NoId}}
  BY DEF Bookkeeping
<1>1. \A t \in Tender : Agree(n, t)
  BY DEF TablesOK
<1>2. timeline[n] = {t \in Tender : tenders[n][t] # None}
  BY <1>1 DEF TablesOK, TablesType, Agree, Known
<1>3. \A t \in Tender : Known(n, t) => tenders[n][t].rid \in RequestId
  BY DEF TablesOK, TablesType, Entry, Known
<1>4. ids[n] \subseteq RequestId \X Tender
  BY DEF TablesOK, TablesType
<1>5. ASSUME NEW x \in ids[n]
      PROVE  x \in {<<tenders[n][t].rid, t>> :
                      t \in {u \in timeline[n] : tenders[n][u].rid # NoId}}
  <2>1. PICK r \in RequestId, t \in Tender : x = <<r, t>>
    BY <1>4
  <2>2. Known(n, t) /\ r = tenders[n][t].rid /\ r # NoId
    BY <1>1, <2>1 DEF Agree
  <2>3. t \in timeline[n]
    BY <1>1, <2>2 DEF Agree
  <2> QED
    BY <2>1, <2>2, <2>3
<1>6. ASSUME NEW t \in timeline[n], tenders[n][t].rid # NoId
      PROVE  <<tenders[n][t].rid, t>> \in ids[n]
  <2>1. t \in Tender /\ Known(n, t)
    BY <1>2 DEF Known
  <2> QED
    BY <1>1, <1>3, <1>6, <2>1 DEF Agree
<1> QED
  BY <1>2, <1>5, <1>6

-----------------------------------------------------------------------------
(* What the steps do to the tables of one node. *)

\* Only asked can have grown.
SameTables == UNCHANGED tables /\ asked \subseteq asked'

LEMMA TablesUntouched ==
    ASSUME TablesOK, SameTables
    PROVE  TablesOK'
BY DEF TablesOK, TablesType, EntryOK, Agree, UniqueIds, Known, SameTables, tables

\* An entry changes but stays with its request.
LEMMA EntryChanged ==
    ASSUME TablesOK, NEW n \in Node, NEW t \in Tender, Known(n, t), NEW e \in Entry,
           e.rid = tenders[n][t].rid, e.typ = tenders[n][t].typ,
           SetTender(n, t, e), UNCHANGED <<ids, timeline, counter, asked>>
    PROVE  TablesOK'
<1> USE NoneAssumption
<1>1. /\ tenders' \in [Node -> [Tender -> Entry \cup {None}]]
      /\ tenders'[n][t] = e
      /\ \A m \in Node, u \in Tender : m # n \/ u # t => tenders'[m][u] = tenders[m][u]
  BY DEF TablesOK, TablesType, SetTender
<1>2. TablesType'
  BY <1>1 DEF TablesOK, TablesType
<1>3. ASSUME NEW m \in Node, NEW u \in Tender
      PROVE  /\ Known(m, u)' <=> Known(m, u)
             /\ Known(m, u) => /\ tenders'[m][u].rid = tenders[m][u].rid
                               /\ tenders'[m][u].typ = tenders[m][u].typ
  BY <1>1 DEF Known
<1>4. ASSUME NEW m \in Node, NEW u \in Tender PROVE EntryOK(m, u)' /\ Agree(m, u)'
  <2>1. EntryOK(m, u) /\ Agree(m, u)
    BY DEF TablesOK
  <2>2. EntryOK(m, u)'
    BY <1>3, <2>1 DEF EntryOK
  <2>3. Agree(m, u)'
    BY <1>3, <2>1 DEF Agree
  <2> QED
    BY <2>2, <2>3
<1>5. UniqueIds'
  BY <1>3 DEF TablesOK, UniqueIds
<1> QED
  BY <1>2, <1>4, <1>5 DEF TablesOK

\* A tender leaves the tables.
LEMMA EntryRemoved ==
    ASSUME TablesOK, NEW n \in Node, NEW t \in Tender, Known(n, t), CleanUpInfo(n, t),
           UNCHANGED asked
    PROVE  TablesOK'
<1>1. /\ tenders' \in [Node -> [Tender -> Entry \cup {None}]]
      /\ tenders'[n][t] = None
      /\ \A m \in Node, u \in Tender : m # n \/ u # t => tenders'[m][u] = tenders[m][u]
  BY DEF TablesOK, TablesType, CleanUpInfo, SetTender
<1>2. TablesType'
  BY <1>1 DEF TablesOK, TablesType, CleanUpInfo
<1>3. ASSUME NEW m \in Node, NEW u \in Tender
      PROVE  /\ Known(m, u)' <=> Known(m, u) /\ (m # n \/ u # t)
             /\ Known(m, u)' => tenders'[m][u] = tenders[m][u]
  BY <1>1 DEF Known
<1>4. /\ timeline' = [timeline EXCEPT ![n] = @ \ {t}]
      /\ ids' = [ids EXCEPT ![n] = {x \in @ : x[1] # tenders[n][t].rid}]
      /\ counter' = counter
  BY DEF CleanUpInfo
<1>5. ASSUME NEW m \in Node, NEW u \in Tender PROVE EntryOK(m, u)' /\ Agree(m, u)'
  <2>1. EntryOK(m, u) /\ Agree(m, u)
    BY DEF TablesOK
  <2>2. EntryOK(m, u)'
    BY <1>3, <1>4, <2>1 DEF EntryOK
  <2>3. u \in timeline'[m] <=> Known(m, u)'
    BY <1>3, <1>4, <2>1 DEF Agree, TablesOK, TablesType
  <2>4. ASSUME NEW r \in RequestId
        PROVE  <<r, u>> \in ids'[m] <=> Known(m, u)' /\ r = tenders'[m][u].rid /\ r # NoId
    <3>1. <<r, u>> \in ids'[m] <=> <<r, u>> \in ids[m] /\ (m = n => r # tenders[n][t].rid)
      BY <1>4 DEF TablesOK, TablesType
    <3>2. <<r, u>> \in ids[m] <=> Known(m, u) /\ r = tenders[m][u].rid /\ r # NoId
      BY <2>1 DEF Agree
    <3>3. m = n /\ u # t /\ Known(m, u) /\ r = tenders[m][u].rid /\ r # NoId
            => r # tenders[n][t].rid
      BY DEF TablesOK, UniqueIds
    <3> QED
      BY <1>3, <3>1, <3>2, <3>3
  <2> QED
    BY <2>2, <2>3, <2>4 DEF Agree
<1>6. UniqueIds'
  BY <1>3 DEF TablesOK, UniqueIds
<1> QED
  BY <1>2, <1>5, <1>6 DEF TablesOK

\* A tender that is passed on no longer belongs to a request.
LEMMA EntryReleased ==
    ASSUME TablesOK, NEW n \in Node, NEW t \in Tender, Known(n, t),
           tenders[n][t].typ = "remote",
           SetTender(n, t, [tenders[n][t] EXCEPT !.rid = NoId]),
           ids' = [ids EXCEPT ![n] = {x \in @ : x[1] # tenders[n][t].rid}],
           UNCHANGED <<timeline, counter, asked>>
    PROVE  TablesOK'
<1> DEFINE e == [tenders[n][t] EXCEPT !.rid = NoId]
<1> USE NoneAssumption
<1>0. e \in Entry /\ e.rid = NoId /\ e.typ = "remote"
  <2>1. tenders[n][t] \in Entry
    BY DEF TablesOK, TablesType, Known
  <2>2. NoId \in RequestId
    BY DEF RequestId, NoId
  <2> QED
    BY <2>1, <2>2 DEF Entry
<1> HIDE DEF e
<1>1. /\ tenders' \in [Node -> [Tender -> Entry \cup {None}]]
      /\ tenders'[n][t] = e
      /\ \A m \in Node, u \in Tender : m # n \/ u # t => tenders'[m][u] = tenders[m][u]
  BY <1>0 DEF TablesOK, TablesType, SetTender, e
<1>2. TablesType'
  BY <1>1 DEF TablesOK, TablesType
<1>3. ASSUME NEW m \in Node, NEW u \in Tender
      PROVE  /\ Known(m, u)' <=> Known(m, u)
             /\ m # n \/ u # t => tenders'[m][u] = tenders[m][u]
  BY <1>0, <1>1 DEF Known
<1>4. ASSUME NEW m \in Node, NEW u \in Tender PROVE EntryOK(m, u)' /\ Agree(m, u)'
  <2>1. EntryOK(m, u) /\ Agree(m, u)
    BY DEF TablesOK
  <2>2. EntryOK(m, u)'
    <3>1. counter[m] \in Nat
      BY DEF TablesOK, TablesType
    <3> QED
      BY <1>0, <1>1, <1>3, <2>1, <3>1 DEF EntryOK, NoId
  <2>3. u \in timeline'[m] <=> Known(m, u)'
    BY <1>3, <2>1 DEF Agree
  <2>4. ASSUME NEW r \in RequestId
        PROVE  <<r, u>> \in ids'[m] <=> Known(m, u)' /\ r = tenders'[m][u].rid /\ r # NoId
    <3>1. <<r, u>> \in ids'[m] <=> <<r, u>> \in ids[m] /\ (m = n => r # tenders[n][t].rid)
      BY DEF TablesOK, TablesType
    <3>2. <<r, u>> \in ids[m] <=> Known(m, u) /\ r = tenders[m][u].rid /\ r # NoId
      BY <2>1 DEF Agree
    <3>3. m = n /\ u # t /\ Known(m, u) /\ r = tenders[m][u].rid /\ r # NoId
            => r # tenders[n][t].rid
      BY DEF TablesOK, UniqueIds
    <3> QED
      BY <1>0, <1>1, <1>3, <3>1, <3>2, <3>3
  <2> QED
    BY <2>2, <2>3, <2>4 DEF Agree
<1>5. UniqueIds'
  BY <1>0, <1>1, <1>3 DEF TablesOK, UniqueIds
<1> QED
  BY <1>2, <1>4, <1>5 DEF TablesOK

\* A tender enters the tables, with a request id no other tender has.
LEMMA EntryAdded ==
    ASSUME TablesOK, NEW n \in Node, NEW t \in Tender, ~Known(n, t), NEW e \in Entry,
           e.rid # NoId,
           \A u \in Tender : Known(n, u) => tenders[n][u].rid # e.rid,
           e.typ = "internal" => e.rid = t,
           SetTender(n, t, e),
           ids' = [ids EXCEPT ![n] = @ \cup {<<e.rid, t>>}],
           timeline' = [timeline EXCEPT ![n] = @ \cup {t}],
           counter' \in [Node -> Nat], \A m \in Node : counter[m] <= counter'[m],
           (e.rid = t /\ n = Asker[t]) \/ (e.rid \in Nat /\ e.rid <= counter'[n]),
           asked \subseteq asked', t \in asked'
    PROVE  TablesOK'
<1> USE NoneAssumption
<1>1. /\ tenders' \in [Node -> [Tender -> Entry \cup {None}]]
      /\ tenders'[n][t] = e
      /\ \A m \in Node, u \in Tender : m # n \/ u # t => tenders'[m][u] = tenders[m][u]
  BY DEF TablesOK, TablesType, SetTender
<1>2. e.rid \in RequestId
  BY DEF Entry
<1>3. TablesType'
  <2>1. <<e.rid, t>> \in RequestId \X Tender
    BY <1>2
  <2>2. ids' \in [Node -> SUBSET (RequestId \X Tender)]
    BY <2>1 DEF TablesOK, TablesType
  <2>3. timeline' \in [Node -> SUBSET Tender]
    BY DEF TablesOK, TablesType
  <2> QED
    BY <1>1, <2>2, <2>3 DEF TablesType
<1>4. ASSUME NEW m \in Node, NEW u \in Tender
      PROVE  /\ Known(m, u)' <=> Known(m, u) \/ (m = n /\ u = t)
             /\ m # n \/ u # t => tenders'[m][u] = tenders[m][u]
  BY <1>1 DEF Known
<1>5. ASSUME NEW m \in Node, NEW u \in Tender PROVE EntryOK(m, u)' /\ Agree(m, u)'
  <2>1. EntryOK(m, u) /\ Agree(m, u)
    BY DEF TablesOK
  <2>2. EntryOK(m, u)'
    <3>1. counter[m] \in Nat /\ counter'[m] \in Nat
      BY DEF TablesOK, TablesType
    <3>2. CASE m = n /\ u = t
      BY <1>1, <3>2 DEF EntryOK
    <3>3. CASE m # n \/ u # t
      <4>1. /\ Known(m, u)' <=> Known(m, u)
            /\ tenders'[m][u] = tenders[m][u]
        BY <1>4, <3>3
      <4>2. tenders[m][u].rid \in Nat /\ tenders[m][u].rid <= counter[m]
              => tenders[m][u].rid <= counter'[m]
        BY <3>1
      <4> QED
        BY <2>1, <4>1, <4>2 DEF EntryOK
    <3> QED
      BY <3>2, <3>3
  <2>3. u \in timeline'[m] <=> Known(m, u)'
    BY <1>4, <2>1 DEF Agree, TablesOK, TablesType
  <2>4. ASSUME NEW r \in RequestId
        PROVE  <<r, u>> \in ids'[m] <=> Known(m, u)' /\ r = tenders'[m][u].rid /\ r # NoId
    <3>1. <<r, u>> \in ids'[m] <=>
            <<r, u>> \in ids[m] \/ (m = n /\ u = t /\ r = e.rid)
      BY DEF TablesOK, TablesType
    <3>2. <<r, u>> \in ids[m] <=> Known(m, u) /\ r = tenders[m][u].rid /\ r # NoId
      BY <2>1 DEF Agree
    <3> QED
      BY <1>1, <1>4, <3>1, <3>2
  <2> QED
    BY <2>2, <2>3, <2>4 DEF Agree
<1>6. UniqueIds'
  BY <1>1, <1>4 DEF TablesOK, UniqueIds
<1> QED
  BY <1>3, <1>5, <1>6 DEF TablesOK

-----------------------------------------------------------------------------
(* What the router does for its kernel. *)

\* What the answers of a kernel leave in order.
KernelSide ==
    /\ TablesOK
    /\ net \in [Node \X Node -> Seq(MessageOf(asked))]
    /\ told \in [Tender -> Seq(Command \cup {"cancel"})]
    /\ aborted \subseteq Node

\* The router keeps its tables when a tender ends.
LEMMA CleanUpKeeps ==
    ASSUME KernelSide, NEW n \in Node, NEW t \in Tender, Known(n, t), CleanUp(n, t),
           UNCHANGED <<net, aborted, asked>>
    PROVE  KernelSide'
<1>1. TablesOK'
  BY EntryRemoved DEF KernelSide, CleanUp
<1>2. told' \in [Tender -> Seq(Command \cup {"cancel"})]
  <2>1. Append(told[t], "cancel") \in Seq(Command \cup {"cancel"})
    BY DEF KernelSide
  <2> QED
    BY <2>1 DEF KernelSide, CleanUp
<1> QED
  BY <1>1, <1>2 DEF KernelSide

LEMMA AbortKeeps ==
    ASSUME KernelSide, NEW n \in Node, Abort(n), UNCHANGED asked
    PROVE  KernelSide'
<1>1. TablesOK'
  BY TablesUntouched DEF KernelSide, Abort, SameTables
<1> QED
  BY <1>1 DEF KernelSide, Abort

LEMMA NothingKeeps ==
    ASSUME KernelSide, Nothing, UNCHANGED asked
    PROVE  KernelSide'
<1>1. TablesOK'
  BY TablesUntouched DEF KernelSide, Nothing, SameTables
<1> QED
  BY <1>1 DEF KernelSide, Nothing

LEMMA ClearKeeps ==
    ASSUME KernelSide, NEW n \in Node, NEW t \in Tender, Known(n, t), ClearRequest(n, t),
           UNCHANGED asked
    PROVE  KernelSide'
<1> DEFINE e == [tenders[n][t] EXCEPT !.canceled = TRUE]
<1>1. tenders[n][t] \in Entry
  BY DEF KernelSide, TablesOK, TablesType, Known
<1>2. e \in Entry /\ e.rid = tenders[n][t].rid /\ e.typ = tenders[n][t].typ
  BY <1>1 DEF Entry
<1>3. SetTender(n, t, e) /\ UNCHANGED <<ids, timeline, counter, net, told, aborted>>
  BY DEF ClearRequest
<1> HIDE DEF e
<1>4. TablesOK'
  BY <1>2, <1>3, EntryChanged DEF KernelSide
<1> QED
  BY <1>3, <1>4 DEF KernelSide

\* An answer is sent, and the state of the tender is confirmed or stays.
LEMMA AnswerSent ==
    ASSUME NEW n, NEW t, NEW cmd, Respond(n, t, cmd)
    PROVE  Abort(n) \/ \E st \in {"confirmed", tenders[n][t].st} : SendData(n, t, cmd, st)
  BY DEF Respond, Transfer, Confirm

LEMMA TransferKeeps ==
    ASSUME KernelSide, NEW n \in Node, NEW t \in Tender, Known(n, t),
           NEW cmd \in Command, Respond(n, t, cmd), UNCHANGED asked
    PROVE  KernelSide'
<1>1. CASE Abort(n)
  BY <1>1, AbortKeeps
<1>2. CASE ~Abort(n)
  <2>0. PICK st \in {"confirmed", tenders[n][t].st} : SendData(n, t, cmd, st)
    BY <1>2, AnswerSent
  <2> DEFINE e == [tenders[n][t] EXCEPT !.st = st, !.hop = MaxHops]
             m == [cmd |-> cmd, id |-> t, hop |-> Before(MaxHops)]
  <2>1. tenders[n][t] \in Entry
    BY DEF KernelSide, TablesOK, TablesType, Known
  <2>2. e \in Entry /\ e.rid = tenders[n][t].rid /\ e.typ = tenders[n][t].typ
    BY <2>1, MaxHopsIsHop DEF Entry
  <2>3. /\ \E p \in tenders[n][t].prs : net' = SendTo(net, n, {p}, m)
        /\ SetTender(n, t, e)
        /\ UNCHANGED <<ids, timeline, counter, told, aborted>>
    BY <2>0 DEF SendData
  <2>4. m \in MessageOf(asked)
    <3>1. t \in asked
      BY DEF KernelSide, TablesOK, EntryOK
    <3> QED
      BY <3>1, MaxHopsIsHop, HopBefore DEF MessageOf
  <2> HIDE DEF e, m
  <2>5. TablesOK'
    BY <2>2, <2>3, EntryChanged DEF KernelSide
  <2>6. net' \in [Node \X Node -> Seq(MessageOf(asked))]
    <3>1. PICK p \in tenders[n][t].prs : net' = SendTo(net, n, {p}, m)
      BY <2>3
    <3>2. SendTo(net, n, {p}, m) \in [Node \X Node -> Seq(MessageOf(asked))]
      BY <2>4, LinkType DEF KernelSide
    <3> QED
      BY <3>1, <3>2
  <2>7. UNCHANGED <<told, aborted>>
    BY <2>3
  <2> QED
    BY <2>5, <2>6, <2>7 DEF KernelSide
<1> QED
  BY <1>1, <1>2

LEMMA RefuseKeeps ==
    ASSUME KernelSide, NEW n \in Node, NEW t \in Tender, Known(n, t), Refuse(n, t),
           UNCHANGED asked
    PROVE  KernelSide'
<1>1. CASE LastHop(tenders[n][t].hop)
  BY <1>1, CleanUpKeeps DEF Refuse
<1>2. CASE ~LastHop(tenders[n][t].hop) /\ Abort(n)
  BY <1>2, AbortKeeps
<1>3. CASE ~LastHop(tenders[n][t].hop) /\ ~Abort(n)
  <2> DEFINE m == [cmd |-> "request", id |-> t, hop |-> Before(tenders[n][t].hop)]
  <2>1. tenders[n][t] \in Entry
    BY DEF KernelSide, TablesOK, TablesType, Known
  <2>2. /\ tenders[n][t].typ = "remote"
        /\ net' = Broadcast(net, n, tenders[n][t].prs, m)
        /\ SetTender(n, t, [tenders[n][t] EXCEPT !.rid = NoId])
        /\ ids' = [ids EXCEPT ![n] = {x \in @ : x[1] # tenders[n][t].rid}]
        /\ UNCHANGED <<timeline, counter, told, aborted>>
    BY <1>3, <2>1 DEF Refuse, Entry
  <2>3. m \in MessageOf(asked)
    <3>1. t \in asked
      BY DEF KernelSide, TablesOK, EntryOK
    <3>2. tenders[n][t].hop \in HopId
      BY <2>1 DEF Entry
    <3> QED
      BY <3>1, <3>2, HopBefore DEF MessageOf, Command
  <2> HIDE DEF m
  <2>4. TablesOK'
    BY <2>2, EntryReleased DEF KernelSide
  <2>5. net' \in [Node \X Node -> Seq(MessageOf(asked))]
    BY <2>2, <2>3, LinkType DEF KernelSide
  <2> QED
    BY <2>2, <2>4, <2>5 DEF KernelSide
<1> QED
  BY <1>1, <1>2, <1>3

-----------------------------------------------------------------------------
(* The steps of the kernels. *)

LEMMA InvGivesKernelSide == RouterInv => KernelSide
BY DEF RouterInv, OthersType, NetAsked, KernelSide

LEMMA AskKeeps ==
    ASSUME RouterInv, NEW t \in Tender, Ask(t)
    PROVE  RouterInv'
<1> DEFINE n == Asker[t]
           e == [rid |-> t, typ |-> "internal", st |-> "announced",
                 prs |-> {}, hop |-> MaxHops, canceled |-> FALSE]
           m == [cmd |-> "request", id |-> t, hop |-> Before(MaxHops)]
<1>1. n \in Node
  BY TenderAssumption
<1>2. e \in Entry /\ e.rid = t /\ e.rid # NoId
  BY MaxHopsIsHop, TenderIsNotNumber DEF Entry
<1>3. m \in MessageOf(asked')
  BY MaxHopsIsHop, HopBefore DEF Ask, MessageOf, Command
<1>4. /\ t \notin asked /\ asked' = asked \cup {t} /\ waiting' = waiting \cup {t}
      /\ SetTender(n, t, e)
      /\ timeline' = [timeline EXCEPT ![n] = @ \cup {t}]
      /\ ids' = [ids EXCEPT ![n] = @ \cup {<<t, t>>}]
      /\ net' = Broadcast(net, n, {}, m)
      /\ UNCHANGED <<counter, up, owed, told, heard, aborted>>
  BY DEF Ask
<1> HIDE DEF n, e, m
<1>5. ~Known(n, t)
  BY <1>1, <1>4 DEF RouterInv, TablesOK, EntryOK
<1>6. ASSUME NEW u \in Tender, Known(n, u) PROVE tenders[n][u].rid # e.rid
  BY <1>1, <1>2, <1>5, <1>6, TenderIsNotNumber DEF RouterInv, TablesOK, EntryOK
<1>7. /\ counter' \in [Node -> Nat] /\ \A k \in Node : counter[k] <= counter'[k]
      /\ n = Asker[t]
  BY <1>4 DEF RouterInv, TablesOK, TablesType, n
<1>8. TablesOK'
  BY <1>1, <1>2, <1>4, <1>5, <1>6, <1>7, EntryAdded DEF RouterInv
<1>9. net' \in [Node \X Node -> Seq(MessageOf(asked'))]
  <2>1. net \in [Node \X Node -> Seq(MessageOf(asked'))]
    BY <1>4, NetOfMore DEF RouterInv, OthersType, NetAsked
  <2> QED
    BY <1>1, <1>3, <1>4, <2>1, LinkType
<1> QED
  BY <1>4, <1>8, <1>9 DEF RouterInv, OthersType, NetAsked

LEMMA AnswerType ==
    ASSUME NEW n \in Node, NEW o \in Debt
    PROVE  Answer(n, o) \in {"receipt", "clear", "refuse", "silence", "offer", "data"}
<1>1. o.cmd \in {"request", "deliver", "clear"}
  BY DEF Debt
<1>2. CASE o.cmd # "request"
  BY <1>1, <1>2 DEF Answer
<1>3. CASE o.cmd = "request" /\ n \notin Holder[o.id]
  BY <1>3 DEF Answer
<1>4. CASE o.cmd = "request" /\ n \in Holder[o.id]
  BY <1>4 DEF Answer
<1> QED
  BY <1>2, <1>3, <1>4

LEMMA ReplyKeeps ==
    ASSUME RouterInv, NEW n \in Node, Reply(n)
    PROVE  RouterInv'
<1>1. PICK o \in owed[n] :
        /\ owed' = [owed EXCEPT ![n] = (@ \ {o}) \cup DebtAfter(o, Answer(n, o))]
        /\ IF Answer(n, o) = "silence" \/ TendersOf(n, o.rid) = {}
             THEN Nothing
             ELSE \E t \in TendersOf(n, o.rid) :
                    CASE Answer(n, o) = "refuse" -> Refuse(n, t)
                      [] Answer(n, o) = "clear" -> ClearRequest(n, t)
                      [] OTHER -> Respond(n, t, Answer(n, o))
  BY DEF Reply
<1>2. UNCHANGED <<up, heard, asked, waiting>>
  BY DEF Reply
<1>3. o \in Debt
  BY DEF RouterInv, OthersType
<1>4. owed' \in [Node -> SUBSET Debt]
  <2>1. DebtAfter(o, Answer(n, o)) \subseteq Debt
    BY <1>3 DEF DebtAfter, Debt
  <2> QED
    BY <1>1, <2>1 DEF RouterInv, OthersType
<1>5. KernelSide
  BY InvGivesKernelSide
<1>6. KernelSide'
  <2>1. CASE Nothing
    BY <1>2, <1>5, <2>1, NothingKeeps
  <2>2. CASE ~Nothing
    <3>1. PICK t \in TendersOf(n, o.rid) :
            /\ Answer(n, o) # "silence"
            /\ CASE Answer(n, o) = "refuse" -> Refuse(n, t)
                 [] Answer(n, o) = "clear" -> ClearRequest(n, t)
                 [] OTHER -> Respond(n, t, Answer(n, o))
      BY <1>1, <2>2
    <3>2. t \in Tender /\ Known(n, t)
      BY DEF TendersOf, Known
    <3>3. CASE Answer(n, o) = "refuse"
      BY <1>2, <1>5, <3>1, <3>2, <3>3, RefuseKeeps
    <3>4. CASE Answer(n, o) = "clear"
      BY <1>2, <1>5, <3>1, <3>2, <3>4, ClearKeeps
    <3>5. CASE Answer(n, o) \notin {"refuse", "clear"}
      <4>1. Respond(n, t, Answer(n, o))
        BY <3>1, <3>5
      <4>2. Answer(n, o) \in Command
        BY <1>3, <3>1, <3>5, AnswerType DEF Command
      <4> QED
        BY <1>2, <1>5, <3>2, <4>1, <4>2, TransferKeeps
    <3> QED
      BY <3>3, <3>4, <3>5
  <2> QED
    BY <2>1, <2>2
<1> QED
  BY <1>2, <1>4, <1>6 DEF KernelSide, RouterInv, OthersType, NetAsked

LEMMA HearKeeps ==
    ASSUME RouterInv, NEW t \in Tender, Hear(t)
    PROVE  RouterInv'
<1> DEFINE n == Asker[t]
<1>1. n \in Node
  BY TenderAssumption
<1>2. /\ heard' = [heard EXCEPT ![t] = @ + 1]
      /\ waiting' \subseteq waiting
      /\ UNCHANGED <<up, owed, asked>>
      /\ \/ Abort(n) \/ Nothing
         \/ TendersOf(n, t) # {} /\ Respond(n, t, "deliver")
         \/ TendersOf(n, t) # {} /\ ClearRequest(n, t)
  BY DEF Hear
<1>3. KernelSide
  BY InvGivesKernelSide
<1>4. TendersOf(n, t) # {} => Known(n, t)
  <2> SUFFICES ASSUME NEW u \in TendersOf(n, t) PROVE Known(n, t)
    OBVIOUS
  <2>1. u \in Tender /\ <<t, u>> \in ids[n] /\ Known(n, u)
    BY DEF TendersOf, Known
  <2>2. tenders[n][u].rid = t
    BY <1>1, <2>1, TenderIsNotNumber DEF RouterInv, TablesOK, Agree
  <2>3. u = t
    BY <1>1, <2>1, <2>2, TenderIsNotNumber DEF RouterInv, TablesOK, EntryOK
  <2> QED
    BY <2>1, <2>3
<1> HIDE DEF n
<1>5. KernelSide'
  <2>1. "deliver" \in Command
    BY DEF Command
  <2> QED
    BY <1>1, <1>2, <1>3, <1>4, <2>1, AbortKeeps, NothingKeeps, TransferKeeps, ClearKeeps
<1>6. heard' \in [Tender -> Nat]
  BY <1>2 DEF RouterInv, OthersType
<1> QED
  BY <1>2, <1>5, <1>6 DEF KernelSide, RouterInv, OthersType, NetAsked

-----------------------------------------------------------------------------
(* The steps of the links. *)

\* The part of the invariant a received message can disturb.
Settled ==
    /\ TablesOK
    /\ owed \in [Node -> SUBSET Debt]
    /\ told \in [Tender -> Seq(Command \cup {"cancel"})]
    /\ net \in [Node \X Node -> Seq(MessageOf(asked))]
    /\ aborted \subseteq Node

LEMMA NewRemoteKeeps ==
    ASSUME Settled, asked \subseteq Tender, NEW n \in Node, NEW from \in Node,
           NEW m \in MessageOf(asked), NEW rest \in [Node \X Node -> Seq(MessageOf(asked))],
           ~Known(n, m.id), NewRemote(n, from, m, rest), UNCHANGED <<told, aborted, asked>>
    PROVE  Settled'
<1>1. CASE m.cmd # "request"
  <2>1. SameTables /\ UNCHANGED owed /\ net' = rest
    BY <1>1 DEF NewRemote, SameTables
  <2> QED
    BY <2>1, TablesUntouched DEF Settled
<1>2. CASE m.cmd = "request"
  <2> DEFINE rid == counter[n] + 1
             e == [rid |-> rid, typ |-> "remote", st |-> "received",
                   prs |-> {from}, hop |-> m.hop, canceled |-> FALSE]
             d == [rid |-> rid, id |-> m.id, cmd |-> "request"]
  <2>1. m.id \in Tender /\ m.id \in asked /\ m.hop \in HopId
    BY DEF MessageOf
  <2>2. counter[n] \in Nat /\ rid \in Nat /\ rid # NoId /\ ~(rid <= counter[n])
    BY DEF Settled, TablesOK, TablesType, NoId
  <2>3. e \in Entry /\ e.rid = rid /\ e.typ = "remote"
    BY <2>1, <2>2 DEF Entry, RequestId
  <2>4. d \in Debt
    BY <2>1, <2>2 DEF Debt, RequestId
  <2>5. /\ SetTender(n, m.id, e)
        /\ counter' = [counter EXCEPT ![n] = rid]
        /\ owed' = [owed EXCEPT ![n] = @ \cup {d}]
        /\ ids' = [ids EXCEPT ![n] = @ \cup {<<rid, m.id>>}]
        /\ timeline' = [timeline EXCEPT ![n] = @ \cup {m.id}]
        /\ \/ net' = rest
           \/ net' = Broadcast(rest, n, {from}, [m EXCEPT !.hop = Before(m.hop)])
    BY <1>2 DEF NewRemote
  <2>6. [m EXCEPT !.hop = Before(m.hop)] \in MessageOf(asked)
    BY <2>1, HopBefore DEF MessageOf
  <2>7. net' \in [Node \X Node -> Seq(MessageOf(asked))]
    <3>1. Broadcast(rest, n, {from}, [m EXCEPT !.hop = Before(m.hop)])
            \in [Node \X Node -> Seq(MessageOf(asked))]
      BY <2>6, LinkType
    <3> QED
      BY <2>5, <3>1
  <2>8. ASSUME NEW u \in Tender, Known(n, u) PROVE tenders[n][u].rid # rid
    <3> HIDE DEF rid
    <3>1. EntryOK(n, u)
      BY DEF Settled, TablesOK
    <3> QED
      BY <2>2, <2>8, <3>1, TenderIsNotNumber DEF EntryOK
  <2>9. /\ counter' \in [Node -> Nat] /\ \A k \in Node : counter[k] <= counter'[k]
        /\ rid <= counter'[n]
    BY <2>2, <2>5 DEF Settled, TablesOK, TablesType
  <2>10. owed' \in [Node -> SUBSET Debt]
    BY <2>4, <2>5 DEF Settled
  <2>11. ~Known(n, m.id) /\ asked \subseteq asked' /\ m.id \in asked'
    BY <2>1
  <2> HIDE DEF rid, e, d
  <2>12. TablesOK'
    BY <2>1, <2>2, <2>3, <2>5, <2>8, <2>9, <2>11, EntryAdded, ZenonT(60) DEF Settled
  <2> QED
    BY <2>7, <2>10, <2>12 DEF Settled
<1> QED
  BY <1>1, <1>2

LEMMA ToKernelKeeps ==
    ASSUME Settled, asked \subseteq Tender, NEW n \in Node, NEW from \in Node,
           NEW m \in MessageOf(asked), NEW rest \in [Node \X Node -> Seq(MessageOf(asked))],
           Known(n, m.id), GoesToKernel(n, m), ToKernel(n, from, m, rest), UNCHANGED asked
    PROVE  Settled'
<1> DEFINE e == tenders[n][m.id]
<1>1. m.id \in Tender /\ m.cmd \in Command
  BY DEF MessageOf
<1>2. e \in Entry
  BY <1>1 DEF Settled, TablesOK, TablesType, Known
<1>3. CASE Dropped(e, m)
  BY <1>3, TablesUntouched DEF ToKernel, Settled, SameTables
<1>4. CASE ~Dropped(e, m) /\ (e.rid = NoId \/ <<e.rid, m.id>> \notin ids[n])
  BY <1>4, TablesUntouched DEF ToKernel, Settled, SameTables
<1>5. CASE ~Dropped(e, m) /\ ~(e.rid = NoId \/ <<e.rid, m.id>> \notin ids[n])
  <2> DEFINE e2 == [e EXCEPT !.prs = @ \cup {from}, !.st = "confirmed"]
             d == [rid |-> e.rid, id |-> m.id, cmd |-> m.cmd]
  <2>1. e2 \in Entry /\ e2.rid = e.rid /\ e2.typ = e.typ
    BY <1>2 DEF Entry
  <2>2. /\ SetTender(n, m.id, e2)
        /\ net' = rest
        /\ told' = IF e.rid = m.id THEN [told EXCEPT ![m.id] = Append(@, m.cmd)] ELSE told
        /\ owed' = IF e.rid = m.id THEN owed ELSE [owed EXCEPT ![n] = @ \cup {d}]
        /\ UNCHANGED <<ids, timeline, counter, aborted>>
    BY <1>5 DEF ToKernel
  <2>3. TablesOK'
    <3> HIDE DEF e2
    <3> QED
      BY <1>1, <2>1, <2>2, EntryChanged DEF Settled
  <2>4. told' \in [Tender -> Seq(Command \cup {"cancel"})]
    <3>1. Append(told[m.id], m.cmd) \in Seq(Command \cup {"cancel"})
      BY <1>1 DEF Settled
    <3> QED
      BY <2>2, <3>1 DEF Settled
  <2>5. owed' \in [Node -> SUBSET Debt]
    <3>1. CASE e.rid = m.id
      BY <2>2, <3>1 DEF Settled
    <3>2. CASE e.rid # m.id
      <4>1. e.typ # "internal"
        BY <1>1, <3>2 DEF Settled, TablesOK, EntryOK
      <4>2. m.cmd = "deliver"
        BY <4>1 DEF GoesToKernel
      <4>3. d \in Debt
        BY <1>1, <1>2, <4>2 DEF Debt, Entry
      <4> QED
        BY <2>2, <3>2, <4>3 DEF Settled
    <3> QED
      BY <3>1, <3>2
  <2>6. net' \in [Node \X Node -> Seq(MessageOf(asked))] /\ UNCHANGED aborted
    BY <2>2
  <2> QED
    BY <2>3, <2>4, <2>5, <2>6 DEF Settled
<1> QED
  BY <1>3, <1>4, <1>5

LEMMA BypassKeeps ==
    ASSUME Settled, asked \subseteq Tender, NEW n \in Node, NEW from \in Node,
           NEW m \in MessageOf(asked), NEW rest \in [Node \X Node -> Seq(MessageOf(asked))],
           Known(n, m.id), Bypass(n, from, m, rest), UNCHANGED asked
    PROVE  Settled'
<1> DEFINE e == tenders[n][m.id]
<1>1. m.id \in Tender /\ m.hop \in HopId
  BY DEF MessageOf
<1>2. e \in Entry
  BY <1>1 DEF Settled, TablesOK, TablesType, Known
<1>3. CASE e.rid # NoId /\ ~IsMultiwinner(m.id)
  <2>1. /\ aborted' = aborted \cup {n} /\ net' = rest
        /\ UNCHANGED <<tables, owed, told>>
    BY <1>3 DEF Bypass
  <2> QED
    BY <2>1, TablesUntouched DEF Settled, SameTables
<1>4. CASE ~(e.rid # NoId /\ ~IsMultiwinner(m.id))
  <2> DEFINE e2 == [e EXCEPT !.hop = m.hop,
                      !.prs = IF Turns(m.cmd) THEN {from} ELSE @]
             m2 == [m EXCEPT !.hop = Before(m.hop)]
  <2>1. e2 \in Entry /\ e2.rid = e.rid /\ e2.typ = e.typ
    BY <1>1, <1>2 DEF Entry
  <2>2. /\ net' = SendTo(rest, n, e.prs, m2)
        /\ SetTender(n, m.id, e2)
        /\ UNCHANGED <<ids, timeline, counter, owed, told, aborted>>
    BY <1>4 DEF Bypass
  <2>3. m2 \in MessageOf(asked)
    BY <1>1, HopBefore DEF MessageOf
  <2> HIDE DEF e2, m2
  <2>4. TablesOK'
    BY <1>1, <2>1, <2>2, EntryChanged DEF Settled
  <2>5. net' \in [Node \X Node -> Seq(MessageOf(asked))]
    <3>1. SendTo(rest, n, e.prs, m2) \in [Node \X Node -> Seq(MessageOf(asked))]
      BY <2>3, LinkType
    <3> QED
      BY <2>2, <3>1
  <2>6. UNCHANGED <<owed, told, aborted>>
    BY <2>2
  <2> QED
    BY <2>4, <2>5, <2>6 DEF Settled
<1> QED
  BY <1>3, <1>4

\* A queue without its head is a queue.
LEMMA Rest ==
    ASSUME NetAsked, NEW c \in Node \X Node, net[c] # <<>>
    PROVE  /\ Head(net[c]) \in MessageOf(asked)
           /\ [net EXCEPT ![c] = Tail(@)] \in [Node \X Node -> Seq(MessageOf(asked))]
<1>1. net[c] \in Seq(MessageOf(asked))
  BY DEF NetAsked
<1>2. Head(net[c]) \in MessageOf(asked) /\ Tail(net[c]) \in Seq(MessageOf(asked))
  BY <1>1
<1> QED
  BY <1>2 DEF NetAsked

LEMMA ReceiveKeeps ==
    ASSUME RouterInv, NEW from \in Node, NEW n \in Node, Receive(from, n)
    PROVE  RouterInv'
<1> DEFINE c == <<from, n>>
           m == Head(net[c])
           rest == [net EXCEPT ![c] = Tail(@)]
<1>1. /\ m \in MessageOf(asked)
      /\ rest \in [Node \X Node -> Seq(MessageOf(asked))]
  BY Rest DEF Receive, RouterInv, OthersType
<1>2. /\ \/ IsNew(n, m.id) /\ NewRemote(n, from, m, rest) /\ UNCHANGED <<told, aborted>>
         \/ ~IsNew(n, m.id) /\ net' = rest /\ UNCHANGED <<tables, owed, told, aborted>>
         \/ ~IsNew(n, m.id) /\ GoesToKernel(n, m) /\ ToKernel(n, from, m, rest)
         \/ ~IsNew(n, m.id) /\ Bypass(n, from, m, rest)
      /\ UNCHANGED <<up, heard, asked, waiting>>
  BY DEF Receive
<1>3. Settled /\ asked \subseteq Tender
  BY DEF RouterInv, OthersType, NetAsked, Settled
<1>4. IsNew(n, m.id) <=> ~Known(n, m.id)
  BY DEF IsNew, Known
<1> HIDE DEF c, m, rest
<1>5. Settled'
  <2>1. CASE IsNew(n, m.id)
    BY <1>1, <1>2, <1>3, <1>4, <2>1, NewRemoteKeeps
  <2>2. CASE net' = rest /\ UNCHANGED <<tables, owed, told, aborted>>
    BY <1>1, <1>2, <1>3, <2>2, TablesUntouched DEF Settled, SameTables
  <2>3. CASE ~IsNew(n, m.id) /\ GoesToKernel(n, m) /\ ToKernel(n, from, m, rest)
    BY <1>1, <1>2, <1>3, <1>4, <2>3, ToKernelKeeps
  <2>4. CASE ~IsNew(n, m.id) /\ Bypass(n, from, m, rest)
    BY <1>1, <1>2, <1>3, <1>4, <2>4, BypassKeeps
  <2> QED
    BY <1>2, <2>1, <2>2, <2>3, <2>4
<1> QED
  BY <1>2, <1>5 DEF Settled, RouterInv, OthersType, NetAsked

LEMMA NackKeeps ==
    ASSUME RouterInv, NEW n \in Node, Nack(n)
    PROVE  RouterInv'
<1> DEFINE t == Head(net[<<n, n>>]).id
<1>1. /\ t \in Tender
      /\ net' \in [Node \X Node -> Seq(MessageOf(asked))]
  <2>1. <<n, n>> \in Node \X Node /\ net[<<n, n>>] # <<>>
    BY DEF Nack
  <2> QED
    BY <2>1, Rest DEF Nack, RouterInv, OthersType, MessageOf
<1>2. /\ IF IsNew(n, t) THEN UNCHANGED <<tables, told>> ELSE CleanUp(n, t)
      /\ UNCHANGED <<up, owed, heard, asked, waiting, aborted>>
  BY DEF Nack
<1> HIDE DEF t
<1>3. /\ TablesOK'
      /\ told' \in [Tender -> Seq(Command \cup {"cancel"})]
  <2>1. CASE IsNew(n, t)
    BY <1>2, <2>1, TablesUntouched DEF RouterInv, OthersType, SameTables
  <2>2. CASE ~IsNew(n, t)
    <3>1. CleanUp(n, t) /\ Known(n, t)
      BY <1>2, <2>2 DEF IsNew, Known
    <3>2. TablesOK'
      BY <1>1, <1>2, <3>1, EntryRemoved DEF RouterInv, CleanUp
    <3>3. Append(told[t], "cancel") \in Seq(Command \cup {"cancel"})
      BY <1>1 DEF RouterInv, OthersType
    <3> QED
      BY <3>1, <3>2, <3>3 DEF RouterInv, OthersType, CleanUp
  <2> QED
    BY <2>1, <2>2
<1> QED
  BY <1>1, <1>2, <1>3 DEF RouterInv, OthersType, NetAsked

LEMMA ExpireKeeps ==
    ASSUME RouterInv, NEW n \in Node, Expire(n)
    PROVE  RouterInv'
<1>1. PICK t \in timeline[n] : CleanUp(n, t)
  BY DEF Expire
<1>2. t \in Tender /\ Known(n, t)
  BY DEF RouterInv, TablesOK, TablesType, Agree
<1>3. UNCHANGED <<net, up, owed, heard, asked, waiting, aborted>>
  BY DEF Expire
<1>4. KernelSide'
  BY <1>1, <1>2, <1>3, InvGivesKernelSide, CleanUpKeeps
<1> QED
  BY <1>3, <1>4 DEF KernelSide, RouterInv, OthersType, NetAsked

LEMMA DisconnectKeeps ==
    ASSUME RouterInv, NEW m \in Node, NEW n \in Node, Disconnect(m, n)
    PROVE  RouterInv'
<1>1. UNCHANGED <<tables, kernels, aborted>> /\ up' \subseteq up
  BY DEF Disconnect
<1>2. PICK i \in 0 .. Len(net[<<m, n>>]), j \in 0 .. Len(net[<<n, m>>]) :
        net' = [net EXCEPT ![<<m, n>>] = SubSeq(@, 1, i), ![<<n, m>>] = SubSeq(@, 1, j)]
  BY DEF Disconnect
<1>3. ASSUME NEW s \in Seq(MessageOf(asked)), NEW k \in 0 .. Len(s)
      PROVE  SubSeq(s, 1, k) \in Seq(MessageOf(asked))
  <2>1. \A x \in 1 .. k : s[x] \in MessageOf(asked)
    OBVIOUS
  <2> QED
    BY <2>1, SubSeqProperties
<1>4. net' \in [Node \X Node -> Seq(MessageOf(asked))]
  <2>1. \A c \in Node \X Node : net[c] \in Seq(MessageOf(asked))
    BY DEF RouterInv, OthersType, NetAsked
  <2>2. <<m, n>> \in Node \X Node /\ <<n, m>> \in Node \X Node
    OBVIOUS
  <2>3. <<m, n>> # <<n, m>>
    BY DEF Disconnect, RouterInv, OthersType
  <2>4. /\ SubSeq(net[<<m, n>>], 1, i) \in Seq(MessageOf(asked))
        /\ SubSeq(net[<<n, m>>], 1, j) \in Seq(MessageOf(asked))
    BY <1>3, <2>1, <2>2
  <2> QED
    BY <1>2, <2>2, <2>3, <2>4 DEF RouterInv, OthersType, NetAsked
<1>5. TablesOK'
  BY <1>1, TablesUntouched DEF RouterInv, SameTables, kernels
<1> QED
  BY <1>1, <1>4, <1>5 DEF RouterInv, OthersType, NetAsked, kernels

-----------------------------------------------------------------------------
(* The theorems. *)

LEMMA InitRouter == Init => RouterInv
<1> SUFFICES ASSUME Init PROVE RouterInv
  OBVIOUS
<1>1. /\ tenders \in [Node -> [Tender -> Entry \cup {None}]]
      /\ \A n \in Node, t \in Tender : ~Known(n, t)
  BY DEF Init, Known
<1>2. TablesType
  BY <1>1 DEF Init, TablesType, NoId
<1>3. \A n \in Node, t \in Tender : EntryOK(n, t) /\ Agree(n, t)
  BY <1>1 DEF Init, EntryOK, Agree
<1>4. TablesOK
  BY <1>1, <1>2, <1>3 DEF TablesOK, UniqueIds
<1>5. /\ net \in [Node \X Node -> Seq(MessageOf(asked))]
      /\ told \in [Tender -> Seq(Command \cup {"cancel"})]
  BY DEF Init
<1>6. up \subseteq Node \X Node /\ \A n \in Node : <<n, n>> \notin up
  BY NodeAssumption DEF Init
<1> QED
  BY <1>4, <1>5, <1>6 DEF Init, RouterInv, OthersType, NetAsked

LEMMA RouterStep == RouterInv /\ [Next]_vars => RouterInv'
<1> SUFFICES ASSUME RouterInv, [Next]_vars PROVE RouterInv'
  OBVIOUS
<1>1. CASE UNCHANGED vars
  <2>1. TablesOK'
    <3>1. UNCHANGED <<tables, asked>>
      BY <1>1 DEF vars, kernels
    <3> QED
      BY <3>1, TablesUntouched DEF RouterInv, SameTables
  <2> QED
    BY <1>1, <2>1 DEF RouterInv, OthersType, NetAsked, vars, kernels
<1>2. CASE Next
  BY <1>2, AskKeeps, HearKeeps, ReplyKeeps, NackKeeps, ExpireKeeps, ReceiveKeeps,
     DisconnectKeeps DEF Next
<1> QED
  BY <1>1, <1>2

\* The types of Router are invariant for any network and tenders.
THEOREM RouterTypeCorrect == Spec => []TypeOK
<1>1. RouterInv => TypeOK
  <2> SUFFICES ASSUME RouterInv PROVE TypeOK
    OBVIOUS
  <2>1. MessageOf(asked) \subseteq Message
    BY DEF RouterInv, OthersType, MessageOf, Message
  <2>2. \A c \in Node \X Node : net[c] \in Seq(Message)
    BY <2>1, SeqOfMore DEF RouterInv, OthersType, NetAsked
  <2> QED
    BY <2>2 DEF RouterInv, TablesOK, TablesType, OthersType, NetAsked, TypeOK
<1> QED
  BY InitRouter, RouterStep, <1>1, PTL DEF Spec

\* In every network m_tenders, m_id_tenders and m_tenders_timeline agree
\* whatever answers, refusals, nacks, expirations and losses change them: the
\* timeline never holds a pointer to a tender that is gone.
THEOREM TablesAgree == Spec => []Bookkeeping
<1>1. RouterInv => Bookkeeping
  BY TablesGiveBookkeeping DEF RouterInv
<1> QED
  BY InitRouter, RouterStep, <1>1, PTL DEF Spec

\* The tender t is one its kernel has cleared.
Cleared(t) == Known(Asker[t], t) /\ tenders[Asker[t]][t].canceled

LEMMA CleanUpIsQuiet ==
    ASSUME RouterInv, NEW n \in Node, NEW u \in Tender, Known(n, u), CleanUp(n, u),
           NEW t \in Tender, Cleared(t)
    PROVE  told'[t] = told[t]
<1>1. CASE u # t \/ ~Cancels(tenders[n][u], u)
  BY <1>1 DEF CleanUp, RouterInv, OthersType
<1>2. CASE u = t /\ Cancels(tenders[n][u], u)
  <2>1. tenders[n][t].rid = t /\ ~tenders[n][t].canceled
    BY <1>2 DEF Cancels
  <2>2. n = Asker[t]
    BY <1>2, <2>1, TenderIsNotNumber DEF RouterInv, TablesOK, EntryOK
  <2> QED
    BY <2>1, <2>2 DEF Cleared
<1> QED
  BY <1>1, <1>2

LEMMA ReceiveIsQuiet ==
    ASSUME RouterInv, NEW from \in Node, NEW n \in Node, Receive(from, n),
           NEW t \in Tender, Cleared(t)
    PROVE  told'[t] = told[t]
<1> DEFINE m == Head(net[<<from, n>>])
           rest == [net EXCEPT ![<<from, n>>] = Tail(@)]
<1>1. m.id \in Tender
  BY Rest DEF Receive, RouterInv, OthersType, MessageOf
<1>2. \/ UNCHANGED told
      \/ ~Ignored(n, m) /\ ~IsNew(n, m.id) /\ ToKernel(n, from, m, rest)
  BY DEF Receive, Bypass
<1> HIDE DEF m, rest
<1>3. CASE ~Ignored(n, m) /\ ~IsNew(n, m.id) /\ ToKernel(n, from, m, rest)
  <2>1. CASE told' = told
    BY <2>1
  <2>2. CASE told' # told
    <3>1. /\ tenders[n][m.id].rid = m.id
          /\ told' = [told EXCEPT ![m.id] = Append(@, m.cmd)]
      BY <1>3, <2>2 DEF ToKernel
    <3>2. CASE m.id # t
      BY <1>1, <3>1, <3>2 DEF RouterInv, OthersType
    <3>3. CASE m.id = t
      <4>1. Known(n, t) /\ ~tenders[n][t].canceled
        BY <1>3, <3>3 DEF Ignored, IsNew, Known
      <4>2. n = Asker[t]
        BY <3>1, <3>3, <4>1, TenderIsNotNumber DEF RouterInv, TablesOK, EntryOK
      <4> QED
        BY <4>1, <4>2 DEF Cleared
    <3> QED
      BY <3>2, <3>3
  <2> QED
    BY <2>1, <2>2
<1> QED
  BY <1>2, <1>3

\* In every network a kernel that has cleared its request hears no more of it,
\* whichever answer, nack or expiry its router still handles.
THEOREM ClearedIsQuiet == Spec => QuietAfterClear
<1>1. ASSUME RouterInv, [Next]_vars, NEW t \in Tender, Cleared(t)
      PROVE  told'[t] = told[t]
  <2>1. CASE UNCHANGED vars
    BY <2>1 DEF vars, kernels
  <2>2. ASSUME NEW u \in Tender, Ask(u) PROVE told'[t] = told[t]
    BY <2>2 DEF Ask
  <2>3. ASSUME NEW u \in Tender, Hear(u) PROVE told'[t] = told[t]
    BY <2>3 DEF Hear, Abort, Nothing, Respond, Transfer, Confirm, SendData, ClearRequest
  <2>4. ASSUME NEW n \in Node, Reply(n) PROVE told'[t] = told[t]
    <3>1. UNCHANGED told \/ \E u \in Tender : Known(n, u) /\ Refuse(n, u)
      BY <2>4 DEF Reply, Abort, Nothing, Respond, Transfer, Confirm, SendData, ClearRequest,
                 TendersOf, Known
    <3>2. ASSUME NEW u \in Tender, Known(n, u), Refuse(n, u) PROVE told'[t] = told[t]
      <4>1. UNCHANGED told \/ CleanUp(n, u)
        BY <3>2 DEF Refuse, Abort
      <4> QED
        BY <1>1, <3>2, <4>1, CleanUpIsQuiet
    <3> QED
      BY <3>1, <3>2
  <2>5. ASSUME NEW n \in Node, Nack(n) PROVE told'[t] = told[t]
    <3>1. Head(net[<<n, n>>]).id \in Tender
      BY <1>1, <2>5, Rest DEF Nack, RouterInv, OthersType, MessageOf
    <3>2. UNCHANGED told \/ (Known(n, Head(net[<<n, n>>]).id) /\ CleanUp(n, Head(net[<<n, n>>]).id))
      BY <2>5 DEF Nack, IsNew, Known
    <3> QED
      BY <1>1, <3>1, <3>2, CleanUpIsQuiet
  <2>6. ASSUME NEW n \in Node, Expire(n) PROVE told'[t] = told[t]
    <3>1. PICK u \in timeline[n] : CleanUp(n, u)
      BY <2>6 DEF Expire
    <3>2. u \in Tender /\ Known(n, u)
      BY <1>1 DEF RouterInv, TablesOK, TablesType, Agree
    <3> QED
      BY <1>1, <3>1, <3>2, CleanUpIsQuiet
  <2>7. ASSUME NEW m \in Node, NEW n \in Node, Receive(m, n) PROVE told'[t] = told[t]
    BY <1>1, <2>7, ReceiveIsQuiet
  <2>8. ASSUME NEW m \in Node, NEW n \in Node, Disconnect(m, n) PROVE told'[t] = told[t]
    BY <2>8 DEF Disconnect, kernels
  <2> QED
    BY <1>1, <2>1, <2>2, <2>3, <2>4, <2>5, <2>6, <2>7, <2>8 DEF Next
<1>2. RouterInv /\ [Next]_vars =>
        [\A t \in Tender :
           LET e == tenders[Asker[t]][t]
           IN  e # None /\ e.canceled => told'[t] = told[t]]_vars
  BY <1>1 DEF Cleared, Known
<1> QED
  BY InitRouter, RouterStep, <1>2, PTL DEF Spec, QuietAfterClear

-----------------------------------------------------------------------------
(* No request goes too far. First: distances. *)

LEMMA HopLess ==
    ASSUME NEW h \in 1 .. MaxHops
    PROVE  Before(h) = h - 1
<1>1. HopWidth \in Nat /\ h \in Nat /\ 1 <= h /\ h < HopWidth
  BY HopAssumption
<1>2. (h + HopWidth - 1) % HopWidth = h - 1
  BY <1>1, SMT
<1> QED
  BY <1>2 DEF Before

LEMMA AskerWithin == \A t \in Tender : Asker[t] \in Within(t, 0)
<1> SUFFICES ASSUME NEW t \in Tender PROVE Asker[t] \in Within(t, 0)
  OBVIOUS
<1> DEFINE route == [i \in 0 .. 0 |-> Asker[t]]
<1>1. Asker[t] \in Node
  BY TenderAssumption
<1>2. route \in [0 .. 0 -> Node] /\ route[0] = Asker[t]
  BY <1>1
<1> HIDE DEF route
<1> QED
  BY <1>1, <1>2 DEF Within

\* One connection more
LEMMA OneFurther ==
    ASSUME NEW t \in Tender, NEW k \in Nat, NEW p \in Within(t, k),
           NEW q \in Node, Linked(p, q)
    PROVE  q \in Within(t, k + 1)
<1>1. PICK route \in [0 .. k -> Node] :
        /\ route[0] = Asker[t] /\ route[k] = p
        /\ \A i \in 1 .. k : Linked(route[i - 1], route[i])
  BY DEF Within
<1> DEFINE longer == [i \in 0 .. k + 1 |-> IF i = k + 1 THEN q ELSE route[i]]
<1>2. /\ longer \in [0 .. k + 1 -> Node]
      /\ longer[0] = Asker[t] /\ longer[k + 1] = q /\ longer[k] = p
      /\ \A i \in 0 .. k : longer[i] = route[i]
  BY <1>1
<1> HIDE DEF longer
<1>3. ASSUME NEW i \in 1 .. k + 1 PROVE Linked(longer[i - 1], longer[i])
  <2>1. CASE i = k + 1
    <3>1. i - 1 = k
      BY <2>1
    <3> QED
      BY <1>2, <2>1, <3>1
  <2>2. CASE i # k + 1
    <3>1. i \in 1 .. k /\ i \in 0 .. k /\ i - 1 \in 0 .. k
      BY <2>2
    <3> QED
      BY <1>1, <1>2, <3>1
  <2> QED
    BY <2>1, <2>2
<1> QED
  BY <1>2, <1>3 DEF Within

-----------------------------------------------------------------------------
(* The inductive invariant of the hops. *)

\* A request with hop_id h may be received by n.
MayHave(n, t, h) == h \in 1 .. MaxHops - 1 /\ n \in Within(t, MaxHops - h)

\* The hop_id of a tender the kernel of its node may still refuse is the one it
\* was received with: only a holder's answer makes the router count anew.
EntryHop(n, t) ==
    LET e == tenders[n][t] IN
    e # None /\ e.rid # NoId /\ e.rid # t /\ n \notin Holder[t] =>
        /\ e.st = "received"
        /\ MayRefuse(t) => MayHave(n, t, e.hop)

EntriesInReach ==
    \A n \in Node, t \in Tender :
        /\ tenders[n][t] # None => n \in Reach[t]
        /\ EntryHop(n, t)

\* No request is on its way to a node that is too far.
QueuesInReach(q) ==
    \A p, n \in Node : p # n => \A i \in 1 .. Len(q[<<p, n>>]) :
        LET m == q[<<p, n>>][i] IN m.cmd = "request" => MayHave(n, m.id, m.hop)

\* What a kernel was handed is about the tender with that request id, if any;
\* more than the request only holders get.
DebtsMatch ==
    \A n \in Node : \A o \in owed[n] :
        /\ o.rid \in Nat \ {NoId} /\ o.rid <= counter[n]
        /\ o.cmd # "request" => n \in Holder[o.id]
        /\ \A u \in Tender : Known(n, u) /\ tenders[n][u].rid = o.rid => u = o.id

ConnectionsLinked == \A p, q \in Node : <<p, q>> \in up => Linked(p, q)

HopInv ==
    /\ RouterInv /\ EntriesInReach /\ QueuesInReach(net)
    /\ DebtsMatch /\ ConnectionsLinked

\* The networks and requests of the theorem
Moderate == MaxHops >= 2 /\ \A t \in Tender : IgnoresRepeat(t)

LEMMA MayHaveInReach ==
    ASSUME NEW n \in Node, NEW t \in Tender, NEW h, MayHave(n, t, h)
    PROVE  n \in Reach[t]
<1>1. MaxHops - h \in 0 .. MaxHops
  BY HopAssumption DEF MayHave
<1> QED
  BY <1>1 DEF MayHave, Reach

LEMMA AskerInReach == \A t \in Tender : Asker[t] \in Reach[t]
<1>1. 0 \in 0 .. MaxHops
  BY HopAssumption
<1> QED
  BY <1>1, AskerWithin DEF Reach

\* The neighbours of a node may have what it passes on.
LEMMA PassedOn ==
    ASSUME NEW n \in Node, NEW t \in Tender, NEW h \in Nat, MayHave(n, t, h), h # 1,
           NEW q \in Node, Linked(n, q)
    PROVE  MayHave(q, t, Before(h))
<1>1. h \in 2 .. MaxHops - 1 /\ MaxHops \in Nat
  BY HopAssumption DEF MayHave
<1>2. Before(h) = h - 1
  BY <1>1, HopLess
<1>3. MaxHops - h \in Nat /\ n \in Within(t, MaxHops - h)
  BY <1>1 DEF MayHave
<1>4. q \in Within(t, (MaxHops - h) + 1)
  BY <1>3, OneFurther
<1>5. (MaxHops - h) + 1 = MaxHops - Before(h) /\ Before(h) \in 1 .. MaxHops - 1
  BY <1>1, <1>2
<1> QED
  BY <1>4, <1>5 DEF MayHave

-----------------------------------------------------------------------------
(* Frames *)

LEMMA HopsPost ==
    ASSUME NEW q \in [Node \X Node -> Seq(Message)], QueuesInReach(q),
           NEW n \in Node, NEW peers, NEW m \in Message,
           \A p \in Node : p \in peers /\ p # n /\ m.cmd = "request" => MayHave(p, m.id, m.hop)
    PROVE  QueuesInReach(Post(q, n, peers, m))
<1> DEFINE r == Post(q, n, peers, m)
<1> SUFFICES ASSUME NEW p \in Node, NEW s \in Node, p # s,
                    NEW i \in 1 .. Len(r[<<p, s>>]), r[<<p, s>>][i].cmd = "request"
             PROVE  MayHave(s, r[<<p, s>>][i].id, r[<<p, s>>][i].hop)
  BY DEF QueuesInReach
<1>1. <<p, s>> \in Node \X Node /\ q[<<p, s>>] \in Seq(Message)
  OBVIOUS
<1>2. r[<<p, s>>] = IF p = n /\ s \in peers THEN Append(q[<<p, s>>], m) ELSE q[<<p, s>>]
  BY <1>1 DEF Post
<1> HIDE DEF r
<1>3. CASE p = n /\ s \in peers
  <2>1. CASE i = Len(q[<<p, s>>]) + 1
    <3>1. r[<<p, s>>][i] = m
      BY <1>1, <1>2, <1>3, <2>1
    <3> QED
      BY <1>3, <3>1
  <2>2. CASE i # Len(q[<<p, s>>]) + 1
    <3>1. i \in 1 .. Len(q[<<p, s>>]) /\ r[<<p, s>>][i] = q[<<p, s>>][i]
      BY <1>1, <1>2, <1>3, <2>2
    <3> QED
      BY <3>1 DEF QueuesInReach
  <2> QED
    BY <2>1, <2>2
<1>4. CASE ~ (p = n /\ s \in peers)
  BY <1>2, <1>4 DEF QueuesInReach
<1> QED
  BY <1>3, <1>4

LEMMA QueuesRest ==
    ASSUME NEW q \in [Node \X Node -> Seq(Message)], QueuesInReach(q),
           NEW c \in Node \X Node, q[c] # <<>>
    PROVE  QueuesInReach([q EXCEPT ![c] = Tail(@)])
<1> DEFINE r == [q EXCEPT ![c] = Tail(@)]
<1> SUFFICES ASSUME NEW p \in Node, NEW s \in Node, p # s,
                    NEW i \in 1 .. Len(r[<<p, s>>]), r[<<p, s>>][i].cmd = "request"
             PROVE  MayHave(s, r[<<p, s>>][i].id, r[<<p, s>>][i].hop)
  BY DEF QueuesInReach
<1>1. <<p, s>> \in Node \X Node /\ q[<<p, s>>] \in Seq(Message)
  OBVIOUS
<1>2. CASE c = <<p, s>>
  <2>1. r[<<p, s>>] = Tail(q[<<p, s>>]) /\ q[<<p, s>>] # <<>>
    BY <1>1, <1>2
  <2> HIDE DEF r
  <2> DEFINE x == q[<<p, s>>]
  <2>2. /\ Len(Tail(x)) = Len(x) - 1 /\ Len(x) \in Nat
        /\ \A j \in 1 .. Len(Tail(x)) : Tail(x)[j] = x[j + 1]
    BY <1>1, <2>1, HeadTailProperties
  <2>3. i \in 1 .. Len(Tail(x)) /\ r[<<p, s>>][i] = Tail(x)[i]
    BY <2>1
  <2>4. i + 1 \in 1 .. Len(x) /\ r[<<p, s>>][i] = x[i + 1]
    BY <2>2, <2>3
  <2> QED
    BY <2>4 DEF QueuesInReach
<1>3. CASE c # <<p, s>>
  <2>1. r[<<p, s>>] = q[<<p, s>>]
    BY <1>1, <1>3
  <2> QED
    BY <2>1 DEF QueuesInReach
<1> QED
  BY <1>2, <1>3

\* An entry changes, or goes.
LEMMA EntrySet ==
    ASSUME TablesType, EntriesInReach, NEW n \in Node, NEW t \in Tender, NEW e,
           SetTender(n, t, e), e # None => n \in Reach[t],
           e # None /\ e.rid # NoId /\ e.rid # t /\ n \notin Holder[t] =>
               e.st = "received" /\ (MayRefuse(t) => MayHave(n, t, e.hop))
    PROVE  EntriesInReach'
<1> SUFFICES ASSUME NEW k \in Node, NEW u \in Tender
             PROVE  (tenders'[k][u] # None => k \in Reach[u]) /\ EntryHop(k, u)'
  BY DEF EntriesInReach
<1>1. tenders'[k][u] = IF k = n /\ u = t THEN e ELSE tenders[k][u]
  BY DEF SetTender, TablesType
<1>2. CASE k = n /\ u = t
  BY <1>1, <1>2 DEF EntryHop
<1>3. CASE ~ (k = n /\ u = t)
  BY <1>1, <1>3 DEF EntryHop, EntriesInReach
<1> QED
  BY <1>2, <1>3

\* A kernel is handed nothing new, except to clear what it has satisfied.
DebtsFromOld ==
    \A k \in Node : \A o \in owed'[k] : \E w \in owed[k] :
        o.rid = w.rid /\ o.id = w.id /\ (o = w \/ k \in Holder[o.id])

LEMMA NoNewDebts == UNCHANGED owed => DebtsFromOld
BY DEF DebtsFromOld

\* An entry keeps its request id, or loses it, or is the kernel's own.
LEMMA HopDebtsSet ==
    ASSUME TablesType, DebtsMatch, NEW n \in Node, NEW t \in Tender, NEW e,
           SetTender(n, t, e), UNCHANGED counter, DebtsFromOld,
           e # None => \/ e.rid = NoId \/ e.rid \notin Nat
                       \/ Known(n, t) /\ e.rid = tenders[n][t].rid
    PROVE  DebtsMatch'
<1> SUFFICES ASSUME NEW k \in Node, NEW o \in owed'[k]
             PROVE  /\ o.rid \in Nat \ {NoId} /\ o.rid <= counter'[k]
                    /\ o.cmd # "request" => k \in Holder[o.id]
                    /\ \A u \in Tender : Known(k, u)' /\ tenders'[k][u].rid = o.rid => u = o.id
  BY DEF DebtsMatch
<1>1. PICK w \in owed[k] : /\ o.rid = w.rid /\ o.id = w.id
                           /\ o = w \/ k \in Holder[o.id]
  BY DEF DebtsFromOld
<1>2. /\ w.rid \in Nat \ {NoId} /\ w.rid <= counter[k]
      /\ w.cmd # "request" => k \in Holder[w.id]
      /\ \A u \in Tender : Known(k, u) /\ tenders[k][u].rid = w.rid => u = w.id
  BY DEF DebtsMatch
<1>3. ASSUME NEW u \in Tender, Known(k, u)', tenders'[k][u].rid = o.rid PROVE u = o.id
  <2>1. tenders'[k][u] = IF k = n /\ u = t THEN e ELSE tenders[k][u]
    BY DEF SetTender, TablesType
  <2> QED
    BY <1>1, <1>2, <1>3, <2>1 DEF Known
<1> QED
  BY <1>1, <1>2, <1>3

LEMMA TablesStay ==
    ASSUME TablesType, EntriesInReach, DebtsMatch, UNCHANGED <<tenders, counter>>, DebtsFromOld
    PROVE  EntriesInReach' /\ DebtsMatch'
<1>1. EntriesInReach'
  BY DEF EntriesInReach, EntryHop
<1>2. DebtsMatch'
  BY DEF DebtsMatch, DebtsFromOld, Known
<1> QED
  BY <1>1, <1>2

-----------------------------------------------------------------------------
(* The operations *)

LEMMA HopTypes ==
    HopInv => /\ TablesType /\ net \in [Node \X Node -> Seq(Message)]
              /\ \A n \in Node, t \in Tender : EntryOK(n, t) /\ Agree(n, t)
              /\ up \subseteq Node \X Node /\ asked \subseteq Tender
<1> SUFFICES ASSUME HopInv
             PROVE  /\ TablesType /\ net \in [Node \X Node -> Seq(Message)]
                    /\ \A n \in Node, t \in Tender : EntryOK(n, t) /\ Agree(n, t)
                    /\ up \subseteq Node \X Node /\ asked \subseteq Tender
  OBVIOUS
<1>1. asked \subseteq Tender /\ net \in [Node \X Node -> Seq(MessageOf(asked))]
  BY DEF HopInv, RouterInv, OthersType, NetAsked
<1>2. net \in [Node \X Node -> Seq(MessageOf(Tender))]
  BY <1>1, NetOfMore
<1>3. MessageOf(Tender) = Message
  BY DEF MessageOf, Message
<1> QED
  BY <1>1, <1>2, <1>3 DEF HopInv, RouterInv, OthersType, TablesOK

\* Messages that are no requests may go anywhere.
LEMMA AnswersPost ==
    ASSUME NEW q \in [Node \X Node -> Seq(Message)], QueuesInReach(q),
           NEW n \in Node, NEW peers, NEW m \in Message, m.cmd # "request"
    PROVE  QueuesInReach(SendTo(q, n, peers, m))
BY HopsPost DEF SendTo

\* A request that a node may have is passed on to its neighbours.
LEMMA RequestsPost ==
    ASSUME ConnectionsLinked, NEW q \in [Node \X Node -> Seq(Message)], QueuesInReach(q),
           NEW n \in Node, NEW except, NEW m \in Message,
           \A p \in Node : Linked(n, p) => MayHave(p, m.id, m.hop)
    PROVE  QueuesInReach(Broadcast(q, n, except, m))
<1> DEFINE peers == IF Connected(n) = {} THEN {n} ELSE Connected(n) \ except
<1>1. \A p \in Node : p \in peers /\ p # n => Linked(n, p)
  BY DEF Connected, ConnectionsLinked
<1> HIDE DEF peers
<1>2. QueuesInReach(Post(q, n, peers, m))
  BY <1>1, HopsPost
<1> QED
  BY <1>2 DEF Broadcast, peers

LEMMA CleanUpHops ==
    ASSUME HopInv, NEW n \in Node, NEW t \in Tender, CleanUp(n, t), DebtsFromOld
    PROVE  EntriesInReach' /\ DebtsMatch'
<1>1. SetTender(n, t, None) /\ UNCHANGED counter
  BY DEF CleanUp, CleanUpInfo
<1>2. TablesType /\ EntriesInReach /\ DebtsMatch
  BY HopTypes DEF HopInv
<1>3. EntriesInReach'
  BY <1>1, <1>2, EntrySet
<1>4. DebtsMatch'
  BY <1>1, <1>2, HopDebtsSet
<1> QED
  BY <1>3, <1>4

\* An entry changes in a way that matters neither to kernel nor to distances.
LEMMA EntryStays ==
    ASSUME HopInv, NEW n \in Node, NEW t \in Tender, Known(n, t), NEW e,
           SetTender(n, t, e), UNCHANGED counter, DebtsFromOld,
           e.rid = tenders[n][t].rid \/ e.rid = NoId,
           \/ n \in Holder[t] \/ e.rid \in {NoId, t}
           \/ e.st = tenders[n][t].st /\ (MayRefuse(t) => e.hop = tenders[n][t].hop)
    PROVE  EntriesInReach' /\ DebtsMatch'
<1>1. TablesType /\ EntriesInReach /\ DebtsMatch
  BY HopTypes DEF HopInv
<1>2. n \in Reach[t] /\ EntryHop(n, t)
  BY <1>1 DEF EntriesInReach, Known
<1>3. EntriesInReach'
  BY <1>1, <1>2, EntrySet DEF EntryHop, Known
<1>4. DebtsMatch'
  BY <1>1, HopDebtsSet
<1> QED
  BY <1>3, <1>4

LEMMA TransferHops ==
    ASSUME HopInv, NEW n \in Node, NEW t \in Tender, Known(n, t),
           NEW cmd \in Command \ {"request"}, Respond(n, t, cmd), DebtsFromOld,
           n \in Holder[t] \/ tenders[n][t].rid \in {NoId, t}
    PROVE  EntriesInReach' /\ DebtsMatch' /\ QueuesInReach(net)'
<1> DEFINE e == tenders[n][t]
           m == [cmd |-> cmd, id |-> t, hop |-> Before(MaxHops)]
<1>1. TablesType /\ EntriesInReach /\ DebtsMatch /\ QueuesInReach(net)
      /\ net \in [Node \X Node -> Seq(Message)]
  BY HopTypes DEF HopInv
<1>2. e \in Entry
  BY <1>1 DEF TablesType, Known, Entry
<1>3. m \in Message /\ m.cmd # "request"
  BY HopBefore, MaxHopsIsHop DEF Message
<1>4. CASE Abort(n)
  <2>1. UNCHANGED <<tenders, counter, net>>
    BY <1>4 DEF Abort, tables
  <2> QED
    BY <1>1, <2>1, TablesStay
<1>5. CASE ~ Abort(n)
  <2>0. PICK st \in {"confirmed", e.st} : SendData(n, t, cmd, st)
    BY <1>5, AnswerSent
  <2> DEFINE e2 == [e EXCEPT !.st = st, !.hop = MaxHops]
  <2>10. e2.rid = e.rid
    BY <1>2 DEF Entry
  <2>1. /\ \E p \in e.prs : net' = SendTo(net, n, {p}, m)
        /\ SetTender(n, t, e2) /\ UNCHANGED counter
    BY <2>0 DEF SendData
  <2> HIDE DEF e2, m
  <2>2. QueuesInReach(net)'
    BY <1>1, <1>3, <2>1, AnswersPost
  <2>3. EntriesInReach' /\ DebtsMatch'
    BY <1>2, <2>1, <2>10, EntryStays
  <2> QED
    BY <2>2, <2>3
<1> QED
  BY <1>4, <1>5

\* A refused request is passed on with one hop less.
LEMMA RefuseHops ==
    ASSUME HopInv, NEW n \in Node, NEW t \in Tender, Known(n, t), Refuse(n, t), DebtsFromOld,
           MayRefuse(t), n \notin Holder[t], tenders[n][t].rid \notin {NoId, t}
    PROVE  EntriesInReach' /\ DebtsMatch' /\ QueuesInReach(net)'
<1> DEFINE e == tenders[n][t]
           e2 == [e EXCEPT !.rid = NoId]
           m == [cmd |-> "request", id |-> t, hop |-> Before(e.hop)]
<1>1. TablesType /\ EntriesInReach /\ DebtsMatch /\ QueuesInReach(net) /\ ConnectionsLinked
      /\ net \in [Node \X Node -> Seq(Message)]
  BY HopTypes DEF HopInv
<1>2. e \in Entry /\ e2.rid = NoId
  BY <1>1 DEF TablesType, Known, Entry
<1>3. MayHave(n, t, e.hop)
  BY <1>1 DEF EntriesInReach, EntryHop, Known
<1>4. CASE LastHop(e.hop)
  <2>1. CleanUp(n, t) /\ UNCHANGED net
    BY <1>4 DEF Refuse
  <2> QED
    BY <1>1, <2>1, CleanUpHops
<1>5. CASE ~ LastHop(e.hop) /\ Abort(n)
  <2>1. UNCHANGED <<tenders, counter, net>>
    BY <1>5 DEF Abort, tables
  <2> QED
    BY <1>1, <2>1, TablesStay
<1>6. CASE ~ LastHop(e.hop) /\ ~ Abort(n)
  <2>1. /\ net' = Broadcast(net, n, e.prs, m)
        /\ SetTender(n, t, e2) /\ UNCHANGED counter
    BY <1>6 DEF Refuse
  <2>2. m \in Message /\ m.id = t /\ m.hop = Before(e.hop)
    BY <1>2, HopBefore DEF Message, Entry, Command
  <2>3. \A p \in Node : Linked(n, p) => MayHave(p, t, Before(e.hop))
    BY <1>2, <1>3, <1>6, PassedOn DEF LastHop, Entry, HopId
  <2> HIDE DEF e2, m
  <2>4. QueuesInReach(net)'
    BY <1>1, <2>1, <2>2, <2>3, RequestsPost
  <2>5. EntriesInReach' /\ DebtsMatch'
    BY <1>2, <2>1, EntryStays
  <2> QED
    BY <2>4, <2>5
<1> QED
  BY <1>4, <1>5, <1>6

-----------------------------------------------------------------------------
(* The steps *)

HopParts == EntriesInReach /\ DebtsMatch /\ QueuesInReach(net) /\ ConnectionsLinked

LEMMA AskHops ==
    ASSUME HopInv, Moderate, NEW t \in Tender, Ask(t)
    PROVE  HopParts'
<1> DEFINE n == Asker[t]
           e == [rid |-> t, typ |-> "internal", st |-> "announced",
                 prs |-> {}, hop |-> MaxHops, canceled |-> FALSE]
           m == [cmd |-> "request", id |-> t, hop |-> Before(MaxHops)]
<1>1. TablesType /\ EntriesInReach /\ DebtsMatch /\ QueuesInReach(net) /\ ConnectionsLinked
      /\ net \in [Node \X Node -> Seq(Message)]
  BY HopTypes DEF HopInv
<1>2. n \in Node /\ n \in Reach[t] /\ n \in Within(t, 0)
  BY TenderAssumption, AskerInReach, AskerWithin
<1>3. e.rid = t /\ t \notin Nat /\ e # None
  <2>1. e \in Entry /\ e.rid = t /\ t \notin Nat
    BY TenderIsNotNumber, MaxHopsIsHop DEF Entry
  <2> QED
    BY <2>1, NoneAssumption
<1>4. m \in Message /\ m.id = t /\ m.hop = Before(MaxHops)
  BY HopBefore, MaxHopsIsHop DEF Message, Command
<1>5. Before(MaxHops) = MaxHops - 1 /\ MaxHops - 1 \in 1 .. MaxHops - 1
      /\ MaxHops - (MaxHops - 1) = 0 + 1
  BY HopAssumption, HopLess DEF Moderate
<1>6. \A p \in Node : Linked(n, p) => MayHave(p, t, Before(MaxHops))
  <2> SUFFICES ASSUME NEW p \in Node, Linked(n, p) PROVE MayHave(p, t, Before(MaxHops))
    OBVIOUS
  <2>1. p \in Within(t, 0 + 1)
    BY <1>2, OneFurther
  <2> QED
    BY <1>5, <2>1 DEF MayHave
<1>7. /\ SetTender(n, t, e) /\ net' = Broadcast(net, n, {}, m)
      /\ UNCHANGED <<counter, owed, up>>
  BY DEF Ask
<1> HIDE DEF n, e, m
<1>8. EntriesInReach'
  BY <1>1, <1>2, <1>3, <1>7, EntrySet
<1>9. DebtsMatch'
  BY <1>1, <1>2, <1>3, <1>7, NoNewDebts, HopDebtsSet
<1>10. QueuesInReach(net)'
  BY <1>1, <1>2, <1>4, <1>6, <1>7, RequestsPost
<1>11. ConnectionsLinked'
  BY <1>1, <1>7 DEF ConnectionsLinked
<1> QED
  BY <1>8, <1>9, <1>10, <1>11 DEF HopParts

\* The tender of a request id a kernel was handed
LEMMA DebtTender ==
    ASSUME HopInv, NEW n \in Node, NEW o \in owed[n], NEW t \in TendersOf(n, o.rid)
    PROVE  /\ t = o.id /\ t \in Tender /\ Known(n, t)
           /\ tenders[n][t].rid \notin {NoId, t}
<1>1. t \in Tender /\ <<o.rid, t>> \in ids[n] /\ Known(n, t)
  BY DEF TendersOf, Known
<1>2. /\ o.rid \in Nat \ {NoId}
      /\ \A u \in Tender : Known(n, u) /\ tenders[n][u].rid = o.rid => u = o.id
  BY DEF HopInv, DebtsMatch
<1>3. Agree(n, t) /\ o.rid \in RequestId
  BY <1>1, <1>2, HopTypes DEF RequestId
<1>4. tenders[n][t].rid = o.rid
  BY <1>1, <1>3 DEF Agree
<1> QED
  BY <1>1, <1>2, <1>4, TenderIsNotNumber

\* Only a holder has more to say than a refusal.
LEMMA AnswerHolder ==
    ASSUME NEW n \in Node, NEW o \in Debt, o.cmd # "request" => n \in Holder[o.id]
    PROVE  /\ Answer(n, o) \in {"refuse", "silence"} \/ n \in Holder[o.id]
           /\ Answer(n, o) = "refuse" => n \notin Holder[o.id] /\ MayRefuse(o.id)
<1>1. o.cmd \in {"request", "deliver", "clear"}
  BY DEF Debt
<1>2. CASE o.cmd # "request"
  BY <1>1, <1>2 DEF Answer
<1>3. CASE o.cmd = "request" /\ n \notin Holder[o.id]
  BY <1>3 DEF Answer
<1>4. CASE o.cmd = "request" /\ n \in Holder[o.id]
  BY <1>4 DEF Answer
<1> QED
  BY <1>2, <1>3, <1>4

LEMMA ReplyHops ==
    ASSUME HopInv, NEW n \in Node, Reply(n)
    PROVE  HopParts'
<1>1. PICK o \in owed[n] :
        /\ owed' = [owed EXCEPT ![n] = (@ \ {o}) \cup DebtAfter(o, Answer(n, o))]
        /\ IF Answer(n, o) = "silence" \/ TendersOf(n, o.rid) = {}
             THEN Nothing
             ELSE \E t \in TendersOf(n, o.rid) :
                    CASE Answer(n, o) = "refuse" -> Refuse(n, t)
                      [] Answer(n, o) = "clear" -> ClearRequest(n, t)
                      [] OTHER -> Respond(n, t, Answer(n, o))
  BY DEF Reply
<1>2. o \in Debt /\ owed \in [Node -> SUBSET Debt]
  BY DEF HopInv, RouterInv, OthersType
<1>3. o.cmd # "request" => n \in Holder[o.id]
  BY DEF HopInv, DebtsMatch
<1>4. TablesType /\ EntriesInReach /\ DebtsMatch /\ QueuesInReach(net) /\ ConnectionsLinked
  BY HopTypes DEF HopInv
<1>5. DebtsFromOld
  <2>1. ASSUME NEW x \in DebtAfter(o, Answer(n, o))
        PROVE  x.rid = o.rid /\ x.id = o.id /\ n \in Holder[o.id]
    <3>1. x = [o EXCEPT !.cmd = "clear"] /\ Answer(n, o) \notin {"refuse", "silence"}
      BY <2>1 DEF DebtAfter
    <3> QED
      BY <1>2, <1>3, <3>1, AnswerHolder DEF Debt
  <2>2. ASSUME NEW k \in Node, NEW x \in owed'[k]
        PROVE  \E w \in owed[k] : x.rid = w.rid /\ x.id = w.id /\ (x = w \/ k \in Holder[x.id])
    <3>1. x \in owed[k] \/ (k = n /\ x \in DebtAfter(o, Answer(n, o)))
      BY <1>1, <1>2
    <3> QED
      BY <2>1, <3>1
  <2> QED
    BY <2>2 DEF DebtsFromOld
<1>6. EntriesInReach' /\ DebtsMatch' /\ QueuesInReach(net)'
  <2>1. CASE Nothing
    <3>1. UNCHANGED <<tenders, counter, net>>
      BY <2>1 DEF Nothing, tables
    <3> QED
      BY <1>4, <1>5, <3>1, TablesStay
  <2>2. CASE ~ Nothing
    <3>1. PICK t \in TendersOf(n, o.rid) :
            /\ Answer(n, o) # "silence"
            /\ CASE Answer(n, o) = "refuse" -> Refuse(n, t)
                 [] Answer(n, o) = "clear" -> ClearRequest(n, t)
                 [] OTHER -> Respond(n, t, Answer(n, o))
      BY <1>1, <2>2
    <3>2. t = o.id /\ t \in Tender /\ Known(n, t) /\ tenders[n][t].rid \notin {NoId, t}
      BY DebtTender
    <3>3. CASE Answer(n, o) = "refuse"
      <4>1. Refuse(n, t) /\ n \notin Holder[t] /\ MayRefuse(t)
        BY <1>2, <1>3, <3>1, <3>2, <3>3, AnswerHolder
      <4> QED
        BY <1>5, <3>2, <4>1, RefuseHops
    <3>4. CASE Answer(n, o) = "clear"
      <4> DEFINE e2 == [tenders[n][t] EXCEPT !.canceled = TRUE]
      <4>1. SetTender(n, t, e2) /\ UNCHANGED <<counter, net>>
        BY <3>1, <3>4 DEF ClearRequest
      <4>2. e2.rid = tenders[n][t].rid /\ n \in Holder[t]
        BY <1>2, <1>3, <1>4, <3>1, <3>2, <3>4, AnswerHolder DEF TablesType, Known, Entry
      <4> HIDE DEF e2
      <4> QED
        BY <1>4, <1>5, <3>2, <4>1, <4>2, EntryStays
    <3>5. CASE Answer(n, o) \notin {"refuse", "clear"}
      <4>1. Respond(n, t, Answer(n, o))
        BY <3>1, <3>5
      <4>2. Answer(n, o) \in Command \ {"request"}
        BY <1>2, <3>1, <3>5, AnswerType DEF Command
      <4>3. n \in Holder[t]
        BY <1>2, <1>3, <3>1, <3>2, <3>5, AnswerHolder
      <4> QED
        BY <1>5, <3>2, <4>1, <4>2, <4>3, TransferHops
    <3> QED
      BY <3>3, <3>4, <3>5
  <2> QED
    BY <2>1, <2>2
<1>7. ConnectionsLinked'
  BY <1>4 DEF Reply, ConnectionsLinked
<1> QED
  BY <1>6, <1>7 DEF HopParts

LEMMA HearHops ==
    ASSUME HopInv, NEW t \in Tender, Hear(t)
    PROVE  HopParts'
<1> DEFINE n == Asker[t]
<1>1. n \in Node /\ t \in RequestId /\ t \notin Nat /\ t # NoId
  BY TenderAssumption, TenderIsNotNumber
<1>2. /\ UNCHANGED <<up, owed>>
      /\ \/ Abort(n) \/ Nothing
         \/ TendersOf(n, t) # {} /\ Respond(n, t, "deliver")
         \/ TendersOf(n, t) # {} /\ ClearRequest(n, t)
  BY DEF Hear
<1>3. TablesType /\ EntriesInReach /\ DebtsMatch /\ QueuesInReach(net) /\ ConnectionsLinked
  BY HopTypes DEF HopInv
<1>4. TendersOf(n, t) # {} => Known(n, t) /\ tenders[n][t].rid = t
  <2> SUFFICES ASSUME NEW u \in TendersOf(n, t) PROVE Known(n, t) /\ tenders[n][t].rid = t
    OBVIOUS
  <2>1. u \in Tender /\ <<t, u>> \in ids[n] /\ Known(n, u) /\ EntryOK(n, u) /\ Agree(n, u)
    BY <1>1, HopTypes DEF TendersOf, Known
  <2> QED
    BY <1>1, <2>1 DEF Agree, EntryOK
<1>5. DebtsFromOld
  BY <1>2, NoNewDebts
<1> HIDE DEF n
<1>6. CASE Abort(n) \/ Nothing
  <2>1. UNCHANGED <<tenders, counter, net>>
    BY <1>6 DEF Abort, Nothing, tables
  <2>2. EntriesInReach' /\ DebtsMatch'
    BY <1>3, <1>5, <2>1, TablesStay
  <2> QED
    BY <1>2, <1>3, <2>1, <2>2 DEF HopParts, ConnectionsLinked
<1>7. CASE TendersOf(n, t) # {} /\ Respond(n, t, "deliver")
  <2>1. "deliver" \in Command \ {"request"}
    BY DEF Command
  <2>2. EntriesInReach' /\ DebtsMatch' /\ QueuesInReach(net)'
    BY <1>1, <1>4, <1>5, <1>7, <2>1, TransferHops
  <2> QED
    BY <1>2, <1>3, <2>2 DEF HopParts, ConnectionsLinked
<1>8. CASE TendersOf(n, t) # {} /\ ClearRequest(n, t)
  <2> DEFINE e2 == [tenders[n][t] EXCEPT !.canceled = TRUE]
  <2>1. SetTender(n, t, e2) /\ UNCHANGED <<counter, net>>
    BY <1>8 DEF ClearRequest
  <2>2. e2.rid = t /\ tenders[n][t].rid = t
    BY <1>1, <1>3, <1>4, <1>8 DEF TablesType, Known, Entry
  <2> HIDE DEF e2
  <2>3. EntriesInReach' /\ DebtsMatch'
    BY <1>1, <1>4, <1>5, <1>8, <2>1, <2>2, EntryStays
  <2> QED
    BY <1>2, <1>3, <2>1, <2>3 DEF HopParts, ConnectionsLinked
<1> QED
  BY <1>2, <1>6, <1>7, <1>8

\* A router that learns of a request has it from a neighbour.
LEMMA NewRemoteHops ==
    ASSUME HopInv, NEW n \in Node, NEW from \in Node, NEW m \in Message,
           NEW rest \in [Node \X Node -> Seq(Message)], QueuesInReach(rest),
           ~ Known(n, m.id), m.cmd = "request" => MayHave(n, m.id, m.hop),
           NewRemote(n, from, m, rest)
    PROVE  EntriesInReach' /\ DebtsMatch' /\ QueuesInReach(net)'
<1>1. TablesType /\ EntriesInReach /\ DebtsMatch /\ ConnectionsLinked
      /\ \A u \in Tender : EntryOK(n, u)
  BY HopTypes DEF HopInv
<1>2. m.id \in Tender /\ m.hop \in HopId
  BY DEF Message
<1>3. CASE m.cmd # "request"
  <2>1. UNCHANGED <<tenders, counter, owed>> /\ net' = rest
    BY <1>3 DEF NewRemote, tables
  <2> QED
    BY <1>1, <2>1, NoNewDebts, TablesStay
<1>4. CASE m.cmd = "request"
  <2> DEFINE rid == counter[n] + 1
             e == [rid |-> rid, typ |-> "remote", st |-> "received",
                   prs |-> {from}, hop |-> m.hop, canceled |-> FALSE]
             d == [rid |-> rid, id |-> m.id, cmd |-> "request"]
             m2 == [m EXCEPT !.hop = Before(m.hop)]
  <2>1. /\ SetTender(n, m.id, e)
        /\ counter' = [counter EXCEPT ![n] = rid]
        /\ owed' = [owed EXCEPT ![n] = @ \cup {d}]
        /\ net' = IF IsMultiwinner(m.id) /\ ~LastHop(m.hop)
                    THEN Broadcast(rest, n, {from}, m2) ELSE rest
    BY <1>4 DEF NewRemote
  <2>2. counter[n] \in Nat /\ rid \in Nat \ {NoId}
    BY <1>1 DEF TablesType, NoId
  <2>3. MayHave(n, m.id, m.hop) /\ n \in Reach[m.id]
    BY <1>2, <1>4, MayHaveInReach
  <2>4. m2 \in Message /\ m2.id = m.id /\ m2.hop = Before(m.hop)
    BY <1>2, HopBefore DEF Message
  <2>5. QueuesInReach(net)'
    <3>1. CASE IsMultiwinner(m.id) /\ ~LastHop(m.hop)
      <4>1. \A p \in Node : Linked(n, p) => MayHave(p, m.id, Before(m.hop))
        BY <1>2, <2>3, <3>1, PassedOn DEF LastHop, HopId
      <4> HIDE DEF m2
      <4> QED
        BY <1>1, <2>1, <2>4, <3>1, <4>1, RequestsPost
    <3>2. CASE ~ (IsMultiwinner(m.id) /\ ~LastHop(m.hop))
      BY <2>1, <3>2
    <3> QED
      BY <3>1, <3>2
  <2>6. EntriesInReach'
    <3>1. e.st = "received" /\ e.hop = m.hop
      OBVIOUS
    <3> HIDE DEF e
    <3> QED
      BY <1>1, <1>2, <2>1, <2>3, <3>1, EntrySet
  <2>7. ASSUME NEW k \in Node, NEW o \in owed'[k]
        PROVE  /\ o.rid \in Nat \ {NoId} /\ o.rid <= counter'[k]
               /\ o.cmd # "request" => k \in Holder[o.id]
               /\ \A u \in Tender : Known(k, u)' /\ tenders'[k][u].rid = o.rid => u = o.id
    <3>1. counter'[k] = IF k = n THEN rid ELSE counter[k]
      BY <1>1, <2>1 DEF TablesType
    <3>2. \A u \in Tender : tenders'[k][u] = IF k = n /\ u = m.id THEN e ELSE tenders[k][u]
      BY <1>1, <1>2, <2>1 DEF SetTender, TablesType
    <3>3. e.rid = rid /\ d.rid = rid /\ d.id = m.id /\ d.cmd = "request"
      OBVIOUS
    <3>4. o \in owed[k] \/ (k = n /\ o = d)
      BY <2>1 DEF HopInv, RouterInv, OthersType
    <3> HIDE DEF e, d
    <3>5. CASE o \in owed[k]
      <4>1. /\ o.rid \in Nat \ {NoId} /\ o.rid <= counter[k]
            /\ o.cmd # "request" => k \in Holder[o.id]
            /\ \A u \in Tender : Known(k, u) /\ tenders[k][u].rid = o.rid => u = o.id
        BY <1>1, <3>5 DEF DebtsMatch
      <4>2. o.rid <= counter'[k] /\ (k = n => o.rid # rid)
        BY <2>2, <3>1, <4>1
      <4> HIDE DEF rid
      <4> QED
        BY <3>2, <3>3, <4>1, <4>2 DEF Known
    <3>6. CASE k = n /\ o = d
      <4>1. ASSUME NEW u \in Tender, Known(k, u)', tenders'[k][u].rid = o.rid PROVE u = o.id
        <5>1. u # m.id => Known(n, u) /\ tenders[n][u].rid = rid
          BY <3>2, <3>3, <3>6, <4>1 DEF Known
        <5>2. Known(n, u) => tenders[n][u].rid # rid
          BY <1>1, <2>2, TenderIsNotNumber DEF EntryOK
        <5> QED
          BY <3>3, <3>6, <5>1, <5>2
      <4> QED
        BY <2>2, <3>1, <3>3, <3>6, <4>1
    <3> QED
      BY <3>4, <3>5, <3>6
  <2> QED
    BY <2>5, <2>6, <2>7 DEF DebtsMatch
<1> QED
  BY <1>3, <1>4

LEMMA ToKernelHops ==
    ASSUME HopInv, NEW n \in Node, NEW from \in Node, NEW m \in Message,
           NEW rest \in [Node \X Node -> Seq(Message)], QueuesInReach(rest),
           Known(n, m.id), GoesToKernel(n, m), ToKernel(n, from, m, rest)
    PROVE  EntriesInReach' /\ DebtsMatch' /\ QueuesInReach(net)'
<1> DEFINE e == tenders[n][m.id]
           e2 == [e EXCEPT !.prs = @ \cup {from}, !.st = "confirmed"]
           d == [rid |-> e.rid, id |-> m.id, cmd |-> m.cmd]
<1>1. TablesType /\ EntriesInReach /\ DebtsMatch /\ EntryOK(n, m.id) /\ EntryHop(n, m.id)
      /\ m.id \in Tender
  <2>1. m.id \in Tender
    BY DEF Message
  <2> QED
    BY <2>1, HopTypes DEF HopInv, EntriesInReach
<1>2. e \in Entry /\ e2.rid = e.rid
  BY <1>1 DEF TablesType, Known, Entry
<1>3. QueuesInReach(net)'
  BY DEF ToKernel
<1>4. CASE UNCHANGED <<tables, owed>>
  BY <1>1, <1>3, <1>4, NoNewDebts, TablesStay DEF tables
<1>5. CASE ~ UNCHANGED <<tables, owed>>
  <2>1. /\ e.rid # NoId /\ SetTender(n, m.id, e2)
        /\ owed' = IF e.rid = m.id THEN owed ELSE [owed EXCEPT ![n] = @ \cup {d}]
        /\ UNCHANGED counter
    BY <1>5 DEF ToKernel
  <2>2. CASE e.rid = m.id
    <3> HIDE DEF e2, d
    <3> QED
      BY <1>1, <1>2, <1>3, <2>1, <2>2, NoNewDebts, EntryStays
  <2>3. CASE e.rid # m.id
    <3>1. e.typ # "internal" /\ m.cmd = "deliver" /\ e.st = "confirmed"
      BY <1>1, <2>3 DEF EntryOK, GoesToKernel
    <3>2. n \in Holder[m.id]
      BY <1>1, <2>1, <2>3, <3>1 DEF EntryHop, Known
    <3>3. e.rid \in Nat \ {NoId} /\ e.rid <= counter[n]
      BY <1>1, <2>1, <2>3 DEF EntryOK
    <3>4. \A k \in Node, u \in Tender :
            tenders'[k][u] = IF k = n /\ u = m.id THEN e2 ELSE tenders[k][u]
      BY <1>1, <2>1 DEF SetTender, TablesType
    <3>5. d.rid = e.rid /\ d.id = m.id
      OBVIOUS
    <3> HIDE DEF e2, d
    <3>6. EntriesInReach'
      BY <1>1, <1>2, <2>1, <3>2, EntrySet DEF EntriesInReach, Known
    <3>7. ASSUME NEW k \in Node, NEW o \in owed'[k]
          PROVE  /\ o.rid \in Nat \ {NoId} /\ o.rid <= counter'[k]
                 /\ o.cmd # "request" => k \in Holder[o.id]
                 /\ \A u \in Tender : Known(k, u)' /\ tenders'[k][u].rid = o.rid => u = o.id
      <4>1. \A u \in Tender : Known(k, u)' => Known(k, u) /\ tenders'[k][u].rid = tenders[k][u].rid
        BY <1>2, <3>4 DEF Known
      <4>2. o \in owed[k] \/ (k = n /\ o = d)
        BY <2>1, <2>3 DEF HopInv, RouterInv, OthersType
      <4>3. CASE o \in owed[k]
        BY <1>1, <2>1, <4>1, <4>3 DEF DebtsMatch
      <4>4. CASE k = n /\ o = d
        <5>1. \A u \in Tender : Known(n, u) /\ tenders[n][u].rid = e.rid => u = m.id
          BY <1>1, <2>1 DEF HopInv, RouterInv, TablesOK, UniqueIds
        <5> QED
          BY <2>1, <3>2, <3>3, <3>5, <4>1, <4>4, <5>1
      <4> QED
        BY <4>2, <4>3, <4>4
    <3> QED
      BY <1>3, <3>6, <3>7 DEF DebtsMatch
  <2> QED
    BY <2>2, <2>3
<1> QED
  BY <1>4, <1>5

\* What is passed on along the route is no request.
LEMMA BypassHops ==
    ASSUME HopInv, NEW n \in Node, NEW from \in Node, NEW m \in Message, m.cmd # "request",
           NEW rest \in [Node \X Node -> Seq(Message)], QueuesInReach(rest),
           Known(n, m.id), Bypass(n, from, m, rest)
    PROVE  EntriesInReach' /\ DebtsMatch' /\ QueuesInReach(net)'
<1> DEFINE e == tenders[n][m.id]
           e2 == [e EXCEPT !.hop = m.hop, !.prs = IF Turns(m.cmd) THEN {from} ELSE @]
           m2 == [m EXCEPT !.hop = Before(m.hop)]
<1>1. TablesType /\ EntriesInReach /\ DebtsMatch /\ m.id \in Tender /\ m.hop \in HopId
  BY HopTypes DEF HopInv, Message
<1>2. e \in Entry /\ e2.rid = e.rid /\ e2.st = e.st
  BY <1>1 DEF TablesType, Known, Entry
<1>3. m2 \in Message /\ m2.cmd # "request"
  BY <1>1, HopBefore DEF Message
<1>4. CASE e.rid # NoId /\ ~IsMultiwinner(m.id)
  <2>1. UNCHANGED <<tenders, counter, owed>> /\ net' = rest
    BY <1>4 DEF Bypass, tables
  <2> QED
    BY <1>1, <2>1, NoNewDebts, TablesStay
<1>5. CASE ~ (e.rid # NoId /\ ~IsMultiwinner(m.id))
  <2>1. /\ net' = SendTo(rest, n, e.prs, m2) /\ SetTender(n, m.id, e2)
        /\ UNCHANGED <<counter, owed>>
    BY <1>5 DEF Bypass
  <2>2. e.rid = NoId \/ ~ MayRefuse(m.id)
    BY <1>5 DEF IsMultiwinner, MayRefuse
  <2> HIDE DEF e2, m2
  <2>3. QueuesInReach(net)'
    BY <1>3, <2>1, AnswersPost
  <2>4. EntriesInReach' /\ DebtsMatch'
    BY <1>1, <1>2, <2>1, <2>2, NoNewDebts, EntryStays
  <2> QED
    BY <2>3, <2>4
<1> QED
  BY <1>4, <1>5

LEMMA ReceiveHops ==
    ASSUME HopInv, Moderate, NEW from \in Node, NEW n \in Node, Receive(from, n)
    PROVE  HopParts'
<1> DEFINE c == <<from, n>>
           m == Head(net[c])
           rest == [net EXCEPT ![c] = Tail(@)]
<1>1. TablesType /\ EntriesInReach /\ DebtsMatch /\ QueuesInReach(net) /\ ConnectionsLinked
      /\ net \in [Node \X Node -> Seq(Message)]
  BY HopTypes DEF HopInv
<1>2. c \in Node \X Node /\ net[c] \in Seq(Message) /\ net[c] # <<>> /\ from # n
  BY <1>1 DEF Receive
<1>3. m \in Message /\ m = net[c][1] /\ 1 \in 1 .. Len(net[c])
      /\ rest \in [Node \X Node -> Seq(Message)]
  <2>1. Tail(net[c]) \in Seq(Message) /\ Head(net[c]) \in Message
    BY <1>2, HeadTailProperties
  <2>2. Head(net[c]) = net[c][1] /\ 1 \in 1 .. Len(net[c])
    BY <1>2
  <2> QED
    BY <1>1, <2>1, <2>2
<1>4. QueuesInReach(rest)
  BY <1>1, <1>2, QueuesRest
<1>5. m.cmd = "request" => MayHave(n, m.id, m.hop)
  BY <1>1, <1>2, <1>3 DEF QueuesInReach
<1>6. /\ \/ IsNew(n, m.id) /\ NewRemote(n, from, m, rest)
         \/ ~IsNew(n, m.id) /\ net' = rest /\ UNCHANGED <<tables, owed>>
         \/ /\ ~IsNew(n, m.id) /\ m.cmd # "request"
            /\ IF GoesToKernel(n, m) THEN ToKernel(n, from, m, rest)
                                     ELSE Bypass(n, from, m, rest)
      /\ UNCHANGED up
  <2>1. m.cmd = "request" => Ignored(n, m)
    BY <1>3 DEF Moderate, Ignored, Message
  <2> QED
    BY <2>1 DEF Receive
<1>7. IsNew(n, m.id) <=> ~Known(n, m.id)
  BY DEF IsNew, Known
<1> HIDE DEF c, m, rest
<1>8. EntriesInReach' /\ DebtsMatch' /\ QueuesInReach(net)'
  <2>1. CASE IsNew(n, m.id) /\ NewRemote(n, from, m, rest)
    BY <1>3, <1>4, <1>5, <1>7, <2>1, NewRemoteHops
  <2>2. CASE net' = rest /\ UNCHANGED <<tables, owed>>
    BY <1>1, <1>4, <2>2, NoNewDebts, TablesStay DEF tables
  <2>3. CASE ~IsNew(n, m.id) /\ m.cmd # "request" /\ GoesToKernel(n, m)
             /\ ToKernel(n, from, m, rest)
    BY <1>3, <1>4, <1>7, <2>3, ToKernelHops
  <2>4. CASE ~IsNew(n, m.id) /\ m.cmd # "request" /\ Bypass(n, from, m, rest)
    BY <1>3, <1>4, <1>7, <2>4, BypassHops
  <2> QED
    BY <1>6, <2>1, <2>2, <2>3, <2>4
<1>9. ConnectionsLinked'
  BY <1>1, <1>6 DEF ConnectionsLinked
<1> QED
  BY <1>8, <1>9 DEF HopParts

LEMMA NackHops ==
    ASSUME HopInv, NEW n \in Node, Nack(n)
    PROVE  HopParts'
<1> DEFINE c == <<n, n>>
           t == Head(net[c]).id
<1>1. TablesType /\ EntriesInReach /\ DebtsMatch /\ QueuesInReach(net) /\ ConnectionsLinked
      /\ net \in [Node \X Node -> Seq(Message)]
  BY HopTypes DEF HopInv
<1>2. c \in Node \X Node /\ net[c] \in Seq(Message) /\ net[c] # <<>>
  BY <1>1 DEF Nack
<1>3. t \in Tender
  <2>1. Head(net[c]) \in Message
    BY <1>2, HeadTailProperties
  <2> QED
    BY <2>1 DEF Message
<1>4. /\ net' = [net EXCEPT ![c] = Tail(@)]
      /\ IF IsNew(n, t) THEN UNCHANGED <<tables, told>> ELSE CleanUp(n, t)
      /\ UNCHANGED <<up, owed>>
  BY DEF Nack
<1> HIDE DEF c, t
<1>5. QueuesInReach(net)'
  BY <1>1, <1>2, <1>4, QueuesRest
<1>6. EntriesInReach' /\ DebtsMatch'
  BY <1>1, <1>3, <1>4, NoNewDebts, TablesStay, CleanUpHops DEF tables
<1> QED
  BY <1>1, <1>4, <1>5, <1>6 DEF HopParts, ConnectionsLinked

LEMMA ExpireHops ==
    ASSUME HopInv, NEW n \in Node, Expire(n)
    PROVE  HopParts'
<1>1. PICK t \in timeline[n] : CleanUp(n, t)
  BY DEF Expire
<1>2. t \in Tender
  BY HopTypes DEF TablesType
<1>3. UNCHANGED <<net, up, owed>>
  BY DEF Expire
<1>4. EntriesInReach' /\ DebtsMatch'
  BY <1>1, <1>2, <1>3, NoNewDebts, CleanUpHops
<1> QED
  BY <1>3, <1>4 DEF HopParts, HopInv, QueuesInReach, ConnectionsLinked

LEMMA DisconnectHops ==
    ASSUME HopInv, NEW m \in Node, NEW n \in Node, Disconnect(m, n)
    PROVE  HopParts'
<1>1. TablesType /\ EntriesInReach /\ DebtsMatch /\ QueuesInReach(net) /\ ConnectionsLinked
      /\ net \in [Node \X Node -> Seq(Message)]
      /\ \A k \in Node : <<k, k>> \notin up
  BY HopTypes DEF HopInv, RouterInv, OthersType
<1>2. UNCHANGED <<tenders, counter, owed>> /\ up' \subseteq up /\ <<m, n>> \in up
  BY DEF Disconnect, tables, kernels
<1>3. PICK i \in 0 .. Len(net[<<m, n>>]), j \in 0 .. Len(net[<<n, m>>]) :
        net' = [net EXCEPT ![<<m, n>>] = SubSeq(@, 1, i), ![<<n, m>>] = SubSeq(@, 1, j)]
  BY DEF Disconnect
<1>4. \A c \in Node \X Node : \A x \in 1 .. Len(net'[c]) :
          x \in 1 .. Len(net[c]) /\ net'[c][x] = net[c][x]
  <2>1. ASSUME NEW s \in Seq(Message), NEW k \in 0 .. Len(s), NEW x \in 1 .. Len(SubSeq(s, 1, k))
        PROVE  x \in 1 .. Len(s) /\ SubSeq(s, 1, k)[x] = s[x]
    <3>1. Len(SubSeq(s, 1, k)) = k /\ x \in 1 .. k
      BY <2>1
    <3>2. x \in Nat /\ 1 <= x /\ x <= k /\ k <= Len(s)
      BY <3>1
    <3> QED
      BY <3>1, <3>2
  <2>2. <<m, n>> # <<n, m>> /\ <<m, n>> \in Node \X Node /\ <<n, m>> \in Node \X Node
    BY <1>1, <1>2
  <2> SUFFICES ASSUME NEW c \in Node \X Node, NEW x \in 1 .. Len(net'[c])
               PROVE  x \in 1 .. Len(net[c]) /\ net'[c][x] = net[c][x]
    OBVIOUS
  <2>3. net[<<m, n>>] \in Seq(Message) /\ net[<<n, m>>] \in Seq(Message)
    BY <1>1, <2>2
  <2>4. CASE c = <<m, n>>
    <3>1. net'[c] = SubSeq(net[c], 1, i)
      BY <1>1, <1>3, <2>2, <2>4
    <3> QED
      BY <2>1, <2>3, <2>4, <3>1
  <2>5. CASE c = <<n, m>>
    <3>1. net'[c] = SubSeq(net[c], 1, j)
      BY <1>1, <1>3, <2>2, <2>5
    <3> QED
      BY <2>1, <2>3, <2>5, <3>1
  <2>6. CASE c # <<m, n>> /\ c # <<n, m>>
    <3>1. net'[c] = net[c]
      BY <1>1, <1>3, <2>6
    <3> QED
      BY <3>1
  <2> QED
    BY <2>4, <2>5, <2>6
<1>5. QueuesInReach(net)'
  BY <1>1, <1>4 DEF QueuesInReach
<1>6. EntriesInReach' /\ DebtsMatch'
  BY <1>1, <1>2, NoNewDebts, TablesStay
<1> QED
  BY <1>1, <1>2, <1>5, <1>6 DEF HopParts, ConnectionsLinked

-----------------------------------------------------------------------------

LEMMA InitHops == Init => HopInv
<1> SUFFICES ASSUME Init PROVE HopInv
  OBVIOUS
<1>1. \A n \in Node, t \in Tender : tenders[n][t] = None
  BY DEF Init
<1>2. EntriesInReach
  BY <1>1 DEF EntriesInReach, EntryHop
<1>3. QueuesInReach(net)
  BY DEF Init, QueuesInReach
<1>4. DebtsMatch
  BY DEF Init, DebtsMatch
<1>5. ConnectionsLinked
  <2> SUFFICES ASSUME NEW p \in Node, NEW q \in Node, <<p, q>> \in up PROVE Linked(p, q)
    BY DEF ConnectionsLinked
  <2>1. CASE <<p, q>> \in Edge
    BY <2>1 DEF Linked
  <2>2. CASE <<p, q>> \notin Edge
    <3>1. PICK e \in Edge : <<p, q>> = <<e[2], e[1]>>
      BY <2>2 DEF Init
    <3>2. e = <<e[1], e[2]>>
      BY NodeAssumption
    <3> QED
      BY <3>1, <3>2 DEF Linked
  <2> QED
    BY <2>1, <2>2
<1> QED
  BY <1>2, <1>3, <1>4, <1>5, InitRouter DEF HopInv

LEMMA HopStep == Moderate /\ HopInv /\ [Next]_vars => HopInv'
<1> SUFFICES ASSUME Moderate, HopInv, [Next]_vars PROVE HopInv'
  OBVIOUS
<1>1. RouterInv'
  BY RouterStep DEF HopInv
<1>2. HopParts'
  <2>1. CASE UNCHANGED vars
    BY <2>1 DEF vars, tables, kernels, HopInv, HopParts, EntriesInReach, EntryHop,
                QueuesInReach, DebtsMatch, ConnectionsLinked, Known
  <2>2. CASE Next
    BY <2>2, AskHops, HearHops, ReplyHops, NackHops, ExpireHops, ReceiveHops,
       DisconnectHops DEF Next
  <2> QED
    BY <2>1, <2>2
<1> QED
  BY <1>1, <1>2 DEF HopInv, HopParts

\* router.hpp:427, "Maximum hop numbers in the route of the tender": however the
\* copies of a request travel, are refused, answered, expire and come back, in
\* any network no router that is further than MAX_HOPS from the asker learns of
\* it, unless MAX_HOPS is 1 or repeats of the request are not ignored.
THEOREM HopsAreRespected == Moderate /\ Spec => []HopsRespected
<1> DEFINE Inv == Moderate /\ HopInv
<1>1. Inv => HopsRespected
  BY DEF HopInv, EntriesInReach, HopsRespected
<1>2. Moderate /\ Init => Inv
  BY InitHops
<1>3. Inv /\ [Next]_vars => Inv'
  BY HopStep DEF Moderate
<1> HIDE DEF Inv
<1> QED
  BY <1>1, <1>2, <1>3, PTL DEF Spec

-----------------------------------------------------------------------------
(* The answers to a get: the inductive invariant. *)

\* A get travels as the request and the data that answer it, in no other message.
GetMessage == {m \in Message : Kind[m.id] = "get" => m.cmd \in {"request", "data"}}
NetOfGets == net \in [Node \X Node -> Seq(GetMessage)]

\* Of a get a kernel is handed the request only, under the id its router has
\* given it.
GetDebts ==
    \A n \in Node : \A o \in owed[n] :
        /\ o.rid \in Nat \ {NoId} /\ o.rid <= counter[n]
        /\ \A u \in Tender : Known(n, u) /\ tenders[n][u].rid = o.rid /\ Kind[u] = "get"
              => o.id = u /\ o.cmd = "request"

\* While the router has the tender of its own kernel, it is confirmed if and only
\* if the kernel was told the data; a cancel comes when it goes.
ToldOf(t) ==
    /\ told[t] \in {<<>>, <<"data">>, <<"cancel">>, <<"data", "cancel">>}
    /\ t \notin asked => told[t] = <<>>
    /\ Known(Asker[t], t) /\ tenders[Asker[t]][t].rid = t =>
          told[t] = IF tenders[Asker[t]][t].st = "confirmed" THEN <<"data">> ELSE <<>>

Told == \A t \in Tender : Kind[t] = "get" => ToldOf(t)

AnswerInv == RouterInv /\ NetOfGets /\ GetDebts /\ Told

LEMMA InvTypes ==
    AnswerInv => /\ TablesType /\ asked \subseteq Tender /\ NetOfGets /\ GetDebts /\ Told
                 /\ owed \in [Node -> SUBSET Debt]
                 /\ told \in [Tender -> Seq(Command \cup {"cancel"})]
                 /\ \A n \in Node, t \in Tender : EntryOK(n, t) /\ Agree(n, t)
                 /\ Asker \in [Tender -> Node]
BY TenderAssumption DEF AnswerInv, RouterInv, OthersType, TablesOK

-----------------------------------------------------------------------------
(* Frames *)

LEMMA TwoLong ==
    ASSUME NEW S, NEW s \in Seq(S), NEW r \in Seq(S), Len(s) = 2, Len(r) = 2,
           s[1] = r[1], s[2] = r[2]
    PROVE  s = r
<1>1. \A i \in 1 .. Len(s) : s[i] = r[i]
  OBVIOUS
<1> QED
  BY <1>1, SeqEqual

LEMMA SecondAppended ==
    ASSUME NEW a, NEW b, NEW s, s = Append(<<a>>, b)
    PROVE  s = <<a, b>>
<1> DEFINE S == {a, b}
           pair == <<a, b>>
<1>1. <<a>> \in Seq(S) /\ Len(<<a>>) = 1 /\ b \in S
  OBVIOUS
<1>2. s \in Seq(S) /\ Len(s) = 2 /\ s[1] = a /\ s[2] = b
  BY <1>1, AppendProperties
<1>3. pair \in Seq(S) /\ Len(pair) = 2 /\ pair[1] = a /\ pair[2] = b
  OBVIOUS
<1> HIDE DEF S, pair
<1>4. s = pair
  BY <1>2, <1>3, TwoLong
<1> QED
  BY <1>4 DEF pair

LEMMA QueuesPost ==
    ASSUME NEW q \in [Node \X Node -> Seq(GetMessage)], NEW n \in Node, NEW peers,
           NEW m \in GetMessage
    PROVE  /\ Broadcast(q, n, peers, m) \in [Node \X Node -> Seq(GetMessage)]
           /\ SendTo(q, n, peers, m) \in [Node \X Node -> Seq(GetMessage)]
<1>1. ASSUME NEW ps PROVE Post(q, n, ps, m) \in [Node \X Node -> Seq(GetMessage)]
  <2>1. ASSUME NEW c \in Node \X Node
        PROVE  Append(q[c], m) \in Seq(GetMessage) /\ q[c] \in Seq(GetMessage)
    OBVIOUS
  <2> QED
    BY <2>1 DEF Post
<1> QED
  BY <1>1 DEF Broadcast, SendTo

\* A kernel is handed nothing new but what it does with other requests than gets.
OwedFromOld ==
    \A k \in Node : \A o \in owed'[k] : \E w \in owed[k] :
        \/ o = w
        \/ o.rid = w.rid /\ o.id = w.id /\ (w.cmd # "request" \/ Kind[w.id] # "get")

LEMMA OwedSame == UNCHANGED owed => OwedFromOld
BY DEF OwedFromOld

\* An entry keeps its request id, or loses it, or is the kernel's own.
LEMMA DebtsSet ==
    ASSUME TablesType, GetDebts, NEW n \in Node, NEW t \in Tender, NEW e,
           SetTender(n, t, e), UNCHANGED counter, OwedFromOld,
           e # None => \/ e.rid = NoId \/ e.rid \notin Nat
                       \/ Known(n, t) /\ e.rid = tenders[n][t].rid
    PROVE  GetDebts'
<1> SUFFICES ASSUME NEW k \in Node, NEW o \in owed'[k]
             PROVE  /\ o.rid \in Nat \ {NoId} /\ o.rid <= counter'[k]
                    /\ \A u \in Tender :
                         Known(k, u)' /\ tenders'[k][u].rid = o.rid /\ Kind[u] = "get"
                           => o.id = u /\ o.cmd = "request"
  BY DEF GetDebts
<1>1. PICK w \in owed[k] :
        \/ o = w
        \/ o.rid = w.rid /\ o.id = w.id /\ (w.cmd # "request" \/ Kind[w.id] # "get")
  BY DEF OwedFromOld
<1>2. /\ w.rid \in Nat \ {NoId} /\ w.rid <= counter[k] /\ o.rid = w.rid /\ o.id = w.id
      /\ \A u \in Tender : Known(k, u) /\ tenders[k][u].rid = w.rid /\ Kind[u] = "get"
            => w.id = u /\ w.cmd = "request"
  BY <1>1 DEF GetDebts
<1>3. ASSUME NEW u \in Tender, Known(k, u)', tenders'[k][u].rid = o.rid, Kind[u] = "get"
      PROVE  o.id = u /\ o.cmd = "request"
  <2>1. tenders'[k][u] = IF k = n /\ u = t THEN e ELSE tenders[k][u]
    BY DEF SetTender, TablesType
  <2>2. Known(k, u) /\ tenders[k][u].rid = w.rid
    BY <1>2, <1>3, <2>1 DEF Known
  <2>3. w.id = u /\ w.cmd = "request"
    BY <1>2, <1>3, <2>2
  <2> QED
    BY <1>1, <1>3, <2>3
<1> QED
  BY <1>2, <1>3

LEMMA DebtsStay ==
    ASSUME TablesType, GetDebts, UNCHANGED <<tenders, counter>>, OwedFromOld
    PROVE  GetDebts'
<1> SUFFICES ASSUME NEW k \in Node, NEW o \in owed'[k]
             PROVE  /\ o.rid \in Nat \ {NoId} /\ o.rid <= counter'[k]
                    /\ \A u \in Tender :
                         Known(k, u)' /\ tenders'[k][u].rid = o.rid /\ Kind[u] = "get"
                           => o.id = u /\ o.cmd = "request"
  BY DEF GetDebts
<1>1. PICK w \in owed[k] :
        \/ o = w
        \/ o.rid = w.rid /\ o.id = w.id /\ (w.cmd # "request" \/ Kind[w.id] # "get")
  BY DEF OwedFromOld
<1>2. /\ w.rid \in Nat \ {NoId} /\ w.rid <= counter[k] /\ o.rid = w.rid /\ o.id = w.id
      /\ \A u \in Tender : Known(k, u) /\ tenders[k][u].rid = w.rid /\ Kind[u] = "get"
            => w.id = u /\ w.cmd = "request"
  BY <1>1 DEF GetDebts
<1> QED
  BY <1>1, <1>2 DEF Known

\* The kernel is told nothing; an entry of its own stays as confirmed as it was.
LEMMA ToldSet ==
    ASSUME TablesType, Told, Asker \in [Tender -> Node],
           NEW n \in Node, NEW t \in Tender, NEW e, SetTender(n, t, e),
           UNCHANGED told, asked \subseteq asked',
           Kind[t] = "get" /\ e # None /\ e.rid = t =>
               /\ Known(n, t) /\ tenders[n][t].rid = t
               /\ e.st = tenders[n][t].st
    PROVE  Told'
<1> SUFFICES ASSUME NEW u \in Tender, Kind[u] = "get" PROVE ToldOf(u)'
  BY DEF Told
<1>1. ToldOf(u)
  BY DEF Told
<1>2. tenders'[Asker[u]][u] = IF Asker[u] = n /\ u = t THEN e ELSE tenders[Asker[u]][u]
  BY DEF SetTender, TablesType
<1> QED
  BY <1>1, <1>2 DEF ToldOf, Known

LEMMA ToldStays ==
    ASSUME Told, UNCHANGED <<tenders, told>>, asked \subseteq asked'
    PROVE  Told'
BY DEF Told, ToldOf, Known

-----------------------------------------------------------------------------
(* The operations *)

LEMMA CleanUpTold ==
    ASSUME AnswerInv, NEW n \in Node, NEW t \in Tender, Known(n, t), CleanUp(n, t),
           UNCHANGED asked, OwedFromOld
    PROVE  GetDebts' /\ Told'
<1>1. SetTender(n, t, None) /\ UNCHANGED counter
  BY DEF CleanUp, CleanUpInfo
<1>2. TablesType /\ GetDebts /\ Told /\ EntryOK(n, t) /\ Asker \in [Tender -> Node]
      /\ told \in [Tender -> Seq(Command \cup {"cancel"})]
  BY InvTypes
<1>3. GetDebts'
  BY <1>1, <1>2, DebtsSet
<1>4. CASE ~ Cancels(tenders[n][t], t)
  <2>1. UNCHANGED told
    BY <1>4 DEF CleanUp
  <2>2. Told'
    BY <1>1, <1>2, <2>1, ToldSet
  <2> QED
    BY <1>3, <2>2
<1>5. CASE Cancels(tenders[n][t], t)
  <2>1. tenders[n][t].rid = t /\ n = Asker[t] /\ t \in asked
    BY <1>2, <1>5, TenderIsNotNumber DEF Cancels, EntryOK
  <2>2. told' = [told EXCEPT ![t] = Append(@, "cancel")]
    BY <1>5 DEF CleanUp
  <2>3. ASSUME NEW u \in Tender, Kind[u] = "get" PROVE ToldOf(u)'
    <3>1. ToldOf(u)
      BY <1>2, <2>3 DEF Told
    <3>2. tenders'[Asker[u]][u] = IF u = t THEN None ELSE tenders[Asker[u]][u]
      BY <1>1, <1>2, <2>1 DEF SetTender, TablesType
    <3>3. CASE u = t
      <4>1. told[t] \in {<<>>, <<"data">>}
        BY <2>1, <3>1, <3>3 DEF ToldOf, Known
      <4>2. told'[t] = Append(told[t], "cancel")
        BY <1>2, <2>2
      <4>3. told[t] = <<>> => Append(told[t], "cancel") = <<"cancel">>
        OBVIOUS
      <4>4. told[t] = <<"data">> => told'[t] = <<"data", "cancel">>
        BY <4>2, SecondAppended
      <4>5. told'[t] \in {<<"cancel">>, <<"data", "cancel">>}
        BY <4>1, <4>2, <4>3, <4>4
      <4>6. ~ Known(Asker[t], t)' /\ t \in asked'
        BY <2>1, <3>2, <3>3 DEF Known
      <4> QED
        BY <3>3, <4>5, <4>6 DEF ToldOf
    <3>4. CASE u # t
      <4>1. told'[u] = told[u]
        BY <1>2, <2>2, <3>4
      <4> QED
        BY <3>1, <3>2, <3>4, <4>1 DEF ToldOf, Known
    <3> QED
      BY <3>3, <3>4
  <2> QED
    BY <1>3, <2>3 DEF Told
<1> QED
  BY <1>4, <1>5

LEMMA TransferTold ==
    ASSUME AnswerInv, NEW n \in Node, NEW t \in Tender, Known(n, t), NEW cmd \in Command,
           Respond(n, t, cmd), UNCHANGED asked, OwedFromOld,
           Kind[t] = "get" => cmd = "data" /\ tenders[n][t].rid # t
    PROVE  NetOfGets' /\ GetDebts' /\ Told'
<1> DEFINE e == tenders[n][t]
           m == [cmd |-> cmd, id |-> t, hop |-> Before(MaxHops)]
<1>1. TablesType /\ NetOfGets /\ GetDebts /\ Told /\ Asker \in [Tender -> Node]
  BY InvTypes
<1>2. e \in Entry
  BY <1>1 DEF TablesType, Known, Entry
<1>3. m \in GetMessage
  BY HopBefore, MaxHopsIsHop DEF GetMessage, Message
<1>4. CASE Abort(n)
  <2>1. UNCHANGED <<tenders, counter, net, told>>
    BY <1>4 DEF Abort, tables
  <2> QED
    BY <1>1, <2>1, DebtsStay, ToldStays DEF NetOfGets
<1>5. CASE ~ Abort(n)
  <2>0. PICK st \in {"confirmed", e.st} : SendData(n, t, cmd, st)
    BY <1>5, AnswerSent
  <2> DEFINE e2 == [e EXCEPT !.st = st, !.hop = MaxHops]
  <2>10. e2.rid = e.rid
    BY <1>2 DEF Entry
  <2>1. /\ \E p \in e.prs : net' = SendTo(net, n, {p}, m)
        /\ SetTender(n, t, e2) /\ UNCHANGED <<counter, told>>
    BY <2>0 DEF SendData
  <2> HIDE DEF e2, m
  <2>2. NetOfGets'
    <3>1. PICK p \in e.prs : net' = SendTo(net, n, {p}, m)
      BY <2>1
    <3>2. SendTo(net, n, {p}, m) \in [Node \X Node -> Seq(GetMessage)]
      BY <1>1, <1>3, QueuesPost DEF NetOfGets
    <3> QED
      BY <3>1, <3>2 DEF NetOfGets
  <2>3. GetDebts'
    BY <1>1, <1>2, <2>1, <2>10, DebtsSet
  <2>4. Told'
    BY <1>1, <1>2, <2>1, <2>10, ToldSet
  <2> QED
    BY <2>2, <2>3, <2>4
<1> QED
  BY <1>4, <1>5

LEMMA RefuseTold ==
    ASSUME AnswerInv, NEW n \in Node, NEW t \in Tender, Known(n, t), Refuse(n, t),
           UNCHANGED asked, OwedFromOld
    PROVE  NetOfGets' /\ GetDebts' /\ Told'
<1> DEFINE e == tenders[n][t]
           e2 == [e EXCEPT !.rid = NoId]
           m == [cmd |-> "request", id |-> t, hop |-> Before(e.hop)]
<1>1. TablesType /\ NetOfGets /\ GetDebts /\ Told /\ Asker \in [Tender -> Node]
  BY InvTypes
<1>2. e \in Entry /\ e2.rid = NoId
  BY <1>1 DEF TablesType, Known, Entry
<1>3. m \in GetMessage
  BY <1>2, HopBefore DEF GetMessage, Message, Command, Entry
<1>4. CASE LastHop(e.hop)
  <2>1. CleanUp(n, t) /\ UNCHANGED net
    BY <1>4 DEF Refuse
  <2> QED
    BY <1>1, <2>1, CleanUpTold DEF NetOfGets
<1>5. CASE ~ LastHop(e.hop) /\ Abort(n)
  <2>1. UNCHANGED <<tenders, counter, net, told>>
    BY <1>5 DEF Abort, tables
  <2> QED
    BY <1>1, <2>1, DebtsStay, ToldStays DEF NetOfGets
<1>6. CASE ~ LastHop(e.hop) /\ ~ Abort(n)
  <2>1. /\ net' = Broadcast(net, n, e.prs, m)
        /\ SetTender(n, t, e2) /\ UNCHANGED <<counter, told>>
    BY <1>6 DEF Refuse
  <2> HIDE DEF e2, m
  <2>2. NetOfGets'
    BY <1>1, <1>3, <2>1, QueuesPost DEF NetOfGets
  <2>3. GetDebts'
    BY <1>1, <1>2, <2>1, DebtsSet
  <2>4. Told'
    BY <1>1, <1>2, <2>1, TenderIsNotNumber, ToldSet
  <2> QED
    BY <2>2, <2>3, <2>4
<1> QED
  BY <1>4, <1>5, <1>6

LEMMA ClearTold ==
    ASSUME AnswerInv, NEW n \in Node, NEW t \in Tender, Known(n, t), ClearRequest(n, t),
           UNCHANGED asked, OwedFromOld
    PROVE  NetOfGets' /\ GetDebts' /\ Told'
<1> DEFINE e == tenders[n][t]
           e2 == [e EXCEPT !.canceled = TRUE]
<1>1. TablesType /\ NetOfGets /\ GetDebts /\ Told /\ Asker \in [Tender -> Node]
  BY InvTypes
<1>2. e \in Entry /\ e2.rid = e.rid /\ e2.st = e.st
  BY <1>1 DEF TablesType, Known, Entry
<1>3. SetTender(n, t, e2) /\ UNCHANGED <<counter, net, told>>
  BY DEF ClearRequest
<1> HIDE DEF e2
<1>4. GetDebts'
  BY <1>1, <1>2, <1>3, DebtsSet
<1>5. Told'
  BY <1>1, <1>2, <1>3, ToldSet
<1> QED
  BY <1>1, <1>3, <1>4, <1>5 DEF NetOfGets

-----------------------------------------------------------------------------
(* The steps *)

AnswerParts == NetOfGets /\ GetDebts /\ Told

LEMMA AskTold ==
    ASSUME AnswerInv, NEW t \in Tender, Ask(t)
    PROVE  AnswerParts'
<1> DEFINE n == Asker[t]
           e == [rid |-> t, typ |-> "internal", st |-> "announced",
                 prs |-> {}, hop |-> MaxHops, canceled |-> FALSE]
           m == [cmd |-> "request", id |-> t, hop |-> Before(MaxHops)]
<1>1. TablesType /\ NetOfGets /\ GetDebts /\ Told /\ Asker \in [Tender -> Node]
  BY InvTypes
<1>2. n \in Node /\ e.rid = t /\ t \notin Nat /\ e.st = "announced"
  BY <1>1, TenderIsNotNumber
<1>3. m \in GetMessage
  BY HopBefore, MaxHopsIsHop DEF GetMessage, Message, Command
<1>4. /\ SetTender(n, t, e) /\ net' = Broadcast(net, n, {}, m)
      /\ t \notin asked /\ asked' = asked \cup {t}
      /\ UNCHANGED <<counter, owed, told>>
  BY DEF Ask
<1> HIDE DEF e, m
<1>5. NetOfGets'
  BY <1>1, <1>2, <1>3, <1>4, QueuesPost DEF NetOfGets
<1>6. GetDebts'
  BY <1>1, <1>2, <1>4, OwedSame, DebtsSet
<1>7. ASSUME NEW u \in Tender, Kind[u] = "get" PROVE ToldOf(u)'
  <2>1. ToldOf(u)
    BY <1>1, <1>7 DEF Told
  <2>2. tenders'[Asker[u]][u] = IF u = t THEN e ELSE tenders[Asker[u]][u]
    BY <1>1, <1>4 DEF SetTender, TablesType
  <2> QED
    BY <1>2, <1>4, <2>1, <2>2 DEF ToldOf, Known
<1> QED
  BY <1>5, <1>6, <1>7 DEF AnswerParts, Told

LEMMA ReplyTold ==
    ASSUME AnswerInv, NEW n \in Node, Reply(n)
    PROVE  AnswerParts'
<1>1. PICK o \in owed[n] :
        /\ owed' = [owed EXCEPT ![n] = (@ \ {o}) \cup DebtAfter(o, Answer(n, o))]
        /\ IF Answer(n, o) = "silence" \/ TendersOf(n, o.rid) = {}
             THEN Nothing
             ELSE \E t \in TendersOf(n, o.rid) :
                    CASE Answer(n, o) = "refuse" -> Refuse(n, t)
                      [] Answer(n, o) = "clear" -> ClearRequest(n, t)
                      [] OTHER -> Respond(n, t, Answer(n, o))
  BY DEF Reply
<1>2. TablesType /\ NetOfGets /\ GetDebts /\ Told /\ owed \in [Node -> SUBSET Debt]
      /\ UNCHANGED asked
  BY InvTypes DEF Reply
<1>3. o \in Debt
  BY <1>2
<1>4. Kind[o.id] = "get" /\ o.cmd = "request" => Answer(n, o) \in {"refuse", "silence", "data"}
  BY DEF Answer
<1>5. OwedFromOld
  <2>1. ASSUME NEW x \in DebtAfter(o, Answer(n, o))
        PROVE  /\ x.rid = o.rid /\ x.id = o.id
               /\ o.cmd # "request" \/ Kind[o.id] # "get"
    <3>1. x = [o EXCEPT !.cmd = "clear"]
          /\ (Answer(n, o) = "receipt" \/ Kind[o.id] = "record")
      BY <2>1 DEF DebtAfter
    <3> QED
      BY <1>3, <1>4, <3>1 DEF Debt
  <2>2. ASSUME NEW k \in Node, NEW x \in owed'[k]
        PROVE  \E w \in owed[k] :
                  \/ x = w
                  \/ x.rid = w.rid /\ x.id = w.id /\ (w.cmd # "request" \/ Kind[w.id] # "get")
    <3>1. x \in owed[k] \/ (k = n /\ x \in DebtAfter(o, Answer(n, o)))
      BY <1>1, <1>2
    <3> QED
      BY <2>1, <3>1
  <2> QED
    BY <2>2 DEF OwedFromOld
<1>6. CASE Nothing
  <2>1. UNCHANGED <<tenders, counter, net, told>>
    BY <1>6 DEF Nothing, tables
  <2> QED
    BY <1>2, <1>5, <2>1, DebtsStay, ToldStays DEF NetOfGets, AnswerParts
<1>7. CASE ~ Nothing
  <2>1. PICK t \in TendersOf(n, o.rid) :
          /\ Answer(n, o) # "silence"
          /\ CASE Answer(n, o) = "refuse" -> Refuse(n, t)
               [] Answer(n, o) = "clear" -> ClearRequest(n, t)
               [] OTHER -> Respond(n, t, Answer(n, o))
    BY <1>1, <1>7
  <2>2. t \in Tender /\ Known(n, t) /\ <<o.rid, t>> \in ids[n]
    BY <2>1 DEF TendersOf, Known
  <2>3. o.rid \in Nat /\ o.rid \in RequestId
    BY <1>2 DEF GetDebts, RequestId
  <2>4. tenders[n][t].rid = o.rid
    BY <2>2, <2>3, InvTypes DEF Agree
  <2>5. Kind[t] = "get" => o.id = t /\ o.cmd = "request"
    BY <1>2, <2>2, <2>4 DEF GetDebts
  <2>6. CASE Answer(n, o) = "refuse"
    BY <1>2, <1>5, <2>1, <2>2, <2>6, RefuseTold DEF AnswerParts
  <2>7. CASE Answer(n, o) = "clear"
    BY <1>2, <1>5, <2>1, <2>2, <2>7, ClearTold DEF AnswerParts
  <2>8. CASE Answer(n, o) \notin {"refuse", "clear"}
    <3>1. Respond(n, t, Answer(n, o)) /\ Answer(n, o) \in Command
      BY <1>3, <2>1, <2>8, AnswerType DEF Command
    <3>2. Kind[t] = "get" => Answer(n, o) = "data" /\ tenders[n][t].rid # t
      BY <1>4, <2>1, <2>2, <2>3, <2>4, <2>5, <2>8, TenderIsNotNumber
    <3> QED
      BY <1>2, <1>5, <2>2, <3>1, <3>2, TransferTold DEF AnswerParts
  <2> QED
    BY <2>6, <2>7, <2>8
<1> QED
  BY <1>6, <1>7

LEMMA HearTold ==
    ASSUME AnswerInv, NEW t \in Tender, Hear(t)
    PROVE  AnswerParts'
<1> DEFINE n == Asker[t]
<1>1. n \in Node /\ t \in RequestId /\ t \notin Nat /\ t # NoId
  BY InvTypes, TenderIsNotNumber
<1>2. /\ UNCHANGED <<owed, asked>>
      /\ \/ Abort(n) \/ Nothing
         \/ TendersOf(n, t) # {} /\ Respond(n, t, "deliver")
            /\ heard[t] < Len(told[t]) /\ told[t][heard[t] + 1] = "offer"
         \/ TendersOf(n, t) # {} /\ ClearRequest(n, t)
  BY DEF Hear
<1>3. TablesType /\ NetOfGets /\ GetDebts /\ Told
  BY InvTypes
<1>4. TendersOf(n, t) # {} => Known(n, t)
  <2> SUFFICES ASSUME NEW u \in TendersOf(n, t) PROVE Known(n, t)
    OBVIOUS
  <2>1. u \in Tender /\ <<t, u>> \in ids[n] /\ Known(n, u) /\ EntryOK(n, u) /\ Agree(n, u)
    BY <1>1, InvTypes DEF TendersOf, Known
  <2> QED
    BY <1>1, <2>1 DEF Agree, EntryOK
<1>5. OwedFromOld
  BY <1>2, OwedSame
<1> HIDE DEF n
<1>6. CASE Abort(n) \/ Nothing
  <2>1. UNCHANGED <<tenders, counter, net, told>>
    BY <1>6 DEF Abort, Nothing, tables
  <2> QED
    BY <1>2, <1>3, <1>5, <2>1, DebtsStay, ToldStays DEF NetOfGets, AnswerParts
<1>7. CASE /\ TendersOf(n, t) # {} /\ Respond(n, t, "deliver")
           /\ heard[t] < Len(told[t]) /\ told[t][heard[t] + 1] = "offer"
  <2>1. "deliver" \in Command
    BY DEF Command
  <2>2. Kind[t] # "get"
    <3> SUFFICES ASSUME Kind[t] = "get" PROVE FALSE
      OBVIOUS
    <3>1. told[t] \in {<<>>, <<"data">>, <<"cancel">>, <<"data", "cancel">>}
      BY <1>3 DEF Told, ToldOf
    <3>2. heard[t] \in Nat /\ heard[t] + 1 \in 1 .. Len(told[t])
      <4>1. heard[t] \in Nat
        BY DEF AnswerInv, RouterInv, OthersType
      <4>2. Len(told[t]) \in Nat
        BY <3>1
      <4> QED
        BY <1>7, <4>1, <4>2
    <3>3. \A i \in 1 .. Len(told[t]) : told[t][i] \in {"data", "cancel"}
      BY <3>1
    <3> QED
      BY <1>7, <3>2, <3>3
  <2> QED
    BY <1>1, <1>2, <1>4, <1>5, <1>7, <2>1, <2>2, TransferTold DEF AnswerParts
<1>8. CASE TendersOf(n, t) # {} /\ ClearRequest(n, t)
  BY <1>1, <1>2, <1>4, <1>5, <1>8, ClearTold DEF AnswerParts
<1> QED
  BY <1>2, <1>6, <1>7, <1>8

LEMMA NewRemoteTold ==
    ASSUME AnswerInv, NEW n \in Node, NEW from \in Node, NEW m \in GetMessage,
           NEW rest \in [Node \X Node -> Seq(GetMessage)],
           ~ Known(n, m.id), NewRemote(n, from, m, rest), UNCHANGED <<told, asked>>
    PROVE  AnswerParts'
<1>1. TablesType /\ GetDebts /\ Told /\ Asker \in [Tender -> Node]
      /\ \A u \in Tender : EntryOK(n, u)
  BY InvTypes
<1>2. m \in Message /\ m.id \in Tender /\ m.hop \in HopId
  BY DEF GetMessage, Message
<1>3. CASE m.cmd # "request"
  <2>1. UNCHANGED <<tenders, counter, owed>> /\ net' = rest
    BY <1>3 DEF NewRemote, tables
  <2> QED
    BY <1>1, <2>1, OwedSame, DebtsStay, ToldStays DEF NetOfGets, AnswerParts
<1>4. CASE m.cmd = "request"
  <2> DEFINE rid == counter[n] + 1
             e == [rid |-> rid, typ |-> "remote", st |-> "received",
                   prs |-> {from}, hop |-> m.hop, canceled |-> FALSE]
             d == [rid |-> rid, id |-> m.id, cmd |-> "request"]
             m2 == [m EXCEPT !.hop = Before(m.hop)]
  <2>1. /\ SetTender(n, m.id, e)
        /\ counter' = [counter EXCEPT ![n] = rid]
        /\ owed' = [owed EXCEPT ![n] = @ \cup {d}]
        /\ net' = IF IsMultiwinner(m.id) /\ ~LastHop(m.hop)
                    THEN Broadcast(rest, n, {from}, m2) ELSE rest
    BY <1>4 DEF NewRemote
  <2>2. counter[n] \in Nat /\ rid \in Nat \ {NoId}
    BY <1>1 DEF TablesType, NoId
  <2>3. m2 \in GetMessage
    BY <1>2, HopBefore DEF GetMessage, Message
  <2>4. e.rid = rid /\ d.rid = rid /\ d.id = m.id /\ d.cmd = "request"
    OBVIOUS
  <2> HIDE DEF e, d, m2
  <2>5. NetOfGets'
    BY <2>1, <2>3, QueuesPost DEF NetOfGets
  <2>6. Told'
    BY <1>1, <1>2, <2>1, <2>2, <2>4, TenderIsNotNumber, ToldSet
  <2>7. ASSUME NEW k \in Node, NEW o \in owed'[k]
        PROVE  /\ o.rid \in Nat \ {NoId} /\ o.rid <= counter'[k]
               /\ \A u \in Tender :
                    Known(k, u)' /\ tenders'[k][u].rid = o.rid /\ Kind[u] = "get"
                      => o.id = u /\ o.cmd = "request"
    <3>1. counter'[k] = IF k = n THEN rid ELSE counter[k]
      BY <1>1, <2>1 DEF TablesType
    <3>2. \A u \in Tender : tenders'[k][u] = IF k = n /\ u = m.id THEN e ELSE tenders[k][u]
      BY <1>1, <1>2, <2>1 DEF SetTender, TablesType
    <3>3. o \in owed[k] \/ (k = n /\ o = d)
      BY <2>1, InvTypes
    <3>4. CASE o \in owed[k]
      <4>1. /\ o.rid \in Nat \ {NoId} /\ o.rid <= counter[k]
            /\ \A u \in Tender : Known(k, u) /\ tenders[k][u].rid = o.rid /\ Kind[u] = "get"
                  => o.id = u /\ o.cmd = "request"
        BY <1>1, <3>4 DEF GetDebts
      <4>2. o.rid <= counter'[k] /\ (k = n => o.rid # rid)
        BY <2>2, <3>1, <4>1
      <4> HIDE DEF rid
      <4> QED
        BY <2>4, <3>2, <4>1, <4>2 DEF Known
    <3>5. CASE k = n /\ o = d
      <4>1. ASSUME NEW u \in Tender, Known(k, u)', tenders'[k][u].rid = o.rid PROVE u = m.id
        <5>1. u # m.id => Known(n, u) /\ tenders[n][u].rid = rid
          BY <2>4, <3>2, <3>5, <4>1 DEF Known
        <5>2. Known(n, u) => tenders[n][u].rid # rid
          BY <1>1, <2>2, TenderIsNotNumber DEF EntryOK
        <5> QED
          BY <5>1, <5>2
      <4> QED
        BY <2>2, <2>4, <3>1, <3>5, <4>1
    <3> QED
      BY <3>3, <3>4, <3>5
  <2> QED
    BY <2>5, <2>6, <2>7 DEF GetDebts, AnswerParts
<1> QED
  BY <1>3, <1>4

LEMMA ToKernelTold ==
    ASSUME AnswerInv, NEW n \in Node, NEW from \in Node, NEW m \in GetMessage,
           NEW rest \in [Node \X Node -> Seq(GetMessage)],
           Known(n, m.id), ~ Ignored(n, m), GoesToKernel(n, m), ToKernel(n, from, m, rest),
           UNCHANGED asked
    PROVE  AnswerParts'
<1> DEFINE e == tenders[n][m.id]
           e2 == [e EXCEPT !.prs = @ \cup {from}, !.st = "confirmed"]
           d == [rid |-> e.rid, id |-> m.id, cmd |-> m.cmd]
<1>1. TablesType /\ GetDebts /\ Told /\ Asker \in [Tender -> Node] /\ EntryOK(n, m.id)
      /\ m.id \in Tender /\ told \in [Tender -> Seq(Command \cup {"cancel"})]
  <2>1. m.id \in Tender
    BY DEF GetMessage, Message
  <2> QED
    BY <2>1, InvTypes
<1>2. e \in Entry /\ e2.rid = e.rid /\ e2.st = "confirmed"
  BY <1>1 DEF TablesType, Known, Entry
<1>3. Kind[m.id] = "get" => m.cmd = "data"
  BY DEF Ignored, IgnoresRepeat, GetMessage
<1>4. NetOfGets'
  BY DEF ToKernel, NetOfGets
<1>5. CASE UNCHANGED <<tables, owed, told>>
  BY <1>1, <1>4, <1>5, OwedSame, DebtsStay, ToldStays DEF tables, AnswerParts
<1>6. CASE ~ UNCHANGED <<tables, owed, told>>
  <2>1. /\ ~ Dropped(e, m) /\ e.rid # NoId /\ SetTender(n, m.id, e2)
        /\ told' = IF e.rid = m.id THEN [told EXCEPT ![m.id] = Append(@, m.cmd)] ELSE told
        /\ owed' = IF e.rid = m.id THEN owed ELSE [owed EXCEPT ![n] = @ \cup {d}]
        /\ UNCHANGED counter
    BY <1>6 DEF ToKernel
  <2>2. CASE e.rid = m.id
    <3>1. n = Asker[m.id] /\ m.id \in asked
      BY <1>1, <2>2, TenderIsNotNumber DEF EntryOK
    <3> HIDE DEF e2
    <3>2. GetDebts'
      BY <1>1, <1>2, <2>1, <2>2, OwedSame, DebtsSet
    <3>3. ASSUME NEW u \in Tender, Kind[u] = "get" PROVE ToldOf(u)'
      <4>1. ToldOf(u)
        BY <1>1, <3>3 DEF Told
      <4>2. tenders'[Asker[u]][u] = IF u = m.id THEN e2 ELSE tenders[Asker[u]][u]
        BY <1>1, <2>1, <3>1 DEF SetTender, TablesType
      <4>3. CASE u = m.id
        <5>1. told[u] = <<>>
          BY <1>3, <2>1, <2>2, <3>1, <3>3, <4>1, <4>3 DEF ToldOf, Dropped
        <5>2. told'[u] = Append(told[u], "data")
          BY <1>1, <1>3, <2>1, <2>2, <3>3, <4>3
        <5>3. told'[u] = <<"data">>
          BY <5>1, <5>2
        <5> QED
          BY <1>2, <2>2, <3>1, <4>2, <4>3, <5>3 DEF ToldOf
      <4>4. CASE u # m.id
        <5>1. told'[u] = told[u]
          BY <1>1, <2>1, <4>4
        <5> QED
          BY <4>1, <4>2, <4>4, <5>1 DEF ToldOf, Known
      <4> QED
        BY <4>3, <4>4
    <3> QED
      BY <1>4, <3>2, <3>3 DEF Told, AnswerParts
  <2>3. CASE e.rid # m.id
    <3>1. m.cmd = "deliver" /\ Kind[m.id] # "get"
      BY <1>1, <1>3, <2>3 DEF EntryOK, GoesToKernel
    <3>2. e.rid \in Nat \ {NoId} /\ e.rid <= counter[n]
      BY <1>1, <2>1, <2>3 DEF EntryOK
    <3>3. \A k \in Node, u \in Tender :
            tenders'[k][u] = IF k = n /\ u = m.id THEN e2 ELSE tenders[k][u]
      BY <1>1, <2>1 DEF SetTender, TablesType
    <3>4. d.rid = e.rid
      OBVIOUS
    <3> HIDE DEF e2, d
    <3>5. Told'
      BY <1>1, <2>1, <2>3, <3>1, ToldSet
    <3>6. ASSUME NEW k \in Node, NEW o \in owed'[k]
          PROVE  /\ o.rid \in Nat \ {NoId} /\ o.rid <= counter'[k]
                 /\ \A u \in Tender :
                      Known(k, u)' /\ tenders'[k][u].rid = o.rid /\ Kind[u] = "get"
                        => o.id = u /\ o.cmd = "request"
      <4>1. \A u \in Tender : Known(k, u)' => Known(k, u) /\ tenders'[k][u].rid = tenders[k][u].rid
        BY <1>2, <3>3 DEF Known
      <4>2. o \in owed[k] \/ (k = n /\ o = d)
        BY <2>1, <2>3, InvTypes
      <4>3. CASE o \in owed[k]
        BY <1>1, <2>1, <4>1, <4>3 DEF GetDebts
      <4>4. CASE k = n /\ o = d
        <5>1. \A u \in Tender : Known(n, u) /\ tenders[n][u].rid = e.rid => u = m.id
          BY <1>1, <2>1 DEF AnswerInv, RouterInv, TablesOK, UniqueIds
        <5> QED
          BY <2>1, <3>1, <3>2, <3>4, <4>1, <4>4, <5>1
      <4> QED
        BY <4>2, <4>3, <4>4
    <3> QED
      BY <1>4, <3>5, <3>6 DEF GetDebts, AnswerParts
  <2> QED
    BY <2>2, <2>3
<1> QED
  BY <1>5, <1>6

LEMMA BypassTold ==
    ASSUME AnswerInv, NEW n \in Node, NEW from \in Node, NEW m \in GetMessage,
           NEW rest \in [Node \X Node -> Seq(GetMessage)],
           Known(n, m.id), Bypass(n, from, m, rest), UNCHANGED asked
    PROVE  AnswerParts'
<1> DEFINE e == tenders[n][m.id]
           e2 == [e EXCEPT !.hop = m.hop, !.prs = IF Turns(m.cmd) THEN {from} ELSE @]
           m2 == [m EXCEPT !.hop = Before(m.hop)]
<1>1. TablesType /\ GetDebts /\ Told /\ Asker \in [Tender -> Node]
      /\ m.id \in Tender /\ m.hop \in HopId
  BY InvTypes DEF GetMessage, Message
<1>2. e \in Entry /\ e2.rid = e.rid /\ e2.st = e.st
  BY <1>1 DEF TablesType, Known, Entry
<1>3. m2 \in GetMessage
  BY <1>1, HopBefore DEF GetMessage, Message
<1>4. CASE e.rid # NoId /\ ~IsMultiwinner(m.id)
  <2>1. UNCHANGED <<tenders, counter, owed, told>> /\ net' = rest
    BY <1>4 DEF Bypass, tables
  <2> QED
    BY <1>1, <2>1, OwedSame, DebtsStay, ToldStays DEF NetOfGets, AnswerParts
<1>5. CASE ~ (e.rid # NoId /\ ~IsMultiwinner(m.id))
  <2>1. /\ net' = SendTo(rest, n, e.prs, m2) /\ SetTender(n, m.id, e2)
        /\ UNCHANGED <<counter, owed, told>>
    BY <1>5 DEF Bypass
  <2> HIDE DEF e2, m2
  <2>2. NetOfGets'
    BY <1>3, <2>1, QueuesPost DEF NetOfGets
  <2>3. GetDebts'
    BY <1>1, <1>2, <2>1, OwedSame, DebtsSet
  <2>4. Told'
    BY <1>1, <1>2, <2>1, ToldSet
  <2> QED
    BY <2>2, <2>3, <2>4 DEF AnswerParts
<1> QED
  BY <1>4, <1>5

\* The head of a queue, and what is left.
LEMMA HeadAndRest ==
    ASSUME NetOfGets, NEW c \in Node \X Node, net[c] # <<>>
    PROVE  /\ Head(net[c]) \in GetMessage
           /\ [net EXCEPT ![c] = Tail(@)] \in [Node \X Node -> Seq(GetMessage)]
<1>1. net[c] \in Seq(GetMessage)
  BY DEF NetOfGets
<1>2. Tail(net[c]) \in Seq(GetMessage) /\ Head(net[c]) \in GetMessage
  BY <1>1, HeadTailProperties
<1> QED
  BY <1>2 DEF NetOfGets

LEMMA ReceiveTold ==
    ASSUME AnswerInv, NEW from \in Node, NEW n \in Node, Receive(from, n)
    PROVE  AnswerParts'
<1> DEFINE c == <<from, n>>
           m == Head(net[c])
           rest == [net EXCEPT ![c] = Tail(@)]
<1>1. TablesType /\ NetOfGets /\ GetDebts /\ Told
  BY InvTypes
<1>2. c \in Node \X Node /\ net[c] # <<>>
  BY DEF Receive
<1>3. m \in GetMessage /\ rest \in [Node \X Node -> Seq(GetMessage)]
  BY <1>1, <1>2, HeadAndRest
<1>4. /\ \/ ~ Known(n, m.id) /\ NewRemote(n, from, m, rest) /\ UNCHANGED told
         \/ net' = rest /\ UNCHANGED <<tables, owed, told>>
         \/ /\ Known(n, m.id) /\ ~ Ignored(n, m)
            /\ \/ GoesToKernel(n, m) /\ ToKernel(n, from, m, rest)
               \/ Bypass(n, from, m, rest)
      /\ UNCHANGED asked
  BY DEF Receive, IsNew, Known
<1> HIDE DEF c, m, rest
<1>5. CASE ~ Known(n, m.id) /\ NewRemote(n, from, m, rest) /\ UNCHANGED told
  BY <1>3, <1>4, <1>5, NewRemoteTold
<1>6. CASE net' = rest /\ UNCHANGED <<tables, owed, told>>
  BY <1>1, <1>3, <1>4, <1>6, OwedSame, DebtsStay, ToldStays DEF tables, NetOfGets, AnswerParts
<1>7. CASE Known(n, m.id) /\ ~ Ignored(n, m) /\ GoesToKernel(n, m) /\ ToKernel(n, from, m, rest)
  BY <1>3, <1>4, <1>7, ToKernelTold
<1>8. CASE Known(n, m.id) /\ ~ Ignored(n, m) /\ Bypass(n, from, m, rest)
  BY <1>3, <1>4, <1>8, BypassTold
<1> QED
  BY <1>4, <1>5, <1>6, <1>7, <1>8

LEMMA NackTold ==
    ASSUME AnswerInv, NEW n \in Node, Nack(n)
    PROVE  AnswerParts'
<1> DEFINE c == <<n, n>>
           t == Head(net[c]).id
<1>1. TablesType /\ NetOfGets /\ GetDebts /\ Told
  BY InvTypes
<1>2. c \in Node \X Node /\ net[c] # <<>>
  BY DEF Nack
<1>3. t \in Tender /\ [net EXCEPT ![c] = Tail(@)] \in [Node \X Node -> Seq(GetMessage)]
  BY <1>1, <1>2, HeadAndRest DEF GetMessage, Message
<1>4. /\ net' = [net EXCEPT ![c] = Tail(@)]
      /\ IF IsNew(n, t) THEN UNCHANGED <<tables, told>> ELSE CleanUp(n, t)
      /\ UNCHANGED <<owed, asked>>
  BY DEF Nack
<1> HIDE DEF c, t
<1>5. GetDebts' /\ Told'
  <2>1. CASE IsNew(n, t)
    BY <1>1, <1>4, <2>1, OwedSame, DebtsStay, ToldStays DEF tables
  <2>2. CASE ~ IsNew(n, t)
    BY <1>3, <1>4, <2>2, OwedSame, CleanUpTold DEF IsNew, Known
  <2> QED
    BY <2>1, <2>2
<1> QED
  BY <1>3, <1>4, <1>5 DEF NetOfGets, AnswerParts

LEMMA ExpireTold ==
    ASSUME AnswerInv, NEW n \in Node, Expire(n)
    PROVE  AnswerParts'
<1>1. PICK t \in timeline[n] : CleanUp(n, t)
  BY DEF Expire
<1>2. t \in Tender /\ Known(n, t)
  BY InvTypes DEF TablesType, Agree
<1>3. UNCHANGED <<net, owed, asked>>
  BY DEF Expire
<1>4. GetDebts' /\ Told'
  BY <1>1, <1>2, <1>3, OwedSame, CleanUpTold
<1> QED
  BY <1>3, <1>4, InvTypes DEF NetOfGets, AnswerParts

LEMMA DisconnectTold ==
    ASSUME AnswerInv, NEW m \in Node, NEW n \in Node, Disconnect(m, n)
    PROVE  AnswerParts'
<1>1. TablesType /\ NetOfGets /\ GetDebts /\ Told
  BY InvTypes
<1>2. UNCHANGED <<tenders, counter, owed, told, asked>>
  BY DEF Disconnect, tables, kernels
<1>3. PICK i \in 0 .. Len(net[<<m, n>>]), j \in 0 .. Len(net[<<n, m>>]) :
        net' = [net EXCEPT ![<<m, n>>] = SubSeq(@, 1, i), ![<<n, m>>] = SubSeq(@, 1, j)]
  BY DEF Disconnect
<1>4. ASSUME NEW s \in Seq(GetMessage), NEW k \in 0 .. Len(s)
      PROVE  SubSeq(s, 1, k) \in Seq(GetMessage)
  <2>1. \A x \in 1 .. k : s[x] \in GetMessage
    OBVIOUS
  <2> QED
    BY <2>1, SubSeqProperties
<1>5. NetOfGets'
  <2>1. <<m, n>> \in Node \X Node /\ <<n, m>> \in Node \X Node /\ <<m, n>> # <<n, m>>
    BY DEF Disconnect, AnswerInv, RouterInv, OthersType
  <2>2. net[<<m, n>>] \in Seq(GetMessage) /\ net[<<n, m>>] \in Seq(GetMessage)
    BY <1>1, <2>1 DEF NetOfGets
  <2>3. /\ SubSeq(net[<<m, n>>], 1, i) \in Seq(GetMessage)
        /\ SubSeq(net[<<n, m>>], 1, j) \in Seq(GetMessage)
    BY <1>4, <2>2
  <2> QED
    BY <1>1, <1>3, <2>1, <2>3 DEF NetOfGets
<1>6. GetDebts' /\ Told'
  BY <1>1, <1>2, OwedSame, DebtsStay, ToldStays
<1> QED
  BY <1>5, <1>6 DEF AnswerParts

-----------------------------------------------------------------------------

LEMMA InitAnswer == Init => AnswerInv
<1> SUFFICES ASSUME Init PROVE AnswerInv
  OBVIOUS
<1>1. NetOfGets
  BY DEF Init, NetOfGets
<1>2. GetDebts
  BY DEF Init, GetDebts
<1>3. Told
  BY TenderAssumption DEF Init, Told, ToldOf, Known
<1> QED
  BY <1>1, <1>2, <1>3, InitRouter DEF AnswerInv

LEMMA AnswerStep == AnswerInv /\ [Next]_vars => AnswerInv'
<1> SUFFICES ASSUME AnswerInv, [Next]_vars PROVE AnswerInv'
  OBVIOUS
<1>1. RouterInv'
  BY RouterStep DEF AnswerInv
<1>2. AnswerParts'
  <2>1. CASE UNCHANGED vars
    BY <2>1, InvTypes, OwedSame, DebtsStay, ToldStays
    DEF vars, tables, kernels, NetOfGets, AnswerParts
  <2>2. CASE Next
    BY <2>2, AskTold, HearTold, ReplyTold, NackTold, ExpireTold, ReceiveTold,
       DisconnectTold DEF Next
  <2> QED
    BY <2>1, <2>2
<1> QED
  BY <1>1, <1>2 DEF AnswerInv, AnswerParts

\* send_response_to_kernel and cancel_request: in every network a kernel that gets
\* is told the data at most once, and nothing after the cancel, although any
\* number of holders answer and tenders expire, are nacked and come back.
THEOREM AnsweredOnce == Spec => []OneAnswer
<1>1. AnswerInv => OneAnswer
  BY DEF AnswerInv, Told, ToldOf, OneAnswer
<1> QED
  BY InitAnswer, AnswerStep, <1>1, PTL DEF Spec

-----------------------------------------------------------------------------
(* A network without faults: no connection breaks and no tender expires.    *)

Intact == Patient /\ MaxDown = 0

\* No request is of the two kinds whose conversation takes another way than the
\* request (find) or whose repeats the code asserts not to come (record).
Plain == \A t \in Tender : Kind[t] \notin {"find", "record"}

\* The tender of n is that of its own kernel, or was passed on, or is of those
\* that a kernel cannot refuse: it stays until the end.
Stays(n, t) ==
    /\ Known(n, t)
    /\ tenders[n][t].typ = "internal" \/ tenders[n][t].rid = NoId \/ ~ MayRefuse(t)

\* A message m from p to n: a request comes from a node that keeps the tender,
\* the data go to one. Nacks are for those that have no peers.
Fits(p, n, m) ==
    IF p = n THEN Connected(n) = {}
    ELSE /\ n \in Connected(p)
         /\ Kind[m.id] # "find" => m.cmd \in {"request", "data"}
         /\ m.cmd = "request" => Stays(p, m.id)
         /\ m.cmd = "data" /\ Kind[m.id] # "find" => Stays(n, m.id)

Mail(p, n) == {m \in Message : Fits(p, n, m)}
QueuesFit == \A p, n \in Node : net[<<p, n>>] \in Seq(Mail(p, n))

\* The peers of a tender are connected. But for a conversation there is one, the
\* node the tender came from, and it keeps it.
Route(n, t) ==
    Known(n, t) =>
        /\ tenders[n][t].prs \subseteq Connected(n)
        /\ Kind[t] # "find" /\ tenders[n][t].typ = "remote" =>
              /\ tenders[n][t].st # "announced"
              /\ \E p \in Node \ {n} : tenders[n][t].prs = {p} /\ Stays(p, t)
Routes == \A n \in Node, t \in Tender : Route(n, t)

\* What a kernel has to answer is about the tender that has its request id.
DebtsFit ==
    \A n \in Node : \A o \in owed[n] :
        /\ o.rid \in Nat \ {NoId} /\ o.rid <= counter[n]
        /\ Kind[o.id] # "find" => o.cmd # "deliver"
        /\ \A u \in Tender : Known(n, u) /\ tenders[n][u].rid = o.rid => o.id = u

\* Only a kernel that looks for a peer hears of offers.
OffersFit ==
    \A t \in Tender : Kind[t] # "find" => told[t] \in Seq((Command \cup {"cancel"}) \ {"offer"})

\* No connection has been lost.
Wired ==
    /\ \A p, n \in Node : <<p, n>> \in up => <<n, p>> \in up
    /\ IsFiniteSet(up) /\ Cardinality(up) <= 2 * Cardinality(Edge)

PlainRuns == Plain => aborted = {}

IntactParts == QueuesFit /\ Routes /\ DebtsFit /\ OffersFit /\ NoLoops /\ PlainRuns
IntactInv == RouterInv /\ Wired /\ IntactParts

LEMMA IntactTypes ==
    IntactInv => /\ TablesType /\ asked \subseteq Tender /\ NetAsked /\ UniqueIds
                 /\ QueuesFit /\ Routes /\ DebtsFit /\ OffersFit /\ NoLoops /\ PlainRuns
                 /\ owed \in [Node -> SUBSET Debt]
                 /\ told \in [Tender -> Seq(Command \cup {"cancel"})]
                 /\ \A n \in Node, t \in Tender : EntryOK(n, t) /\ Agree(n, t) /\ Route(n, t)
                 /\ Asker \in [Tender -> Node]
BY TenderAssumption DEF IntactInv, IntactParts, RouterInv, OthersType, TablesOK, Routes

\* Connections are mutual and never to the node itself.
LEMMA Mutual ==
    ASSUME IntactInv, NEW n \in Node, NEW p \in Connected(n)
    PROVE  p \in Node /\ p # n /\ n \in Connected(p)
BY DEF IntactInv, Wired, Connected, RouterInv, OthersType

-----------------------------------------------------------------------------
(* Frames *)

\* What stayed stays, but at nodes that are alone.
Remain ==
    /\ UNCHANGED up
    /\ \A k \in Node, u \in Tender : Stays(k, u) => Stays(k, u)' \/ Connected(k) = {}

LEMMA MailRemains ==
    ASSUME IntactInv, Remain, NEW p \in Node, NEW n \in Node
    PROVE  Mail(p, n) \subseteq Mail(p, n)'
<1> SUFFICES ASSUME NEW m \in Message, Fits(p, n, m) PROVE Fits(p, n, m)'
  BY DEF Mail
<1>1. m.id \in Tender
  BY DEF Message
<1>2. Connected(p)' = Connected(p) /\ Connected(n)' = Connected(n)
  BY DEF Remain, Connected
<1>3. CASE p = n
  BY <1>2, <1>3 DEF Fits
<1>4. CASE p # n
  <2>1. n \in Connected(p) /\ p \in Connected(n)
    BY <1>4, Mutual DEF Fits
  <2>2. /\ Stays(p, m.id) => Stays(p, m.id)'
        /\ Stays(n, m.id) => Stays(n, m.id)'
    BY <1>1, <2>1 DEF Remain
  <2> QED
    BY <1>2, <1>4, <2>1, <2>2 DEF Fits
<1> QED
  BY <1>3, <1>4

\* A function on the pairs of nodes with what fits in each queue.
Fitting(q) ==
    /\ q \in [Node \X Node -> Seq(MessageOf(asked))]
    /\ \A p, n \in Node : q[<<p, n>>] \in Seq(Mail(p, n))

LEMMA QueuesRemain ==
    ASSUME IntactInv, Remain, NEW q, Fitting(q), net' = q
    PROVE  QueuesFit'
<1> SUFFICES ASSUME NEW p \in Node, NEW n \in Node
             PROVE  net'[<<p, n>>] \in Seq(Mail(p, n)')
  BY DEF QueuesFit
<1>1. q[<<p, n>>] \in Seq(Mail(p, n))
  BY DEF Fitting
<1>2. Mail(p, n) \subseteq Mail(p, n)'
  BY MailRemains
<1> QED
  BY <1>1, <1>2, SeqOfMore

\* A message is sent to peers for which it will fit.
LEMMA PostFits ==
    ASSUME IntactInv, Remain, NEW q, Fitting(q), NEW k \in Node, NEW peers, NEW m \in Message,
           \A p \in Node : p \in peers => Fits(k, p, m)',
           net' = Post(q, k, peers, m)
    PROVE  QueuesFit'
<1> SUFFICES ASSUME NEW p \in Node, NEW n \in Node
             PROVE  net'[<<p, n>>] \in Seq(Mail(p, n)')
  BY DEF QueuesFit
<1>1. q[<<p, n>>] \in Seq(Mail(p, n))
  BY DEF Fitting
<1>2. q[<<p, n>>] \in Seq(Mail(p, n)')
  BY <1>1, MailRemains, SeqOfMore
<1>3. net'[<<p, n>>] = IF p = k /\ n \in peers THEN Append(q[<<p, n>>], m) ELSE q[<<p, n>>]
  BY DEF Post
<1>4. CASE p = k /\ n \in peers
  <2>1. m \in Mail(p, n)'
    BY <1>4 DEF Mail
  <2> QED
    BY <1>2, <1>3, <1>4, <2>1, AppendProperties
<1> QED
  BY <1>2, <1>3, <1>4

LEMMA NetFits == IntactInv => Fitting(net)
BY IntactTypes DEF Fitting, QueuesFit, NetAsked

\* An entry changes; the other tenders are routed as before.
LEMMA RoutesSet ==
    ASSUME IntactInv, Remain, NEW n \in Node, NEW t \in Tender, NEW e, SetTender(n, t, e),
           Route(n, t)'
    PROVE  Routes'
<1> SUFFICES ASSUME NEW k \in Node, NEW u \in Tender, k # n \/ u # t PROVE Route(k, u)'
  BY DEF Routes
<1>1. tenders'[k][u] = tenders[k][u]
  BY IntactTypes DEF SetTender, TablesType
<1>2. Route(k, u)
  BY IntactTypes
<1>3. Connected(k)' = Connected(k)
  BY DEF Remain, Connected
<1>4. ASSUME NEW p \in Node \ {k}, Known(k, u), tenders[k][u].prs = {p}, Stays(p, u)
      PROVE  Stays(p, u)'
  <2>1. p \in Connected(k)
    BY <1>2, <1>4 DEF Route
  <2>2. Connected(p) # {}
    BY <2>1, Mutual
  <2> QED
    BY <1>4, <2>2 DEF Remain
<1> QED
  BY <1>1, <1>2, <1>3, <1>4 DEF Route, Known

LEMMA RoutesRemain ==
    ASSUME IntactInv, UNCHANGED <<tenders, up>>
    PROVE  Remain /\ Routes' /\ NoLoops'
<1>1. Routes'
  BY IntactTypes DEF Routes, Route, Known, Stays, Connected
<1>2. NoLoops'
  BY IntactTypes DEF NoLoops
<1>3. Remain
  BY DEF Remain, Stays, Known
<1> QED
  BY <1>1, <1>2, <1>3

\* A tender that gets no new peer but that of its own kernel, or goes, closes no
\* loop.
LEMMA LoopsSet ==
    ASSUME IntactInv, NEW n \in Node, NEW t \in Tender, NEW e, SetTender(n, t, e),
           \/ Kind[t] = "find" \/ e = None \/ e.typ = "internal"
           \/ Known(n, t) /\ tenders[n][t].typ = e.typ /\ e.prs = tenders[n][t].prs
    PROVE  NoLoops'
<1> SUFFICES ASSUME NEW u \in Tender, NEW S \in (SUBSET Node) \ {{}}, Kind[u] # "find"
             PROVE  \E k \in S : \/ tenders'[k][u] = None \/ tenders'[k][u].typ = "internal"
                                 \/ tenders'[k][u].prs \cap S = {}
  BY DEF NoLoops
<1>1. PICK k \in S : \/ tenders[k][u] = None \/ tenders[k][u].typ = "internal"
                     \/ tenders[k][u].prs \cap S = {}
  BY IntactTypes DEF NoLoops
<1>2. tenders'[k][u] = IF k = n /\ u = t THEN e ELSE tenders[k][u]
  BY IntactTypes DEF SetTender, TablesType
<1> QED
  BY <1>1, <1>2 DEF Known

\* The kernels are handed nothing, and answer.
FewerDebts ==
    \A k \in Node : \A o \in owed'[k] : \E w \in owed[k] :
        /\ o.rid = w.rid /\ o.id = w.id
        /\ o.cmd = w.cmd \/ o.cmd = "clear"

LEMMA SameDebts == UNCHANGED owed => FewerDebts
BY DEF FewerDebts

LEMMA FewerFit ==
    ASSUME IntactInv, UNCHANGED counter, FewerDebts,
           \A k \in Node, u \in Tender : Known(k, u)' =>
               \/ tenders'[k][u].rid = NoId \/ tenders'[k][u].rid \notin Nat
               \/ Known(k, u) /\ tenders'[k][u].rid = tenders[k][u].rid
    PROVE  DebtsFit'
<1> SUFFICES ASSUME NEW k \in Node, NEW o \in owed'[k]
             PROVE  /\ o.rid \in Nat \ {NoId} /\ o.rid <= counter'[k]
                    /\ Kind[o.id] # "find" => o.cmd # "deliver"
                    /\ \A u \in Tender : Known(k, u)' /\ tenders'[k][u].rid = o.rid => o.id = u
  BY DEF DebtsFit
<1>1. PICK w \in owed[k] :
        /\ o.rid = w.rid /\ o.id = w.id
        /\ o.cmd = w.cmd \/ o.cmd = "clear"
  BY DEF FewerDebts
<1>2. /\ w.rid \in Nat \ {NoId} /\ w.rid <= counter[k]
      /\ Kind[w.id] # "find" => w.cmd # "deliver"
      /\ \A u \in Tender : Known(k, u) /\ tenders[k][u].rid = w.rid => w.id = u
  BY IntactTypes DEF DebtsFit
<1>3. ASSUME NEW u \in Tender, Known(k, u)', tenders'[k][u].rid = o.rid PROVE o.id = u
  BY <1>1, <1>2, <1>3
<1> QED
  BY <1>1, <1>2, <1>3

LEMMA FewerFitSet ==
    ASSUME IntactInv, UNCHANGED counter, FewerDebts,
           NEW n \in Node, NEW t \in Tender, NEW e, SetTender(n, t, e),
           e # None => \/ e.rid = NoId \/ e.rid \notin Nat
                       \/ Known(n, t) /\ e.rid = tenders[n][t].rid
    PROVE  DebtsFit'
<1>1. \A k \in Node, u \in Tender :
        tenders'[k][u] = IF k = n /\ u = t THEN e ELSE tenders[k][u]
  BY IntactTypes DEF SetTender, TablesType
<1> QED
  BY <1>1, FewerFit DEF Known

\* The kernel is told a word that is no offer, or it is looking for a peer.
LEMMA OffersTold ==
    ASSUME IntactInv, NEW t \in Tender, NEW w \in Command \cup {"cancel"},
           Kind[t] # "find" => w # "offer",
           told' = [told EXCEPT ![t] = Append(@, w)]
    PROVE  OffersFit'
<1> SUFFICES ASSUME NEW u \in Tender, Kind[u] # "find"
             PROVE  told'[u] \in Seq((Command \cup {"cancel"}) \ {"offer"})
  BY DEF OffersFit
<1>1. told[u] \in Seq((Command \cup {"cancel"}) \ {"offer"})
  BY IntactTypes DEF OffersFit
<1>2. told'[u] = IF u = t THEN Append(told[u], w) ELSE told[u]
  BY IntactTypes
<1> QED
  BY <1>1, <1>2, AppendProperties

\* What a step keeps when it aborts a node, of a network with other requests.
LEMMA AbortedRuns ==
    ASSUME IntactInv, NEW t \in Tender, Kind[t] \in {"find", "record"}
    PROVE  PlainRuns'
BY DEF PlainRuns, Plain


-----------------------------------------------------------------------------
(* What the router does for its kernel *)

\* A tender goes that nobody's route leads through.
LEMMA CleanUpIntact ==
    ASSUME IntactInv, NEW n \in Node, NEW t \in Tender, CleanUp(n, t),
           Connected(n) = {} \/ ~ Stays(n, t),
           NEW q, Fitting(q), net' = q, UNCHANGED <<up, aborted>>, FewerDebts
    PROVE  IntactParts'
<1>1. SetTender(n, t, None) /\ UNCHANGED counter
  BY DEF CleanUp, CleanUpInfo
<1>2. \A k \in Node, u \in Tender :
        tenders'[k][u] = IF k = n /\ u = t THEN None ELSE tenders[k][u]
  BY <1>1, IntactTypes DEF SetTender, TablesType
<1>3. Remain
  BY <1>2 DEF Remain, Stays, Known
<1>4. Route(n, t)'
  BY <1>2 DEF Route, Known
<1>5. OffersFit'
  <2>1. CASE UNCHANGED told
    BY <2>1, IntactTypes DEF OffersFit
  <2>2. CASE told' = [told EXCEPT ![t] = Append(@, "cancel")]
    BY <2>2, OffersTold
  <2> QED
    BY <2>1, <2>2 DEF CleanUp
<1>6. QueuesFit' /\ Routes'
  BY <1>1, <1>3, <1>4, QueuesRemain, RoutesSet
<1>7. DebtsFit' /\ NoLoops'
  BY <1>1, FewerFitSet, LoopsSet
<1>8. PlainRuns'
  BY IntactTypes DEF PlainRuns
<1> QED
  BY <1>5, <1>6, <1>7, <1>8 DEF IntactParts

LEMMA NothingIntact ==
    ASSUME IntactInv, UNCHANGED <<tenders, counter, told, up>>, FewerDebts,
           NEW q, Fitting(q), net' = q, PlainRuns'
    PROVE  IntactParts'
<1>1. Remain /\ Routes' /\ NoLoops'
  BY RoutesRemain
<1>2. QueuesFit'
  BY <1>1, QueuesRemain
<1>3. DebtsFit'
  BY FewerFit DEF Known
<1>4. OffersFit'
  BY IntactTypes DEF OffersFit
<1> QED
  BY <1>1, <1>2, <1>3, <1>4 DEF IntactParts

LEMMA AbortIntact ==
    ASSUME IntactInv, NEW n \in Node, Abort(n), UNCHANGED up, FewerDebts,
           NEW t \in Tender, Kind[t] \in {"find", "record"}
    PROVE  IntactParts'
<1>1. UNCHANGED <<tenders, counter, told, net>>
  BY DEF Abort, tables
<1>2. PlainRuns' /\ Fitting(net)
  BY AbortedRuns, NetFits
<1> QED
  BY <1>1, <1>2, NothingIntact

\* A tender stays on its way with its peers.
LEMMA EntryIntact ==
    ASSUME IntactInv, NEW n \in Node, NEW t \in Tender, Known(n, t), NEW e \in Entry,
           SetTender(n, t, e), UNCHANGED <<up, counter, told, aborted>>, FewerDebts,
           e.typ = tenders[n][t].typ, e.prs = tenders[n][t].prs,
           e.rid = tenders[n][t].rid \/ e.rid = NoId,
           e.st = tenders[n][t].st \/ e.st = "confirmed"
    PROVE  Remain /\ Routes' /\ DebtsFit' /\ OffersFit' /\ NoLoops' /\ PlainRuns'
<1>1. \A k \in Node, u \in Tender :
        tenders'[k][u] = IF k = n /\ u = t THEN e ELSE tenders[k][u]
  BY IntactTypes DEF SetTender, TablesType
<1>2. e # None
  BY NoneAssumption
<1>3. Remain
  BY <1>1, <1>2 DEF Remain, Stays, Known
<1>4. Route(n, t)'
  <2>1. Route(n, t) /\ Connected(n)' = Connected(n)
    BY IntactTypes DEF Connected
  <2>2. ASSUME NEW p \in Node \ {n}, Stays(p, t) PROVE Stays(p, t)'
    BY <1>1, <2>2 DEF Stays, Known
  <2> QED
    BY <1>1, <2>1, <2>2 DEF Route
<1>5. Routes'
  BY <1>3, <1>4, RoutesSet
<1>6. NoLoops'
  BY LoopsSet
<1>7. DebtsFit'
  BY FewerFitSet
<1>8. OffersFit' /\ PlainRuns'
  BY IntactTypes DEF OffersFit, PlainRuns
<1> QED
  BY <1>3, <1>5, <1>6, <1>7, <1>8

LEMMA ClearIntact ==
    ASSUME IntactInv, NEW n \in Node, NEW t \in Tender, Known(n, t), ClearRequest(n, t),
           UNCHANGED up, FewerDebts
    PROVE  IntactParts'
<1> DEFINE e == [tenders[n][t] EXCEPT !.canceled = TRUE]
<1>1. /\ e \in Entry /\ e.rid = tenders[n][t].rid /\ e.st = tenders[n][t].st
      /\ e.typ = tenders[n][t].typ /\ e.prs = tenders[n][t].prs
  <2>1. tenders[n][t] \in Entry
    BY IntactTypes DEF TablesType, Known
  <2> QED
    BY <2>1 DEF Entry
<1>2. SetTender(n, t, e) /\ UNCHANGED <<counter, told, aborted, net>>
  BY DEF ClearRequest
<1> HIDE DEF e
<1>3. Remain /\ Routes' /\ DebtsFit' /\ OffersFit' /\ NoLoops' /\ PlainRuns'
  BY <1>1, <1>2, EntryIntact
<1>4. QueuesFit'
  BY <1>2, <1>3, NetFits, QueuesRemain
<1> QED
  BY <1>3, <1>4 DEF IntactParts


\* An answer goes to the peer the tender came from.
LEMMA TransferIntact ==
    ASSUME IntactInv, NEW n \in Node, NEW t \in Tender, Known(n, t), NEW cmd \in Command,
           Respond(n, t, cmd), UNCHANGED up, FewerDebts, cmd # "request",
           Kind[t] # "find" => cmd = "data" /\ tenders[n][t].typ = "remote"
    PROVE  IntactParts'
<1> DEFINE e == tenders[n][t]
           m == [cmd |-> cmd, id |-> t, hop |-> Before(MaxHops)]
<1>1. e \in Entry /\ Route(n, t)
  BY IntactTypes DEF TablesType, Known
<1>2. CASE Abort(n)
  <2>1. CASE Kind[t] \in {"find", "record"}
    BY <1>2, <2>1, AbortIntact
  <2>2. CASE Kind[t] \notin {"find", "record"}
    <3>1. e.st \in {"confirmed", "received"} /\ e.prs # {}
      BY <1>1, <2>2 DEF Route, Entry
    <3>2. aborted' = aborted
      BY <2>2, <3>1 DEF Respond, Transfer, Confirm, SendData
    <3>3. PlainRuns' /\ UNCHANGED <<tenders, counter, told, net>>
      BY <1>2, <3>2, IntactTypes DEF PlainRuns, Abort, tables
    <3> QED
      BY <3>3, NetFits, NothingIntact
  <2> QED
    BY <2>1, <2>2
<1>3. CASE ~ Abort(n)
  <2>0. PICK st \in {"confirmed", e.st} : SendData(n, t, cmd, st)
    BY <1>3, AnswerSent
  <2> DEFINE e2 == [e EXCEPT !.st = st, !.hop = MaxHops]
  <2>1. PICK p \in e.prs : net' = SendTo(net, n, {p}, m)
    BY <2>0 DEF SendData
  <2>2. SetTender(n, t, e2) /\ UNCHANGED <<counter, told, aborted>>
    BY <2>0 DEF SendData
  <2>3. /\ e2 \in Entry /\ e2.rid = e.rid /\ (e2.st = e.st \/ e2.st = "confirmed")
        /\ e2.typ = e.typ /\ e2.prs = e.prs
    BY <1>1, MaxHopsIsHop DEF Entry
  <2> HIDE DEF e2
  <2>4. Remain /\ Routes' /\ DebtsFit' /\ OffersFit' /\ NoLoops' /\ PlainRuns'
    BY <2>2, <2>3, EntryIntact
  <2>5. p \in Connected(n) /\ p # n /\ p \in Node
    BY <1>1, <2>1, Mutual DEF Route
  <2>6. net' = Post(net, n, {p}, m)
    BY <2>1, <2>5 DEF SendTo
  <2>7. m \in Message /\ m.cmd = cmd /\ m.id = t
    BY HopBefore, MaxHopsIsHop DEF Message
  <2>8. Kind[t] # "find" => Stays(p, t)
    BY <1>1, <2>1 DEF Route
  <2>9. Kind[t] # "find" => Stays(p, t)'
    <3>1. n \in Connected(p)
      BY <2>5, Mutual
    <3> QED
      BY <2>4, <2>5, <2>8, <3>1 DEF Remain
  <2> HIDE DEF m
  <2>10. Fits(n, p, m)'
    BY <2>5, <2>7, <2>9 DEF Fits, Connected
  <2>11. QueuesFit'
    BY <2>4, <2>6, <2>7, <2>10, NetFits, PostFits
  <2> QED
    BY <2>4, <2>11 DEF IntactParts
<1> QED
  BY <1>2, <1>3

\* A broadcast reaches peers, or comes back to a node that has none.
LEMMA BroadcastFits ==
    ASSUME IntactInv, Remain, NEW q, Fitting(q), NEW n \in Node, NEW except,
           NEW m \in Message, m.cmd = "request", Stays(n, m.id)',
           net' = Broadcast(q, n, except, m)
    PROVE  QueuesFit'
<1>1. Connected(n)' = Connected(n)
  BY DEF Remain, Connected
<1>2. CASE Connected(n) = {}
  <2>1. net' = Post(q, n, {n}, m)
    BY <1>2 DEF Broadcast
  <2>2. Fits(n, n, m)'
    BY <1>1, <1>2 DEF Fits
  <2> QED
    BY <2>1, <2>2, PostFits
<1>3. CASE Connected(n) # {}
  <2>1. net' = Post(q, n, Connected(n) \ except, m)
    BY <1>3 DEF Broadcast
  <2>2. ASSUME NEW p \in Node, p \in Connected(n) \ except PROVE Fits(n, p, m)'
    BY <1>1, <2>2, Mutual DEF Fits
  <2>3. \A p \in Node : p \in Connected(n) \ except => Fits(n, p, m)'
    BY <2>2
  <2> QED
    BY <2>1, <2>3, PostFits
<1> QED
  BY <1>2, <1>3

LEMMA RefuseIntact ==
    ASSUME IntactInv, NEW n \in Node, NEW t \in Tender, Known(n, t), Refuse(n, t),
           UNCHANGED up, FewerDebts, MayRefuse(t),
           tenders[n][t].typ = "remote", tenders[n][t].rid # NoId
    PROVE  IntactParts'
<1> DEFINE e == tenders[n][t]
           e2 == [e EXCEPT !.rid = NoId]
           m == [cmd |-> "request", id |-> t, hop |-> Before(e.hop)]
<1>1. e \in Entry /\ Route(n, t)
  BY IntactTypes DEF TablesType, Known
<1>2. CASE LastHop(e.hop)
  <2>1. CleanUp(n, t) /\ UNCHANGED <<net, aborted>> /\ ~ Stays(n, t)
    BY <1>2 DEF Refuse, Stays
  <2> QED
    BY <2>1, NetFits, CleanUpIntact
<1>3. CASE ~ LastHop(e.hop) /\ Abort(n)
  <2>1. CASE Kind[t] = "find"
    BY <1>3, <2>1, AbortIntact
  <2>2. CASE Kind[t] # "find"
    <3>1. Cardinality(e.prs) = 1
      BY <1>1, <2>2, FS_Singleton DEF Route
    <3>2. UNCHANGED aborted
      BY <1>3, <3>1 DEF Refuse
    <3>3. PlainRuns' /\ UNCHANGED <<tenders, counter, told, net>>
      BY <1>3, <3>2, IntactTypes DEF PlainRuns, Abort, tables
    <3> QED
      BY <3>3, NetFits, NothingIntact
  <2> QED
    BY <2>1, <2>2
<1>4. CASE ~ LastHop(e.hop) /\ ~ Abort(n)
  <2>1. /\ net' = Broadcast(net, n, e.prs, m)
        /\ SetTender(n, t, e2) /\ UNCHANGED <<counter, told, aborted>>
    BY <1>4 DEF Refuse
  <2>2. /\ e2 \in Entry /\ e2.rid = NoId /\ e2.st = e.st
        /\ e2.typ = e.typ /\ e2.prs = e.prs
    BY <1>1 DEF Entry, RequestId, NoId
  <2>3. m \in Message /\ m.cmd = "request" /\ m.id = t
    BY <1>1, HopBefore DEF Message, Command, Entry
  <2> HIDE DEF e2, m
  <2>4. Remain /\ Routes' /\ DebtsFit' /\ OffersFit' /\ NoLoops' /\ PlainRuns'
    BY <2>1, <2>2, EntryIntact
  <2>5. Stays(n, t)'
    <3>1. tenders'[n][t] = e2
      BY <2>1, IntactTypes DEF SetTender, TablesType
    <3> QED
      BY <2>2, <3>1, NoneAssumption DEF Stays, Known
  <2>6. QueuesFit'
    BY <2>1, <2>3, <2>4, <2>5, NetFits, BroadcastFits
  <2> QED
    BY <2>4, <2>6 DEF IntactParts
<1> QED
  BY <1>2, <1>3, <1>4


-----------------------------------------------------------------------------
(* The steps *)

LEMMA AskIntact ==
    ASSUME IntactInv, NEW t \in Tender, Ask(t)
    PROVE  IntactParts'
<1> DEFINE n == Asker[t]
           e == [rid |-> t, typ |-> "internal", st |-> "announced",
                 prs |-> {}, hop |-> MaxHops, canceled |-> FALSE]
           m == [cmd |-> "request", id |-> t, hop |-> Before(MaxHops)]
<1>1. n \in Node /\ ~ Known(n, t)
  BY IntactTypes DEF Ask, EntryOK
<1>2. /\ e.rid = t /\ e.typ = "internal" /\ e.prs = {} /\ t \notin Nat /\ e # None
  <2>1. e \in Entry
    BY TenderIsNotNumber, MaxHopsIsHop DEF Entry
  <2> QED
    BY <2>1, TenderIsNotNumber, NoneAssumption
<1>3. m \in Message /\ m.cmd = "request" /\ m.id = t
  BY HopBefore, MaxHopsIsHop DEF Message, Command
<1>4. /\ SetTender(n, t, e) /\ net' = Broadcast(net, n, {}, m)
      /\ UNCHANGED <<counter, owed, told, up, aborted>>
  BY DEF Ask
<1> HIDE DEF n, e, m
<1>5. \A k \in Node, u \in Tender :
        tenders'[k][u] = IF k = n /\ u = t THEN e ELSE tenders[k][u]
  BY <1>1, <1>4, IntactTypes DEF SetTender, TablesType
<1>6. Remain
  BY <1>1, <1>4, <1>5 DEF Remain, Stays, Known
<1>7. Route(n, t)' /\ Stays(n, t)'
  BY <1>1, <1>2, <1>5 DEF Route, Stays, Known
<1>8. Routes'
  BY <1>1, <1>4, <1>6, <1>7, RoutesSet
<1>9. QueuesFit'
  BY <1>1, <1>3, <1>4, <1>6, <1>7, NetFits, BroadcastFits
<1>10. DebtsFit'
  BY <1>1, <1>2, <1>4, SameDebts, FewerFitSet
<1>11. NoLoops'
  BY <1>1, <1>2, <1>4, LoopsSet
<1>12. OffersFit' /\ PlainRuns'
  BY <1>4, IntactTypes DEF OffersFit, PlainRuns
<1> QED
  BY <1>8, <1>9, <1>10, <1>11, <1>12 DEF IntactParts

LEMMA ReplyIntact ==
    ASSUME IntactInv, NEW n \in Node, Reply(n)
    PROVE  IntactParts'
<1>1. PICK o \in owed[n] :
        /\ owed' = [owed EXCEPT ![n] = (@ \ {o}) \cup DebtAfter(o, Answer(n, o))]
        /\ IF Answer(n, o) = "silence" \/ TendersOf(n, o.rid) = {}
             THEN Nothing
             ELSE \E t \in TendersOf(n, o.rid) :
                    CASE Answer(n, o) = "refuse" -> Refuse(n, t)
                      [] Answer(n, o) = "clear" -> ClearRequest(n, t)
                      [] OTHER -> Respond(n, t, Answer(n, o))
  BY DEF Reply
<1>2. o \in Debt /\ owed \in [Node -> SUBSET Debt] /\ UNCHANGED up
  BY IntactTypes DEF Reply
<1>3. FewerDebts
  <2>1. ASSUME NEW x \in DebtAfter(o, Answer(n, o))
        PROVE  x.rid = o.rid /\ x.id = o.id /\ x.cmd = "clear"
    <3>1. x = [o EXCEPT !.cmd = "clear"]
      BY DEF DebtAfter
    <3> QED
      BY <1>2, <3>1 DEF Debt
  <2>2. \A k \in Node : \A x \in owed'[k] : x \in owed[k] \/ (k = n /\ x \in DebtAfter(o, Answer(n, o)))
    BY <1>1, <1>2
  <2> QED
    BY <2>1, <2>2 DEF FewerDebts
<1>4. CASE Nothing
  <2>1. UNCHANGED <<tenders, counter, told, net, aborted>>
    BY <1>4 DEF Nothing, tables
  <2>2. PlainRuns'
    BY <2>1, IntactTypes DEF PlainRuns
  <2> QED
    BY <1>2, <1>3, <2>1, <2>2, NetFits, NothingIntact
<1>5. CASE ~ Nothing
  <2>1. PICK t \in TendersOf(n, o.rid) :
          CASE Answer(n, o) = "refuse" -> Refuse(n, t)
            [] Answer(n, o) = "clear" -> ClearRequest(n, t)
            [] OTHER -> Respond(n, t, Answer(n, o))
    BY <1>1, <1>5
  <2>2. t \in Tender /\ Known(n, t) /\ <<o.rid, t>> \in ids[n]
    BY <2>1 DEF TendersOf, Known
  <2>3. tenders[n][t].rid = o.rid
    BY <1>2, <2>2, IntactTypes DEF Agree, Debt
  <2>4. /\ o.rid \in Nat \ {NoId} /\ o.id = t
        /\ Kind[t] # "find" => o.cmd # "deliver"
    BY <2>2, <2>3, IntactTypes DEF DebtsFit
  <2>5. tenders[n][t].typ = "remote"
    <3>1. tenders[n][t] \in Entry /\ EntryOK(n, t)
      BY <2>2, IntactTypes DEF TablesType, Known
    <3> QED
      BY <2>2, <2>3, <2>4, <3>1, TenderIsNotNumber DEF EntryOK, Entry
  <2>6. CASE Answer(n, o) = "refuse"
    <3>1. Refuse(n, t)
      BY <2>1, <2>6
    <3>2. MayRefuse(t)
      BY <1>2, <2>4, <2>6 DEF Answer, Debt
    <3> QED
      BY <1>2, <1>3, <2>2, <2>3, <2>4, <2>5, <3>1, <3>2, RefuseIntact
  <2>7. CASE Answer(n, o) = "clear"
    BY <1>2, <1>3, <2>1, <2>2, <2>7, ClearIntact
  <2>8. CASE Answer(n, o) \notin {"refuse", "clear"}
    <3>1. Respond(n, t, Answer(n, o))
      BY <2>1, <2>8
    <3>2. Answer(n, o) # "silence"
      BY <1>1, <1>5
    <3>3. Answer(n, o) \in {"data", "offer", "receipt"}
      BY <1>2, <2>8, <3>2 DEF Answer, Debt
    <3>4. Kind[t] # "find" => Answer(n, o) = "data"
      BY <1>2, <2>4, <2>8, <3>2 DEF Answer, Debt
    <3>5. Answer(n, o) \in Command /\ Answer(n, o) # "request"
      BY <3>3 DEF Command
    <3> QED
      BY <1>2, <1>3, <2>2, <2>5, <3>1, <3>4, <3>5, TransferIntact
  <2> QED
    BY <2>6, <2>7, <2>8
<1> QED
  BY <1>4, <1>5

LEMMA HearIntact ==
    ASSUME IntactInv, NEW t \in Tender, Hear(t)
    PROVE  IntactParts'
<1> DEFINE n == Asker[t]
<1>1. n \in Node /\ UNCHANGED <<up, owed>>
  BY IntactTypes DEF Hear
<1>2. FewerDebts
  BY <1>1, SameDebts
<1>3. \A u \in TendersOf(n, t) : u = t /\ Known(n, t)
  <2> SUFFICES ASSUME NEW u \in TendersOf(n, t) PROVE u = t
    BY DEF TendersOf, Known
  <2>1. u \in Tender /\ Known(n, u) /\ tenders[n][u].rid = t
    BY <1>1, IntactTypes, TenderIsNotNumber DEF TendersOf, Known, Agree
  <2> QED
    BY <1>1, <2>1, IntactTypes, TenderIsNotNumber DEF EntryOK
<1>4. CASE Nothing
  <2>1. UNCHANGED <<tenders, counter, told, net, aborted>>
    BY <1>4 DEF Nothing, tables
  <2>2. PlainRuns'
    BY <2>1, IntactTypes DEF PlainRuns
  <2> QED
    BY <1>1, <1>2, <2>1, <2>2, NetFits, NothingIntact
<1>5. CASE ~ Nothing /\ told[t][heard[t] + 1] # "offer"
  <2>1. TendersOf(n, t) # {} /\ ClearRequest(n, t)
    BY <1>5 DEF Hear
  <2>2. Known(n, t)
    BY <1>3, <2>1
  <2> QED
    BY <1>1, <1>2, <2>1, <2>2, ClearIntact
<1>6. CASE ~ Nothing /\ told[t][heard[t] + 1] = "offer"
  <2>1. \/ Abort(n)
        \/ TendersOf(n, t) # {} /\ Respond(n, t, "deliver")
    BY <1>6 DEF Hear
  <2>2. Kind[t] = "find"
    <3>1. CASE Kind[t] # "find"
      <4>1. told[t] \in Seq((Command \cup {"cancel"}) \ {"offer"})
        BY <3>1, IntactTypes DEF OffersFit
      <4>2. heard[t] \in Nat /\ heard[t] < Len(told[t])
        BY DEF Hear, IntactInv, RouterInv, OthersType
      <4>3. heard[t] + 1 \in 1 .. Len(told[t])
        BY <4>1, <4>2
      <4> QED
        BY <1>6, <4>1, <4>3
    <3> QED
      BY <3>1
  <2>3. CASE Abort(n)
    BY <1>1, <1>2, <2>2, <2>3, AbortIntact
  <2>4. CASE TendersOf(n, t) # {} /\ Respond(n, t, "deliver")
    <3>1. Known(n, t) /\ "deliver" \in Command
      BY <1>3, <2>4 DEF Command
    <3> QED
      BY <1>1, <1>2, <2>2, <2>4, <3>1, TransferIntact
  <2> QED
    BY <2>1, <2>3, <2>4
<1> QED
  BY <1>4, <1>5, <1>6


\* The first copy of a request: the new tender leads to a node that keeps it, and
\* nobody's route leads to this one.
LEMMA NewRemoteIntact ==
    ASSUME IntactInv, NEW n \in Node, NEW from \in Node, from # n, NEW m \in Message,
           Fits(from, n, m), NEW rest, Fitting(rest),
           ~ Known(n, m.id), NewRemote(n, from, m, rest), UNCHANGED <<up, told, aborted>>
    PROVE  IntactParts'
<1> DEFINE t == m.id
           rid == counter[n] + 1
           e == [rid |-> rid, typ |-> "remote", st |-> "received",
                 prs |-> {from}, hop |-> m.hop, canceled |-> FALSE]
           d == [rid |-> rid, id |-> t, cmd |-> "request"]
           m2 == [m EXCEPT !.hop = Before(m.hop)]
<1>1. t \in Tender /\ m.hop \in HopId /\ counter[n] \in Nat
  BY IntactTypes DEF Message, TablesType
<1>2. PlainRuns' /\ OffersFit'
  BY IntactTypes DEF PlainRuns, OffersFit
<1>3. CASE m.cmd # "request"
  <2>1. UNCHANGED <<tenders, counter, owed>> /\ net' = rest
    BY <1>3 DEF NewRemote, tables
  <2> QED
    BY <1>2, <2>1, SameDebts, NothingIntact
<1>4. CASE m.cmd = "request"
  <2>1. /\ SetTender(n, t, e)
        /\ counter' = [counter EXCEPT ![n] = rid]
        /\ owed' = [owed EXCEPT ![n] = @ \cup {d}]
        /\ net' = IF IsMultiwinner(t) /\ ~LastHop(m.hop)
                    THEN Broadcast(rest, n, {from}, m2) ELSE rest
    BY <1>4 DEF NewRemote
  <2>2. /\ rid \in Nat \ {NoId} /\ e.rid = rid /\ e.typ = "remote" /\ e.st = "received"
        /\ e.prs = {from} /\ e \in Entry /\ d.rid = rid /\ d.id = t /\ d.cmd = "request"
    BY <1>1 DEF NoId, Entry, RequestId
  <2>3. m2 \in Message /\ m2.cmd = "request" /\ m2.id = t
    BY <1>1, <1>4, HopBefore DEF Message
  <2>4. n \in Connected(from) /\ from \in Connected(n) /\ Stays(from, t)
    BY <1>4, Mutual DEF Fits
  <2>5. Connected(n)' = Connected(n)
    BY DEF Connected
  <2> HIDE DEF e, d, m2
  <2>6. \A k \in Node, u \in Tender :
          tenders'[k][u] = IF k = n /\ u = t THEN e ELSE tenders[k][u]
    BY <1>1, <2>1, IntactTypes DEF SetTender, TablesType
  <2>7. Remain
    BY <1>1, <2>6 DEF Remain, Stays, Known
  <2>8. Route(n, t)'
    <3>1. Stays(from, t)'
      BY <1>1, <2>4, <2>6 DEF Stays, Known
    <3> QED
      BY <1>1, <2>2, <2>4, <2>5, <2>6, <3>1 DEF Route
  <2>9. Routes'
    BY <1>1, <2>1, <2>7, <2>8, RoutesSet
  <2>10. QueuesFit'
    <3>1. CASE IsMultiwinner(t) /\ ~LastHop(m.hop)
      <4>1. Stays(n, t)'
        BY <1>1, <2>2, <2>6, <3>1, NoneAssumption DEF Stays, Known, IsMultiwinner, MayRefuse
      <4> QED
        BY <2>1, <2>3, <2>7, <3>1, <4>1, BroadcastFits
    <3>2. CASE ~ (IsMultiwinner(t) /\ ~LastHop(m.hop))
      BY <2>1, <2>7, <3>2, QueuesRemain
    <3> QED
      BY <3>1, <3>2
  <2>11. NoLoops'
    <3> SUFFICES ASSUME NEW u \in Tender, NEW S \in (SUBSET Node) \ {{}}, Kind[u] # "find"
                 PROVE  \E k \in S : \/ tenders'[k][u] = None \/ tenders'[k][u].typ = "internal"
                                     \/ tenders'[k][u].prs \cap S = {}
      BY DEF NoLoops
    <3>1. CASE u # t \/ n \notin S
      <4>1. PICK k \in S : \/ tenders[k][u] = None \/ tenders[k][u].typ = "internal"
                           \/ tenders[k][u].prs \cap S = {}
        BY IntactTypes DEF NoLoops
      <4>2. tenders'[k][u] = tenders[k][u]
        BY <2>6, <3>1
      <4> QED
        BY <4>1, <4>2
    <3>2. CASE S = {n} /\ u = t
      <4>1. tenders'[n][u].prs = {from}
        BY <2>2, <2>6, <3>2
      <4>2. tenders'[n][u].prs \cap S = {}
        BY <3>2, <4>1
      <4> QED
        BY <3>2, <4>2
    <3>3. CASE S # {n} /\ n \in S /\ u = t
      <4>1. S \ {n} \in (SUBSET Node) \ {{}}
        BY <3>3
      <4>2. PICK k \in S \ {n} : \/ tenders[k][t] = None \/ tenders[k][t].typ = "internal"
                                 \/ tenders[k][t].prs \cap (S \ {n}) = {}
        BY <1>1, <3>3, <4>1, IntactTypes, ZenonT(60) DEF NoLoops
      <4>3. tenders'[k][t] = tenders[k][t]
        BY <1>1, <2>6, <4>2
      <4>4. CASE Known(k, t) /\ tenders[k][t].typ # "internal"
        <5>1. tenders[k][t].typ = "remote"
          BY <1>1, <4>4, IntactTypes DEF TablesType, Known, Entry
        <5>2. PICK p \in Node : tenders[k][t].prs = {p} /\ Stays(p, t)
          BY <1>1, <3>3, <4>4, <5>1, IntactTypes DEF Route
        <5>3. n \notin tenders[k][t].prs
          BY <5>2 DEF Stays
        <5> QED
          BY <3>3, <4>2, <4>3, <4>4, <5>3 DEF Known
      <4> QED
        BY <3>3, <4>2, <4>3, <4>4 DEF Known
    <3> QED
      BY <3>1, <3>2, <3>3
  <2>12. DebtsFit'
    <3> SUFFICES ASSUME NEW k \in Node, NEW o \in owed'[k]
                 PROVE  /\ o.rid \in Nat \ {NoId} /\ o.rid <= counter'[k]
                        /\ Kind[o.id] # "find" => o.cmd # "deliver"
                        /\ \A u \in Tender : Known(k, u)' /\ tenders'[k][u].rid = o.rid
                              => o.id = u
      BY DEF DebtsFit
    <3>1. counter'[k] = IF k = n THEN rid ELSE counter[k]
      BY <2>1, IntactTypes DEF TablesType
    <3>2. counter[k] \in Nat /\ (o \in owed[k] \/ (k = n /\ o = d))
      BY <2>1, IntactTypes DEF TablesType
    <3>3. CASE o \in owed[k]
      <4>1. /\ o.rid \in Nat \ {NoId} /\ o.rid <= counter[k] /\ counter[k] \in Nat
            /\ Kind[o.id] # "find" => o.cmd # "deliver"
            /\ \A u \in Tender : Known(k, u) /\ tenders[k][u].rid = o.rid => o.id = u
        BY <3>3, IntactTypes DEF DebtsFit, TablesType
      <4>2. o.rid <= counter'[k] /\ (k = n => o.rid # rid)
        BY <3>1, <4>1
      <4> QED
        BY <2>2, <2>6, <4>1, <4>2 DEF Known
    <3>4. CASE k = n /\ o = d
      <4>1. ASSUME NEW u \in Tender, u # t, Known(n, u) PROVE tenders[n][u].rid # rid
        <5>1. EntryOK(n, u)
          BY IntactTypes
        <5> QED
          BY <1>1, <4>1, <5>1, TenderIsNotNumber DEF EntryOK
      <4>2. rid <= counter'[k]
        BY <1>1, <3>1, <3>4
      <4> QED
        BY <2>2, <2>6, <3>4, <4>1, <4>2 DEF Known
    <3> QED
      BY <3>2, <3>3, <3>4
  <2> QED
    BY <1>2, <2>9, <2>10, <2>11, <2>12 DEF IntactParts
<1> QED
  BY <1>3, <1>4


\* An answer reaches the kernel that asked, or what it is to be delivered to.
LEMMA ToKernelIntact ==
    ASSUME IntactInv, NEW n \in Node, NEW from \in Node, from # n, NEW m \in Message,
           Fits(from, n, m), NEW rest, Fitting(rest),
           Known(n, m.id), GoesToKernel(n, m), ToKernel(n, from, m, rest), UNCHANGED up
    PROVE  IntactParts'
<1> DEFINE t == m.id
           e == tenders[n][t]
           e2 == [e EXCEPT !.prs = @ \cup {from}, !.st = "confirmed"]
           d == [rid |-> e.rid, id |-> t, cmd |-> m.cmd]
<1>1. t \in Tender /\ m.cmd \in Command
  BY DEF Message
<1>2. e \in Entry /\ EntryOK(n, t) /\ Agree(n, t) /\ Route(n, t)
  BY <1>1, IntactTypes DEF TablesType, Known
<1>3. e.typ = "internal" \/ (m.cmd = "deliver" /\ Kind[t] = "find")
  BY <1>2 DEF GoesToKernel, Fits, Entry
<1>4. net' = rest
  BY DEF ToKernel
<1>5. CASE UNCHANGED <<tenders, counter, owed, told>>
  <2>1. PlainRuns'
    <3>1. CASE e.typ = "internal"
      <4>1. e.rid = t /\ e.rid # NoId /\ <<e.rid, t>> \in ids[n]
        BY <1>1, <1>2, <3>1, TenderIsNotNumber DEF EntryOK, Agree
      <4>2. UNCHANGED aborted
        BY <4>1 DEF ToKernel
      <4> QED
        BY <4>2, IntactTypes DEF PlainRuns
    <3>2. CASE e.typ # "internal"
      BY <1>1, <1>3, <3>2, AbortedRuns
    <3> QED
      BY <3>1, <3>2
  <2> QED
    BY <1>4, <1>5, <2>1, SameDebts, NothingIntact
<1>6. CASE ~ UNCHANGED <<tenders, counter, owed, told>>
  <2>1. /\ e.rid # NoId /\ SetTender(n, t, e2)
        /\ told' = IF e.rid = t THEN [told EXCEPT ![t] = Append(@, m.cmd)] ELSE told
        /\ owed' = IF e.rid = t THEN owed ELSE [owed EXCEPT ![n] = @ \cup {d}]
        /\ UNCHANGED <<counter, aborted>>
    BY <1>6 DEF ToKernel, tables
  <2>2. /\ e2.rid = e.rid /\ e2.typ = e.typ /\ e2.prs = e.prs \cup {from} /\ e2 \in Entry
        /\ e2.st = "confirmed"
        /\ d.rid = e.rid /\ d.id = t /\ d.cmd = m.cmd
    BY <1>2 DEF Entry
  <2> HIDE DEF e2, d
  <2>3. \A k \in Node, u \in Tender :
          tenders'[k][u] = IF k = n /\ u = t THEN e2 ELSE tenders[k][u]
    BY <1>1, <2>1, IntactTypes DEF SetTender, TablesType
  <2>4. Remain
    BY <2>2, <2>3, NoneAssumption DEF Remain, Stays, Known
  <2>5. Route(n, t)'
    <3>1. from \in Connected(n) /\ Connected(n)' = Connected(n)
      BY Mutual DEF Fits, Connected
    <3> QED
      BY <1>1, <1>2, <1>3, <2>2, <2>3, <3>1 DEF Route
  <2>6. QueuesFit' /\ Routes'
    BY <1>1, <1>4, <2>1, <2>4, <2>5, QueuesRemain, RoutesSet
  <2>7. NoLoops'
    BY <1>1, <1>3, <2>1, <2>2, LoopsSet
  <2>8. PlainRuns'
    BY <2>1, IntactTypes DEF PlainRuns
  <2>9. OffersFit'
    <3>1. CASE e.rid = t
      <4>1. Kind[t] # "find" => m.cmd # "offer"
        BY DEF Fits
      <4> QED
        BY <1>1, <2>1, <3>1, <4>1, OffersTold
    <3>2. CASE e.rid # t
      BY <2>1, <3>2, IntactTypes DEF OffersFit
    <3> QED
      BY <3>1, <3>2
  <2>10. DebtsFit'
    <3>1. CASE e.rid = t
      BY <1>1, <2>1, <2>2, <3>1, SameDebts, FewerFitSet
    <3>2. CASE e.rid # t
      <4>1. e.rid \in Nat \ {NoId} /\ e.rid <= counter[n] /\ Kind[t] = "find"
        BY <1>2, <1>3, <2>1, <3>2 DEF EntryOK
      <4>2. \A k \in Node, u \in Tender : Known(k, u)' =>
              Known(k, u) /\ tenders'[k][u].rid = tenders[k][u].rid
        BY <2>2, <2>3 DEF Known
      <4>3. \A k \in Node : \A o \in owed'[k] : o \in owed[k] \/ (k = n /\ o = d)
        BY <2>1, <3>2, IntactTypes
      <4>4. \A u \in Tender : Known(n, u) /\ tenders[n][u].rid = e.rid => u = t
        BY <1>1, <2>1, IntactTypes DEF UniqueIds
      <4>5. ASSUME NEW k \in Node, NEW o \in owed'[k]
            PROVE  /\ o.rid \in Nat \ {NoId} /\ o.rid <= counter'[k]
                   /\ Kind[o.id] # "find" => o.cmd # "deliver"
                   /\ \A u \in Tender : Known(k, u)' /\ tenders'[k][u].rid = o.rid
                         => o.id = u
        <5>1. CASE o \in owed[k]
          BY <2>1, <4>2, <5>1, IntactTypes DEF DebtsFit
        <5>2. CASE k = n /\ o = d
          BY <2>1, <2>2, <4>1, <4>2, <4>4, <5>2
        <5> QED
          BY <4>3, <5>1, <5>2
      <4> QED
        BY <4>5 DEF DebtsFit
    <3> QED
      BY <3>1, <3>2
  <2> QED
    BY <2>6, <2>7, <2>8, <2>9, <2>10 DEF IntactParts
<1> QED
  BY <1>5, <1>6

\* A message goes on to the peers of the tender.
LEMMA BypassIntact ==
    ASSUME IntactInv, NEW n \in Node, NEW from \in Node, from # n, NEW m \in Message,
           Fits(from, n, m), NEW rest, Fitting(rest), Known(n, m.id), ~ Ignored(n, m),
           ~ GoesToKernel(n, m), Bypass(n, from, m, rest), UNCHANGED up
    PROVE  IntactParts'
<1> DEFINE t == m.id
           e == tenders[n][t]
           e2 == [e EXCEPT !.hop = m.hop, !.prs = IF Turns(m.cmd) THEN {from} ELSE @]
           m2 == [m EXCEPT !.hop = Before(m.hop)]
<1>1. t \in Tender /\ m.hop \in HopId /\ m.cmd \in Command
  BY DEF Message
<1>2. e \in Entry /\ Route(n, t) /\ e.typ = "remote"
  <2>1. e \in Entry /\ Route(n, t)
    BY <1>1, IntactTypes DEF TablesType, Known
  <2> QED
    BY <2>1 DEF GoesToKernel, Entry
<1>3. CASE e.rid # NoId /\ ~IsMultiwinner(t)
  <2>1. UNCHANGED <<tenders, counter, owed, told>> /\ net' = rest
    BY <1>3 DEF Bypass, tables
  <2>2. CASE Kind[t] \in {"find", "record"}
    BY <1>1, <2>1, <2>2, AbortedRuns, SameDebts, NothingIntact
  <2>3. CASE Kind[t] \notin {"find", "record"}
    <3>1. Kind[t] \in {"get", "register"}
      BY <1>1, <1>3, <2>3, TenderAssumption DEF IsMultiwinner, Kinds
    <3>2. m.cmd = "data"
      BY <3>1 DEF Fits, Ignored, IgnoresRepeat
    <3>3. Stays(n, t) /\ MayRefuse(t)
      BY <3>1, <3>2 DEF Fits, MayRefuse
    <3> QED
      BY <1>2, <1>3, <3>3 DEF Stays
  <2> QED
    BY <2>2, <2>3
<1>4. CASE ~ (e.rid # NoId /\ ~IsMultiwinner(t))
  <2>1. /\ net' = SendTo(rest, n, e.prs, m2) /\ SetTender(n, t, e2)
        /\ UNCHANGED <<counter, owed, told, aborted>>
    BY <1>4 DEF Bypass
  <2>2. /\ e2 \in Entry /\ e2.rid = e.rid /\ e2.typ = e.typ /\ e2.st = e.st
        /\ Kind[t] # "find" => e2.prs = e.prs
        /\ e2.prs = e.prs \/ e2.prs = {from}
    BY <1>1, <1>2 DEF Entry, Fits, Turns
  <2>3. m2 \in Message /\ m2.cmd = m.cmd /\ m2.id = t
    BY <1>1, HopBefore DEF Message
  <2> HIDE DEF e2, m2
  <2>4. \A k \in Node, u \in Tender :
          tenders'[k][u] = IF k = n /\ u = t THEN e2 ELSE tenders[k][u]
    BY <1>1, <2>1, IntactTypes DEF SetTender, TablesType
  <2>5. Remain
    BY <2>2, <2>4, NoneAssumption DEF Remain, Stays, Known
  <2>6. Route(n, t)'
    <3>1. from \in Connected(n) /\ Connected(n)' = Connected(n)
      BY Mutual DEF Fits, Connected
    <3>2. e2.prs \subseteq Connected(n)
      BY <1>2, <2>2, <3>1 DEF Route
    <3>3. ASSUME NEW p \in Node \ {n}, Stays(p, t) PROVE Stays(p, t)'
      BY <1>1, <2>4, <3>3 DEF Stays, Known
    <3> QED
      BY <1>1, <1>2, <2>2, <2>4, <3>1, <3>2, <3>3 DEF Route
  <2>7. Routes'
    BY <1>1, <2>1, <2>5, <2>6, RoutesSet
  <2>8. NoLoops'
    BY <1>1, <2>1, <2>2, LoopsSet
  <2>9. DebtsFit'
    BY <1>1, <2>1, <2>2, SameDebts, FewerFitSet
  <2>10. OffersFit' /\ PlainRuns'
    BY <2>1, IntactTypes DEF OffersFit, PlainRuns
  <2>11. QueuesFit'
    <3>1. e.prs \subseteq Connected(n)
      BY <1>2 DEF Route
    <3>2. net' = Post(rest, n, e.prs, m2)
      <4>1. (e.prs \cap Connected(n)) \cup (IF e.prs \subseteq Connected(n) THEN {} ELSE {n})
              = e.prs
        BY <3>1
      <4> QED
        BY <2>1, <4>1 DEF SendTo
    <3>3. ASSUME NEW p \in Node, p \in e.prs PROVE Fits(n, p, m2)'
      <4>1. p \in Connected(n) /\ p # n /\ n \in Connected(p)
        BY <3>1, <3>3, Mutual
      <4>2. m.cmd = "request" => Stays(n, t)'
        BY <1>1, <1>2, <1>4, <2>2, <2>4, NoneAssumption
        DEF Stays, Known, IsMultiwinner, MayRefuse
      <4>3. Kind[t] # "find" => Stays(p, t)'
        <5>1. Kind[t] # "find" => Stays(p, t)
          BY <1>2, <3>3 DEF Route
        <5> QED
          BY <1>1, <2>5, <4>1, <5>1 DEF Remain
      <4>4. Kind[t] # "find" => m.cmd \in {"request", "data"}
        BY DEF Fits
      <4> QED
        BY <2>3, <4>1, <4>2, <4>3, <4>4 DEF Fits, Connected
    <3>4. \A p \in Node : p \in e.prs => Fits(n, p, m2)'
      BY <3>3
    <3> QED
      BY <2>3, <2>5, <3>2, <3>4, PostFits
  <2> QED
    BY <2>7, <2>8, <2>9, <2>10, <2>11 DEF IntactParts
<1> QED
  BY <1>3, <1>4


\* The head of a queue fits, and so does what is left.
LEMMA HeadFits ==
    ASSUME IntactInv, NEW p \in Node, NEW n \in Node, net[<<p, n>>] # <<>>
    PROVE  /\ Head(net[<<p, n>>]) \in Mail(p, n)
           /\ Fitting([net EXCEPT ![<<p, n>>] = Tail(@)])
<1> DEFINE c == <<p, n>>
<1>1. c \in Node \X Node /\ net[c] \in Seq(Mail(p, n))
  BY IntactTypes DEF QueuesFit
<1>2. Head(net[c]) \in Mail(p, n) /\ Tail(net[c]) \in Seq(Mail(p, n))
  BY <1>1, HeadTailProperties
<1>3. [net EXCEPT ![c] = Tail(@)] \in [Node \X Node -> Seq(MessageOf(asked))]
  BY <1>1, IntactTypes, Rest
<1>4. \A k, l \in Node : [net EXCEPT ![c] = Tail(@)][<<k, l>>] \in Seq(Mail(k, l))
  BY <1>1, <1>2, IntactTypes DEF QueuesFit, NetAsked
<1> QED
  BY <1>2, <1>3, <1>4 DEF Fitting

LEMMA ReceiveIntact ==
    ASSUME IntactInv, NEW from \in Node, NEW n \in Node, Receive(from, n)
    PROVE  IntactParts'
<1> DEFINE c == <<from, n>>
           m == Head(net[c])
           rest == [net EXCEPT ![c] = Tail(@)]
<1>1. m \in Message /\ Fits(from, n, m) /\ Fitting(rest) /\ from # n /\ UNCHANGED up
  BY HeadFits DEF Receive, Mail
<1>2. \/ ~ Known(n, m.id) /\ NewRemote(n, from, m, rest) /\ UNCHANGED <<told, aborted>>
      \/ net' = rest /\ UNCHANGED <<tables, owed, told, aborted>>
      \/ /\ Known(n, m.id) /\ ~ Ignored(n, m)
         /\ IF GoesToKernel(n, m) THEN ToKernel(n, from, m, rest)
                                  ELSE Bypass(n, from, m, rest)
  BY DEF Receive, IsNew, Known
<1> HIDE DEF c, m, rest
<1>3. CASE ~ Known(n, m.id) /\ NewRemote(n, from, m, rest) /\ UNCHANGED <<told, aborted>>
  BY <1>1, <1>3, NewRemoteIntact
<1>4. CASE net' = rest /\ UNCHANGED <<tables, owed, told, aborted>>
  <2>1. PlainRuns'
    BY <1>4, IntactTypes DEF PlainRuns
  <2>2. UNCHANGED <<tenders, counter>>
    BY <1>4 DEF tables
  <2> QED
    BY <1>1, <1>4, <2>1, <2>2, SameDebts, NothingIntact
<1>5. CASE Known(n, m.id) /\ ~ Ignored(n, m) /\ GoesToKernel(n, m) /\ ToKernel(n, from, m, rest)
  BY <1>1, <1>5, ToKernelIntact
<1>6. CASE Known(n, m.id) /\ ~ Ignored(n, m) /\ ~ GoesToKernel(n, m) /\ Bypass(n, from, m, rest)
  BY <1>1, <1>6, BypassIntact
<1> QED
  BY <1>2, <1>3, <1>4, <1>5, <1>6

\* Only a node without peers hears of a message that reached nobody.
LEMMA NackIntact ==
    ASSUME IntactInv, NEW n \in Node, Nack(n)
    PROVE  IntactParts'
<1> DEFINE m == Head(net[<<n, n>>])
           rest == [net EXCEPT ![<<n, n>>] = Tail(@)]
<1>1. m \in Message /\ Connected(n) = {} /\ Fitting(rest)
  BY HeadFits DEF Nack, Mail, Fits
<1>2. /\ net' = rest /\ UNCHANGED <<up, owed, aborted>>
      /\ IF IsNew(n, m.id) THEN UNCHANGED <<tables, told>> ELSE CleanUp(n, m.id)
  BY DEF Nack
<1>3. m.id \in Tender
  BY <1>1 DEF Message
<1> HIDE DEF m, rest
<1>4. CASE IsNew(n, m.id)
  <2>1. PlainRuns' /\ UNCHANGED <<tenders, counter, told>>
    BY <1>2, <1>4, IntactTypes DEF PlainRuns, tables
  <2> QED
    BY <1>1, <1>2, <2>1, SameDebts, NothingIntact
<1>5. CASE ~ IsNew(n, m.id)
  BY <1>1, <1>2, <1>3, <1>5, SameDebts, CleanUpIntact
<1> QED
  BY <1>4, <1>5

\* In a network without faults a connection that breaks would be one too many.
LEMMA NoFaults ==
    ASSUME Intact, IntactInv, NEW n \in Node, NEW m \in Node
    PROVE  ~ Expire(n) /\ ~ Disconnect(m, n)
<1>1. Cardinality(Edge) \in Nat /\ Cardinality(up) \in Nat
  <2>1. IsFiniteSet(Node \X Node)
    BY NodeAssumption, FS_Product
  <2> QED
    BY <2>1, NodeAssumption, FS_Subset, FS_CardinalityType DEF IntactInv, Wired
<1> QED
  BY <1>1 DEF Intact, Expire, Disconnect, IntactInv, Wired

LEMMA InitWired == Init => Wired
<1> SUFFICES ASSUME Init PROVE Wired
  OBVIOUS
<1> DEFINE Back == {<<e[2], e[1]>> : e \in Edge}
           turn == [e \in Edge |-> <<e[2], e[1]>>]
<1>1. IsFiniteSet(Edge)
  <2>1. IsFiniteSet(Node \X Node)
    BY NodeAssumption, FS_Product
  <2> QED
    BY <2>1, NodeAssumption, FS_Subset
<1>2. turn \in Surjection(Edge, Back)
  BY DEF Surjection
<1>3. IsFiniteSet(Back) /\ Cardinality(Back) <= Cardinality(Edge)
  <2> HIDE DEF Back, turn
  <2> QED
    BY <1>1, <1>2, FS_Surjection
<1>4. up = Edge \cup Back
  BY DEF Init
<1>5. \A p, n \in Node : <<p, n>> \in up => <<n, p>> \in up
  BY <1>4, NodeAssumption
<1>6. IsFiniteSet(up) /\ Cardinality(up) <= 2 * Cardinality(Edge)
  <2> HIDE DEF Back
  <2>1. /\ IsFiniteSet(Edge \cup Back)
        /\ Cardinality(Edge \cup Back) =
             Cardinality(Edge) + Cardinality(Back) - Cardinality(Edge \cap Back)
    BY <1>1, <1>3, FS_Union
  <2>2. Cardinality(Edge) \in Nat /\ Cardinality(Back) \in Nat /\ Cardinality(Edge \cap Back) \in Nat
    BY <1>1, <1>3, FS_Subset, FS_CardinalityType
  <2> QED
    BY <1>3, <1>4, <2>1, <2>2
<1> QED
  BY <1>5, <1>6 DEF Wired

LEMMA InitIntact == Init => IntactInv
<1> SUFFICES ASSUME Init PROVE IntactInv
  OBVIOUS
<1>1. QueuesFit
  BY DEF Init, QueuesFit
<1>2. Routes /\ DebtsFit /\ PlainRuns
  BY DEF Init, Routes, Route, Known, DebtsFit, PlainRuns
<1>3. OffersFit
  BY DEF Init, OffersFit
<1>4. NoLoops
  BY DEF Init, NoLoops
<1> QED
  BY <1>1, <1>2, <1>3, <1>4, InitRouter, InitWired DEF IntactInv, IntactParts

LEMMA IntactStep ==
    ASSUME Intact, IntactInv, [Next]_vars
    PROVE  IntactInv'
<1>1. RouterInv'
  BY RouterStep DEF IntactInv
<1>2. CASE UNCHANGED vars
  <2>1. UNCHANGED <<tenders, counter, net, up, owed, told, aborted>>
    BY <1>2 DEF vars, tables, kernels
  <2>2. PlainRuns'
    BY <2>1, IntactTypes DEF PlainRuns
  <2>3. IntactParts'
    BY <2>1, <2>2, NetFits, SameDebts, NothingIntact
  <2> QED
    BY <1>1, <2>1, <2>3 DEF IntactInv, Wired
<1>3. CASE Next
  <2>1. UNCHANGED up
    BY <1>3, NoFaults DEF Next, Ask, Hear, Reply, Nack, Receive
  <2>2. IntactParts'
    BY <1>3, AskIntact, HearIntact, ReplyIntact, NackIntact, ReceiveIntact, NoFaults DEF Next
  <2> QED
    BY <1>1, <2>1, <2>2 DEF IntactInv, Wired
<1> QED
  BY <1>2, <1>3

\* process_existing_tender, handle_refuse and bypass_tender_response: where no
\* connection breaks and no tender expires, the peers of a tender lead to the node
\* that asked, whatever the network and whichever copies of requests come first.
THEOREM AnswersGoHome == Intact /\ Spec => []NoLoops
<1> SUFFICES ASSUME Intact PROVE Spec => []NoLoops
  OBVIOUS
<1>1. IntactInv /\ [Next]_vars => IntactInv'
  BY IntactStep
<1>2. IntactInv => NoLoops
  BY DEF IntactInv, IntactParts
<1> QED
  BY InitIntact, <1>1, <1>2, PTL DEF Spec

\* The assertions of router.cpp and of the kernel's handlers hold in every network
\* without faults for requests that are answered along their way only.
THEOREM IntactNoAbort == Intact /\ Plain /\ Spec => []NoAbort
<1> SUFFICES ASSUME Intact, Plain PROVE Spec => []NoAbort
  OBVIOUS
<1>1. IntactInv /\ [Next]_vars => IntactInv'
  BY IntactStep
<1>2. IntactInv => NoAbort
  BY DEF IntactInv, IntactParts, PlainRuns, NoAbort
<1> QED
  BY InitIntact, <1>1, <1>2, PTL DEF Spec
=============================================================================
