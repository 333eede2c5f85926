------------------------- MODULE JournalSyncProofs -------------------------
(***************************************************************************)
(* Proofs about JournalSync, for any devices, objects, sync classes and    *)
(* bounds: no assertion about the request of a synchronisation fails, no   *)
(* kernel stays blocked, and the time a peer was last seen waits for what  *)
(* was asked for.                                                          *)
(***************************************************************************)
EXTENDS JournalSync, SequenceTheorems, TLAPS

-----------------------------------------------------------------------------
(* The inductive invariant. *)

\* Members of S in a queue
Holds(q, S) == \E i \in DOMAIN q : q[i] \in S
Few(q, S) == \A i, j \in DOMAIN q : q[i] \in S /\ q[j] \in S => i = j

\* The messages that take the synchronisation s of the object u on
Token(s, u) ==
    {m \in Message : \/ m.kind \in {"start", "ask", "list", "want"} /\ m.s = s
                     \/ m.kind = "data" /\ m.s = s /\ m.u = u}
News(s) == {n \in [s : Sync, want : Wants] : n.s = s}

Spot == {"wire", "kernel", "backup", "list", "send", "stamp"}
Site == Pair \cup Device

\* The synchronisation s of u is at x: on the way to a peer, to the kernel or from
\* backup, at the storage that lists or reads, or on the way from it to backup.
At(c, x, s, u) ==
    \/ c = "wire" /\ x \in Pair /\ Holds(wire[x], Token(s, u))
    \/ c = "kernel" /\ x \in Device /\ Holds(toKernel[x], Token(s, u))
    \/ c = "backup" /\ x \in Device /\ Holds(fromBackup[x], News(s))
    \/ c = "list" /\ x = s.by /\ s \in toList
    \/ c = "send" /\ x \in Device /\ [s |-> s, u |-> u] \in toSend[x]
    \/ c = "stamp" /\ x \in Device /\ \E y \in toStamp[x] : y.s = s /\ y.u = u

\* It is at one place at most, and on a connection there has been.
Alone(s, u) ==
    \A c \in Spot, x \in Site : At(c, x, s, u) =>
        /\ s.n <= connections
        /\ \A e \in Spot, y \in Site : At(e, y, s, u) => c = e /\ x = y

Once(s, u) ==
    /\ \A x \in Pair : Few(wire[x], Token(s, u))
    /\ \A d \in Device :
          /\ Few(toKernel[d], Token(s, u)) /\ Few(fromBackup[d], News(s))
          /\ \A y, z \in toStamp[d] : y.s = s /\ y.u = u /\ z.s = s /\ z.u = u => y = z

OneToken == \A s \in Sync, u \in Uuid \cup {None} : Alone(s, u) /\ Once(s, u)

\* Nothing was asked for u, or u is awaited.
Open(s, u) == req[s] = None \/ (req[s].st = "getting" /\ u \in req[s].left)
NotYet(s) == req[s] = None \/ req[s].st # "getting"

\* What a message under way says of the request it belongs to
Suits(m) ==
    /\ m.kind = "start" => req[m.s] = None
    /\ m.kind \in {"ask", "list"} => NotYet(m.s)
    /\ m.kind = "want" => \A u \in m.uuids : Open(m.s, u)
    /\ m.kind = "data" => Open(m.s, m.u)

Under(m) ==
    \/ \E x \in Pair : \E k \in DOMAIN wire[x] : wire[x][k] = m
    \/ \E d \in Device : \E k \in DOMAIN toKernel[d] : toKernel[d][k] = m

Requests ==
    /\ \A s \in Sync : req[s] # None => s.n <= connections
    /\ \A s \in toList : req[s] # None /\ req[s].st = "start"
    /\ \A d \in Device : \A k \in DOMAIN fromBackup[d] :
          LET s == fromBackup[d][k].s IN req[s] = None \/ req[s].st = "asked"
    /\ \A x \in Pair : \A k \in DOMAIN wire[x] : Suits(wire[x][k])
    /\ \A d \in Device : \A k \in DOMAIN toKernel[d] : Suits(toKernel[d][k])
    /\ \A d \in Device : \A y \in toSend[d] \cup toStamp[d] : Open(y.s, y.u)

\* A line or an object comes to the device that asks.
Homeward ==
    /\ \A x \in Pair : \A k \in DOMAIN wire[x] :
          wire[x][k].kind \in {"list", "data"} => wire[x][k].s.by = x[2]
    /\ \A d \in Device : \A k \in DOMAIN toKernel[d] :
          toKernel[d][k].kind \in {"list", "data"} => toKernel[d][k].s.by = d
    /\ \A d \in Device : \A k \in DOMAIN fromBackup[d] : fromBackup[d][k].s.by = d

Others(d) == {r \in mine : r.by = d}

\* After the first k messages of its queue the kernel d hears that s is
\* cancelled, and later that no synchronisation is left, unless one is.
Cancelled(d, k, s) ==
    \E i \in DOMAIN toKernel[d] :
        /\ i > k /\ toKernel[d][i].kind = "cancel" /\ toKernel[d][i].s = s
        /\ \/ Others(d) # {}
           \/ \E j \in DOMAIN toKernel[d] : j > i /\ toKernel[d][j].kind = "finished"

\* A synchronisation that has lost its tender is cancelled before it goes on.
Cancels ==
    /\ \A d \in Device : \A k \in DOMAIN toKernel[d] :
          LET m == toKernel[d][k]
          IN m.kind = "list" /\ m.s \notin mine => Cancelled(d, k, m.s)
    /\ \A d \in Device : \A k \in DOMAIN fromBackup[d] :
          LET s == fromBackup[d][k].s
          IN req[s] # None /\ s \notin mine => Cancelled(d, 0, s)

\* The link knows of a synchronisation that objects are still to come for.
LinkTold ==
    \A s \in Sync :
        (conn[<<s.by, s.of>>] = s.n /\ s \in mine /\ req[s] # None
           /\ req[s].st = "getting" /\ req[s].left # {}) => ~ finished[<<s.by, s.of>>]

SyncInv ==
    /\ TypeOK /\ ~ aborted /\ OneToken /\ Requests /\ Homeward
    /\ Cancels /\ BlockEnds /\ LinkTold

-----------------------------------------------------------------------------
(* Queues *)

LEMMA TailElements ==
    ASSUME NEW M, NEW q \in Seq(M), q # <<>>
    PROVE  /\ Head(q) \in M /\ Tail(q) \in Seq(M)
           /\ 1 \in DOMAIN q /\ Head(q) = q[1]
           /\ \A k \in DOMAIN Tail(q) : k \in Nat /\ k >= 1 /\ k + 1 \in DOMAIN q
                                        /\ Tail(q)[k] = q[k + 1]
           /\ \A k \in DOMAIN q : k # 1 => k \in Nat /\ k > 1 /\ k - 1 \in DOMAIN Tail(q)
                                             /\ Tail(q)[k - 1] = q[k]
OBVIOUS

LEMMA JoinElements ==
    ASSUME NEW M, NEW q \in Seq(M), NEW r \in Seq(M)
    PROVE  /\ q \o r \in Seq(M)
           /\ \A k \in DOMAIN q : k \in DOMAIN (q \o r) /\ (q \o r)[k] = q[k]
           /\ \A k \in DOMAIN r : Len(q) + k \in DOMAIN (q \o r) /\ (q \o r)[Len(q) + k] = r[k]
           /\ \A k \in DOMAIN (q \o r) :
                 \/ k \in DOMAIN q /\ (q \o r)[k] = q[k]
                 \/ /\ k \in Nat /\ k > Len(q) /\ k - Len(q) \in DOMAIN r
                    /\ (q \o r)[k] = r[k - Len(q)]
OBVIOUS

LEMMA TailHolds ==
    ASSUME NEW M, NEW q \in Seq(M), q # <<>>, NEW S
    PROVE  /\ Holds(Tail(q), S) => Holds(q, S)
           /\ Few(q, S) => Few(Tail(q), S)
           /\ Head(q) \in S => Holds(q, S)
           /\ Head(q) \in S /\ Few(q, S) => ~ Holds(Tail(q), S)
<1>1. Holds(Tail(q), S) => Holds(q, S)
  BY TailElements DEF Holds
<1>2. ASSUME Few(q, S) PROVE Few(Tail(q), S)
  <2> SUFFICES ASSUME NEW i \in DOMAIN Tail(q), NEW j \in DOMAIN Tail(q),
                      Tail(q)[i] \in S, Tail(q)[j] \in S
               PROVE  i = j
    BY DEF Few
  <2>1. i + 1 = j + 1
    BY <1>2, TailElements DEF Few
  <2> QED
    BY <2>1, TailElements
<1>3. Head(q) \in S => Holds(q, S)
  BY TailElements DEF Holds
<1>4. ASSUME Head(q) \in S, Few(q, S), Holds(Tail(q), S) PROVE FALSE
  <2>1. PICK i \in DOMAIN Tail(q) : Tail(q)[i] \in S
    BY <1>4 DEF Holds
  <2>2. i \in Nat /\ i >= 1 /\ i + 1 \in DOMAIN q /\ q[i + 1] \in S
    BY <2>1, TailElements
  <2>3. i + 1 = 1
    BY <1>4, <2>2, TailElements DEF Few
  <2> QED
    BY <2>2, <2>3
<1> QED
  BY <1>1, <1>2, <1>3, <1>4

LEMMA JoinHolds ==
    ASSUME NEW M, NEW q \in Seq(M), NEW r \in Seq(M), NEW S
    PROVE  /\ Holds(q \o r, S) <=> Holds(q, S) \/ Holds(r, S)
           /\ Few(q, S) /\ Few(r, S) /\ ~ (Holds(q, S) /\ Holds(r, S)) => Few(q \o r, S)
<1>1. Holds(q \o r, S) => Holds(q, S) \/ Holds(r, S)
  BY JoinElements DEF Holds
<1>2. Holds(q, S) => Holds(q \o r, S)
  BY JoinElements DEF Holds
<1>4. ASSUME Holds(r, S) PROVE Holds(q \o r, S)
  <2>1. PICK k \in DOMAIN r : r[k] \in S
    BY <1>4 DEF Holds
  <2>2. Len(q) + k \in DOMAIN (q \o r) /\ (q \o r)[Len(q) + k] \in S
    BY <2>1, JoinElements
  <2> QED
    BY <2>2 DEF Holds
<1>3. ASSUME Few(q, S), Few(r, S), ~ (Holds(q, S) /\ Holds(r, S)) PROVE Few(q \o r, S)
  <2> SUFFICES ASSUME NEW i \in DOMAIN (q \o r), NEW j \in DOMAIN (q \o r),
                      (q \o r)[i] \in S, (q \o r)[j] \in S
               PROVE  i = j
    BY DEF Few
  <2>1. CASE i \in DOMAIN q /\ j \in DOMAIN q
    BY <1>3, <2>1, JoinElements DEF Few
  <2>2. CASE i \notin DOMAIN q /\ j \notin DOMAIN q
    <3>1. i - Len(q) = j - Len(q)
      BY <1>3, <2>2, JoinElements DEF Few
    <3> QED
      BY <2>2, <3>1, JoinElements
  <2>3. CASE (i \in DOMAIN q /\ j \notin DOMAIN q) \/ (i \notin DOMAIN q /\ j \in DOMAIN q)
    BY <1>3, <2>3, JoinElements DEF Holds
  <2> QED
    BY <2>1, <2>2, <2>3
<1> QED
  BY <1>1, <1>2, <1>3, <1>4

LEMMA OneHolds ==
    ASSUME NEW m, NEW S
    PROVE  Few(<<m>>, S) /\ (Holds(<<m>>, S) <=> m \in S) /\ <<m>> # <<>>
           /\ Few(<<>>, S) /\ ~ Holds(<<>>, S)
BY DEF Few, Holds

LEMMA AppendHolds ==
    ASSUME NEW M, NEW q \in Seq(M), NEW m \in M, NEW S
    PROVE  /\ Append(q, m) \in Seq(M)
           /\ Holds(Append(q, m), S) <=> Holds(q, S) \/ m \in S
           /\ Few(q, S) /\ ~ (Holds(q, S) /\ m \in S) => Few(Append(q, m), S)
<1>1. Append(q, m) = q \o <<m>> /\ <<m>> \in Seq(M) /\ Append(q, m) \in Seq(M)
  OBVIOUS
<1> DEFINE r == <<m>>
<1>2. Few(r, S) /\ (Holds(r, S) <=> m \in S)
  BY OneHolds
<1>3. r \in Seq(M) /\ Append(q, m) = q \o r
  BY <1>1
<1> HIDE DEF r
<1>4. /\ Holds(q \o r, S) <=> Holds(q, S) \/ Holds(r, S)
      /\ Few(q, S) /\ Few(r, S) /\ ~ (Holds(q, S) /\ Holds(r, S)) => Few(q \o r, S)
  BY <1>3, JoinHolds
<1> QED
  BY <1>1, <1>2, <1>3, <1>4, Zenon

-----------------------------------------------------------------------------
(* Types *)

LEMMA MessageFields ==
    ASSUME NEW m \in Message
    PROVE  /\ m.kind \in {"ask", "start", "list", "want", "data", "done", "cancel", "finished",
                          "change"}
           /\ m.kind \in {"ask", "start"} => m.s \in Sync /\ m.since \in 0 .. MaxNow
           /\ m.kind \in {"list", "want", "data", "done", "cancel"} => m.s \in Sync
           /\ m.kind \in {"ask", "want"} => m.uuids \in SUBSET Uuid
           /\ m.kind = "list" => m.lines \in SUBSET [u : Uuid, entry : Entry]
           /\ m.kind = "data" => m.u \in Uuid /\ m.label \in Label /\ m.content \in Label
           /\ m.kind = "change" => m.u \in Uuid /\ m.entry \in Entry
BY DEF Message

LEMMA MessagesMade ==
    ASSUME NEW s \in Sync
    PROVE  /\ \A u \in SUBSET Uuid, t \in 0 .. MaxNow :
                 /\ [kind |-> "ask", s |-> s, uuids |-> u, since |-> t] \in Message
                 /\ [kind |-> "ask", s |-> s, since |-> t, uuids |-> u] \in Message
           /\ \A t \in 0 .. MaxNow : [kind |-> "start", s |-> s, since |-> t] \in Message
           /\ \A l \in SUBSET [u : Uuid, entry : Entry] :
                 [kind |-> "list", s |-> s, lines |-> l] \in Message
           /\ \A u \in SUBSET Uuid : [kind |-> "want", s |-> s, uuids |-> u] \in Message
           /\ \A u \in Uuid, l \in Label, c \in Label :
                 [kind |-> "data", s |-> s, u |-> u, label |-> l, content |-> c] \in Message
           /\ [kind |-> "done", s |-> s] \in Message /\ [kind |-> "cancel", s |-> s] \in Message
BY DEF Message

LEMMA OtherMessages ==
    /\ [kind |-> "finished"] \in Message
    /\ \A u \in Uuid, e \in Entry : [kind |-> "change", u |-> u, entry |-> e] \in Message
BY DEF Message

BooksType ==
    /\ json \in [Device -> [Uuid -> Entry \cup {None}]]
    /\ file \in [Device -> [Uuid -> Entry \cup {None}]]
    /\ store \in [Device -> [Uuid -> Label \cup {None}]]
    /\ writing \in [Device -> SUBSET [u : Uuid, content : Label \cup {None}]]
    /\ noting \in [Device -> SUBSET [u : Uuid, entry : Entry]]
LinkType ==
    /\ seen \in [Pair -> 0 .. MaxNow] /\ heard \in [Pair -> 0 .. MaxNow]
    /\ finished \in [Pair -> BOOLEAN] /\ conn \in [Pair -> 0 .. MaxConnections]
    /\ \A x \in Pair : conn[x] = conn[<<x[2], x[1]>>]
MailType ==
    /\ wire \in [Pair -> Seq(Message)] /\ toKernel \in [Device -> Seq(Message)]
    /\ fromBackup \in [Device -> Seq([s : Sync, want : Wants])]
RequestType == req \in [Sync -> Request \cup {None}]
ServingType ==
    /\ mine \subseteq Sync /\ theirs \subseteq Sync /\ toList \subseteq Sync
    /\ toSend \in [Device -> SUBSET [s : Sync, u : Uuid]]
    /\ toStamp \in [Device -> SUBSET [s : Sync, u : Uuid, content : Label]]
BoundsType ==
    /\ now \in 0 .. MaxNow /\ connections \in 0 .. MaxConnections
    /\ restarts \in 0 .. MaxRestarts /\ hasty \in 0 .. MaxHasty
    /\ blocked \in [Device -> BOOLEAN] /\ aborted \in BOOLEAN

LEMMA TypeParts ==
    /\ TypeOK <=> /\ BooksType /\ LinkType /\ MailType /\ RequestType /\ ServingType
                  /\ BoundsType
    /\ TypeOK' <=> /\ BooksType' /\ LinkType' /\ MailType' /\ RequestType' /\ ServingType'
                   /\ BoundsType'
BY DEF TypeOK, BooksType, LinkType, MailType, RequestType, ServingType, BoundsType

LEMMA PartsUnchanged ==
    ASSUME TypeOK
    PROVE  /\ UNCHANGED books => BooksType'
           /\ UNCHANGED link => LinkType'
           /\ UNCHANGED <<toKernel, wire, fromBackup>> => MailType'
           /\ UNCHANGED req => RequestType'
           /\ UNCHANGED <<mine, theirs, toList, toSend, toStamp>> => ServingType'
           /\ UNCHANGED <<bounds, blocked, aborted>> => BoundsType'
BY DEF TypeOK, BooksType, LinkType, MailType, RequestType, ServingType, BoundsType, link, bounds,
   books

LEMMA QueueTypes ==
    ASSUME TypeOK
    PROVE  /\ wire \in [Pair -> Seq(Message)] /\ toKernel \in [Device -> Seq(Message)]
           /\ \A x \in Pair : wire[x] \in Seq(Message)
           /\ \A d \in Device : toKernel[d] \in Seq(Message)
                                /\ fromBackup[d] \in Seq([s : Sync, want : Wants])
BY DEF TypeOK

LEMMA SentType ==
    ASSUME TypeOK, NEW from, NEW to, NEW s, NEW m \in Message
    PROVE  Sent(from, to, s, m) \in [Pair -> Seq(Message)]
<1>1. wire \in [Pair -> Seq(Message)]
  BY DEF TypeOK
<1>2. \A x \in Pair : Append(wire[x], m) \in Seq(Message)
  BY <1>1
<1>3. [wire EXCEPT ![<<from, to>>] = Append(@, m)] \in [Pair -> Seq(Message)]
  BY <1>1, <1>2, Zenon
<1> QED
  BY <1>1, <1>3 DEF Sent

LEMMA LastOfType ==
    ASSUME NEW s
    PROVE  LastOf(s) \in Seq({[kind |-> "finished"]}) /\ LastOf(s) \in Seq(Message)
<1> DEFINE m == [kind |-> "finished"]
<1>1. LastOf(s) = <<m>> \/ LastOf(s) = <<>>
  BY Zenon DEF LastOf
<1>2. m \in Message
  BY OtherMessages
<1>3. LastOf(s) \in Seq({m}) /\ LastOf(s) \in Seq(Message)
  <2> HIDE DEF m
  <2>1. <<m>> \in Seq({m}) /\ <<>> \in Seq({m})
    OBVIOUS
  <2>2. <<m>> \in Seq(Message) /\ <<>> \in Seq(Message)
    BY <1>2
  <2> QED
    BY <1>1, <2>1, <2>2, Zenon
<1> QED
  BY <1>3

LEMMA PostedType ==
    ASSUME TypeOK, NEW d \in Device
    PROVE  /\ \A ms \in Seq(Message) : Posted(toKernel, d, ms) \in [Device -> Seq(Message)]
           /\ \A ms \in Seq(Message) :
                 toKernel[d] # <<>> => Handled(toKernel, d, ms) \in [Device -> Seq(Message)]
           /\ \A ms \in Seq([s : Sync, want : Wants]) :
                 Posted(fromBackup, d, ms) \in [Device -> Seq([s : Sync, want : Wants])]
           /\ fromBackup[d] # <<>> =>
                 Handled(fromBackup, d, <<>>) \in [Device -> Seq([s : Sync, want : Wants])]
<1> DEFINE N == [s : Sync, want : Wants]
<1>1. ASSUME NEW ms \in Seq(Message) PROVE Posted(toKernel, d, ms) \in [Device -> Seq(Message)]
  BY JoinElements DEF TypeOK, Posted
<1>2. ASSUME NEW ms \in Seq(Message), toKernel[d] # <<>>
      PROVE  Handled(toKernel, d, ms) \in [Device -> Seq(Message)]
  <2>1. Tail(toKernel[d]) \o ms \in Seq(Message)
    BY <1>2, QueueTypes, TailElements, JoinElements
  <2> QED
    BY <2>1 DEF TypeOK, Handled
<1>3. ASSUME NEW ms \in Seq(N) PROVE Posted(fromBackup, d, ms) \in [Device -> Seq(N)]
  <2>1. fromBackup \in [Device -> Seq(N)]
    BY DEF TypeOK
  <2> HIDE DEF N
  <2> QED
    BY <2>1, JoinElements DEF Posted
<1>4. ASSUME fromBackup[d] # <<>> PROVE Handled(fromBackup, d, <<>>) \in [Device -> Seq(N)]
  <2>1. fromBackup \in [Device -> Seq(N)]
    BY DEF TypeOK
  <2> HIDE DEF N
  <2>2. Tail(fromBackup[d]) \o <<>> \in Seq(N)
    BY <1>4, <2>1, TailElements, JoinElements
  <2> QED
    BY <2>1, <2>2 DEF Handled
<1> QED
  BY <1>1, <1>2, <1>3, <1>4, Zenon

LEMMA CleanUpType ==
    ASSUME TypeOK, NEW s \in Sync, CleanUp(s)
    PROVE  mine' \subseteq Sync /\ finished' \in [Pair -> BOOLEAN]
BY DEF TypeOK, CleanUp

LEMMA FinishType ==
    ASSUME TypeOK, NEW s \in Sync, NEW d \in Device, NEW rest \in Seq(Message),
           Finish(s, d, rest)
    PROVE  /\ mine' \subseteq Sync /\ finished' \in [Pair -> BOOLEAN]
           /\ wire' \in [Pair -> Seq(Message)] /\ toKernel' \in [Device -> Seq(Message)]
<1>1. rest \o LastOf(s) \in Seq(Message)
  BY LastOfType, JoinElements
<1>2. CASE s \in mine
  <2>1. CleanUp(s)
    BY <1>2 DEF Finish
  <2>2. wire' = Sent(d, s.of, s, [kind |-> "done", s |-> s])
    BY <1>2 DEF Finish
  <2>3. wire' \in [Pair -> Seq(Message)]
    BY <2>2, SentType, MessagesMade
  <2>4. toKernel' \in [Device -> Seq(Message)]
    BY <1>1, <1>2 DEF Finish, TypeOK
  <2> QED
    BY <2>1, <2>3, <2>4, CleanUpType
<1>3. CASE s \notin mine
  BY <1>3, ZenonT(60) DEF Finish, TypeOK
<1> QED
  BY <1>2, <1>3

LEMMA ChangeType ==
    ASSUME TypeOK, NEW d \in Device, NEW u \in Uuid, NEW deleted \in BOOLEAN,
           Change(d, u, deleted)
    PROVE  TypeOK'
<1> DEFINE known == json[d][u] # None
           label == [v |-> IF known THEN json[d][u].label.v + 1 ELSE 1, t |-> now']
           entry == [label |-> label, deleted |-> deleted]
           m == [kind |-> "change", u |-> u, entry |-> entry]
<1>1. label \in Label /\ entry \in Entry
  BY DEF Change, Entry
<1>2. BooksType'
  <2>1. store' \in [Device -> [Uuid -> Label \cup {None}]]
    BY <1>1 DEF Change, TypeOK
  <2>2. noting' \in [Device -> SUBSET [u : Uuid, entry : Entry]]
    BY <1>1 DEF Change, TypeOK
  <2> QED
    BY <2>1, <2>2 DEF Change, TypeOK, BooksType
<1>3. MailType'
  <2>1. m \in Message
    BY <1>1, OtherMessages
  <2>2. wire' = [x \in Pair |-> IF x[1] # d \/ conn[x] = 0 THEN wire[x] ELSE Append(wire[x], m)]
    BY Zenon DEF Change
  <2> HIDE DEF m
  <2>3. wire' \in [Pair -> Seq(Message)]
    BY <2>1, <2>2, QueueTypes
  <2> QED
    BY <2>3 DEF Change, TypeOK, MailType
<1>4. BoundsType'
  <2>1. now' \in 0 .. MaxNow
    BY JournalAssumption DEF Change, TypeOK
  <2> QED
    BY <2>1 DEF Change, TypeOK, BoundsType
<1>5. UNCHANGED <<link, req, tenders, serving>>
  BY DEF Change
<1> QED
  BY <1>2, <1>3, <1>4, <1>5, TypeParts, PartsUnchanged DEF tenders, serving

LEMMA NotedType ==
    ASSUME NEW j \in [Uuid -> Entry \cup {None}], NEW u \in Uuid, NEW e \in Entry
    PROVE  Noted(j, u, e) \in [Uuid -> Entry \cup {None}]
BY DEF Noted

LEMMA JournalStepTypes ==
    ASSUME TypeOK, NEW d \in Device, Note(d) \/ Write(d) \/ Save(d)
    PROVE  TypeOK'
<1>1. BooksType'
  <2>1. CASE Note(d)
    <3>1. PICK n \in noting[d] :
             /\ json' = [json EXCEPT ![d] = Noted(@, n.u, n.entry)]
             /\ noting' = [noting EXCEPT ![d] = @ \ {n}]
      BY <2>1 DEF Note
    <3>2. json' \in [Device -> [Uuid -> Entry \cup {None}]]
      <4>1. n.u \in Uuid /\ n.entry \in Entry /\ json[d] \in [Uuid -> Entry \cup {None}]
        BY DEF TypeOK
      <4> QED
        BY <3>1, <4>1, NotedType DEF TypeOK
    <3>3. noting' \in [Device -> SUBSET [u : Uuid, entry : Entry]]
      BY <3>1 DEF TypeOK
    <3> QED
      BY <2>1, <3>2, <3>3 DEF Note, TypeOK, BooksType
  <2>2. CASE Write(d)
    <3>1. PICK w \in writing[d] :
             /\ store' = [store EXCEPT ![d][w.u] = w.content]
             /\ writing' = [writing EXCEPT ![d] = @ \ {w}]
      BY <2>2 DEF Write
    <3>2. store' \in [Device -> [Uuid -> Label \cup {None}]]
      <4>1. w.u \in Uuid /\ w.content \in Label \cup {None}
        BY DEF TypeOK
      <4> QED
        BY <3>1, <4>1 DEF TypeOK
    <3>3. writing' \in [Device -> SUBSET [u : Uuid, content : Label \cup {None}]]
      BY <3>1 DEF TypeOK
    <3> QED
      BY <2>2, <3>2, <3>3 DEF Write, TypeOK, BooksType
  <2>3. CASE Save(d)
    <3>1. file' \in [Device -> [Uuid -> Entry \cup {None}]]
      BY <2>3 DEF Save, TypeOK
    <3> QED
      BY <2>3, <3>1 DEF Save, TypeOK, BooksType
  <2> QED
    BY <2>1, <2>2, <2>3
<1>2. UNCHANGED <<link, wire, tenders, toKernel, fromBackup, req, blocked, serving, bounds,
                  aborted>>
  BY DEF Note, Write, Save
<1> QED
  BY <1>1, <1>2, TypeParts, PartsUnchanged DEF tenders, serving

LEMMA LastSeenType ==
    ASSUME TypeOK, NEW ds, NEW xs
    PROVE  LastSeen(ds, xs) \in [Pair -> 0 .. MaxNow]
BY DEF TypeOK, LastSeen

LEMMA PairBack ==
    /\ \A x \in Pair : <<x[2], x[1]>> \in Pair /\ x = <<x[1], x[2]>> /\ x[1] \in Device
                       /\ x[2] \in Device /\ x[1] # x[2]
    /\ \A d, p \in Device : d # p => <<d, p>> \in Pair
BY DEF Pair

LEMMA ConnectType ==
    ASSUME TypeOK, NEW d \in Device, NEW p \in Device, d # p, Connect(d, p)
    PROVE  TypeOK'
<1> DEFINE both == {<<d, p>>, <<p, d>>}
           s(x) == [by |-> x[1], of |-> x[2], n |-> connections']
           asks(x) == s(x) \in Asking /\ SyncClass[x[1]] = 1
           starts(x) == s(x) \in Asking /\ SyncClass[x[1]] = 0
           ask(x) == [kind |-> "ask", s |-> s(x), uuids |-> Uuid, since |-> seen[x]]
           start(x) == [kind |-> "start", s |-> s(x), since |-> seen[x]]
           way(e) == IF e = d THEN <<d, p>> ELSE <<p, d>>
<1>1. connections' = connections + 1 /\ connections' \in 1 .. MaxConnections
  <2>1. connections' = connections + 1 /\ connections < MaxConnections
    BY Zenon DEF Connect
  <2>2. connections \in 0 .. MaxConnections /\ MaxConnections \in Nat
    BY JournalAssumption DEF TypeOK
  <2> QED
    BY <2>1, <2>2
<1>2. both \subseteq Pair
  BY PairBack
<1>3. \A x \in Pair : s(x) \in Sync
  BY <1>1, PairBack DEF Sync
<1>4. \A x \in Pair : ask(x) \in Message /\ start(x) \in Message
  BY <1>3, MessagesMade DEF TypeOK
<1>5. /\ conn' = [x \in Pair |-> IF x \in both THEN connections' ELSE conn[x]]
      /\ heard' = [x \in Pair |-> IF x \in both THEN now ELSE heard[x]]
      /\ finished' = [x \in Pair |-> IF x \in both THEN TRUE ELSE finished[x]]
      /\ wire' = [x \in Pair |-> IF x \in both /\ asks(x) THEN <<ask(x)>> ELSE wire[x]]
      /\ mine' = mine \cup {s(x) : x \in {y \in both : starts(y)}}
      /\ toKernel' = [e \in Device |-> toKernel[e] \o
            (IF e \in {d, p} /\ starts(way(e)) THEN <<start(way(e))>> ELSE <<>>)]
  BY Zenon DEF Connect
<1>6. UNCHANGED <<books, seen, theirs, fromBackup, req, blocked, serving, now, restarts,
                  hasty, aborted>>
  BY DEF Connect
<1>7. LinkType'
  <2>1. \A x \in Pair : x \in both <=> <<x[2], x[1]>> \in both
    BY PairBack
  <2>2. \A x \in Pair : conn[x] = conn[<<x[2], x[1]>>]
    BY DEF TypeOK
  <2> HIDE DEF both
  <2>3. \A x \in Pair : conn'[x] = conn'[<<x[2], x[1]>>]
    BY <1>5, <2>1, <2>2, PairBack, Zenon
  <2>4. conn' \in [Pair -> 0 .. MaxConnections]
    <3>1. connections' \in 0 .. MaxConnections /\ conn \in [Pair -> 0 .. MaxConnections]
      BY <1>1, JournalAssumption DEF TypeOK
    <3> QED
      BY <1>5, <3>1
  <2>5. heard' \in [Pair -> 0 .. MaxNow]
    BY <1>5 DEF TypeOK
  <2>6. finished' \in [Pair -> BOOLEAN]
    BY <1>5 DEF TypeOK
  <2> QED
    BY <1>6, <2>3, <2>4, <2>5, <2>6 DEF LinkType, TypeOK
<1>8. MailType'
  <2> HIDE DEF ask, start, way, asks, starts
  <2>1. wire' \in [Pair -> Seq(Message)]
    BY <1>4, <1>5, QueueTypes
  <2>2. \A e \in {d, p} : way(e) \in Pair
    BY <1>2 DEF way
  <2>3. \A e \in Device : toKernel'[e] \in Seq(Message)
    BY <1>4, <1>5, <2>2, QueueTypes, JoinElements
  <2>4. toKernel' \in [Device -> Seq(Message)]
    BY <1>5, <2>3
  <2> QED
    BY <1>6, <2>1, <2>4 DEF MailType, TypeOK
<1>9. ServingType'
  <2>1. mine' \subseteq Sync
    BY <1>2, <1>3, <1>5 DEF TypeOK
  <2> QED
    BY <1>6, <2>1 DEF ServingType, TypeOK, serving
<1>10. BoundsType'
  BY <1>1, <1>6 DEF BoundsType, TypeOK
<1> QED
  BY <1>6, <1>7, <1>8, <1>9, <1>10, TypeParts, PartsUnchanged

LEMMA DisconnectType ==
    ASSUME TypeOK, NEW d \in Device, NEW p \in Device, d # p, Disconnect(d, p)
    PROVE  TypeOK'
<1> DEFINE both == {<<d, p>>, <<p, d>>}
<1>1. /\ seen' = LastSeen(Device, both)
      /\ conn' = [x \in Pair |-> IF x \in both THEN 0 ELSE conn[x]]
      /\ wire' = [x \in Pair |-> IF x \in both THEN <<>> ELSE wire[x]]
  BY Zenon DEF Disconnect
<1>2. UNCHANGED <<books, heard, finished, tenders, toKernel, fromBackup, req, blocked,
                  serving, bounds, aborted>>
  BY DEF Disconnect
<1>3. LinkType'
  <2>1. \A x \in Pair : x \in both <=> <<x[2], x[1]>> \in both
    BY PairBack
  <2>2. \A x \in Pair : conn[x] = conn[<<x[2], x[1]>>]
    BY DEF TypeOK
  <2>3. seen' \in [Pair -> 0 .. MaxNow]
    BY <1>1, LastSeenType
  <2> HIDE DEF both
  <2>4. \A x \in Pair : conn'[x] = conn'[<<x[2], x[1]>>]
    BY <1>1, <2>1, <2>2, PairBack, Zenon
  <2>5. conn' \in [Pair -> 0 .. MaxConnections]
    BY <1>1, JournalAssumption DEF TypeOK
  <2> QED
    BY <1>2, <2>3, <2>4, <2>5 DEF LinkType, TypeOK
<1>4. wire' \in [Pair -> Seq(Message)]
  BY <1>1, QueueTypes
<1>5. MailType'
  BY <1>2, <1>4 DEF MailType, TypeOK
<1> QED
  BY <1>2, <1>3, <1>5, TypeParts, PartsUnchanged DEF tenders, serving

LEMMA RestartType ==
    ASSUME TypeOK, NEW d \in Device, NEW clean \in BOOLEAN, Restart(d, clean)
    PROVE  TypeOK'
<1> DEFINE its == {x \in Pair : d \in {x[1], x[2]}}
           last == LastSeen(IF clean THEN Device ELSE Device \ {d}, its)
<1>1. /\ restarts < MaxRestarts /\ restarts' = restarts + 1
      /\ json' = [json EXCEPT ![d] = IF clean THEN @ ELSE file[d]]
      /\ file' = [file EXCEPT ![d] = json'[d]]
      /\ writing' = [writing EXCEPT ![d] = {}] /\ noting' = [noting EXCEPT ![d] = {}]
      /\ seen' = last \/ seen' = [x \in Pair |-> IF x[1] = d THEN 0 ELSE last[x]]
      /\ conn' = [x \in Pair |-> IF x \in its THEN 0 ELSE conn[x]]
      /\ wire' = [x \in Pair |-> IF x \in its THEN <<>> ELSE wire[x]]
  BY Zenon DEF Restart
<1>2. /\ mine' = {s \in mine : s.by # d} /\ theirs' = {s \in theirs : s.of # d}
      /\ toKernel' = [toKernel EXCEPT ![d] = <<>>]
      /\ fromBackup' = [fromBackup EXCEPT ![d] = <<>>]
      /\ req' = [s \in Sync |-> IF s.by = d THEN None ELSE req[s]]
      /\ blocked' = [blocked EXCEPT ![d] = FALSE]
      /\ toList' = {s \in toList : s.by # d}
      /\ toSend' = [toSend EXCEPT ![d] = {}] /\ toStamp' = [toStamp EXCEPT ![d] = {}]
      /\ UNCHANGED <<store, heard, finished, now, connections, hasty, aborted>>
  BY Zenon DEF Restart
<1>3. BooksType'
  <2>1. json' \in [Device -> [Uuid -> Entry \cup {None}]]
    BY <1>1 DEF TypeOK
  <2>2. file' \in [Device -> [Uuid -> Entry \cup {None}]]
    BY <1>1, <2>1 DEF TypeOK
  <2> QED
    BY <1>1, <1>2, <2>1, <2>2 DEF TypeOK, BooksType
<1>4. LinkType'
  <2>1. \A x \in Pair : x \in its <=> <<x[2], x[1]>> \in its
    BY PairBack
  <2>2. \A x \in Pair : conn[x] = conn[<<x[2], x[1]>>]
    BY DEF TypeOK
  <2>3. last \in [Pair -> 0 .. MaxNow]
    BY LastSeenType
  <2> HIDE DEF its, last
  <2>4. seen' \in [Pair -> 0 .. MaxNow]
    <3>1. [x \in Pair |-> IF x[1] = d THEN 0 ELSE last[x]] \in [Pair -> 0 .. MaxNow]
      BY <2>3, JournalAssumption
    <3> QED
      BY <1>1, <2>3, <3>1
  <2>5. \A x \in Pair : conn'[x] = conn'[<<x[2], x[1]>>]
    BY <1>1, <2>1, <2>2, PairBack, Zenon
  <2>6. conn' \in [Pair -> 0 .. MaxConnections]
    BY <1>1, JournalAssumption DEF TypeOK
  <2> QED
    BY <1>2, <2>4, <2>5, <2>6 DEF LinkType, TypeOK
<1>5. MailType'
  <2>1. wire' \in [Pair -> Seq(Message)]
    BY <1>1, QueueTypes
  <2>2. toKernel' \in [Device -> Seq(Message)]
    BY <1>2 DEF TypeOK
  <2>3. fromBackup' \in [Device -> Seq([s : Sync, want : Wants])]
    <3> DEFINE N == [s : Sync, want : Wants]
    <3>1. fromBackup \in [Device -> Seq(N)]
      BY DEF TypeOK
    <3> HIDE DEF N
    <3>2. fromBackup' \in [Device -> Seq(N)]
      BY <1>2, <3>1
    <3> QED
      BY <3>2 DEF N
  <2> QED
    BY <2>1, <2>2, <2>3 DEF MailType
<1>6. RequestType' /\ ServingType'
  BY <1>2 DEF RequestType, ServingType, TypeOK
<1>7. BoundsType'
  BY <1>1, <1>2, JournalAssumption DEF BoundsType, TypeOK
<1> QED
  BY <1>3, <1>4, <1>5, <1>6, <1>7, TypeParts

LEMMA ReceiveType ==
    ASSUME TypeOK, NEW p \in Device, NEW d \in Device, p # d, Receive(p, d)
    PROVE  TypeOK'
<1> DEFINE m == Head(wire[<<p, d>>])
<1>1. <<p, d>> \in Pair /\ <<d, p>> \in Pair
  BY PairBack
<1>2. m \in Message /\ Tail(wire[<<p, d>>]) \in Seq(Message)
  BY <1>1, QueueTypes, TailElements DEF Receive
<1> HIDE DEF m
<1>3. /\ wire' = [wire EXCEPT ![<<p, d>>] = Tail(@)]
      /\ heard' = [heard EXCEPT ![<<d, p>>] = now]
      /\ theirs' = CASE m.kind = "ask" -> theirs \cup {m.s}
                     [] m.kind = "done" -> theirs \ {m.s}
                     [] OTHER -> theirs
      /\ mine' = IF m.kind = "list" THEN mine \cup {m.s} ELSE mine
      /\ toKernel' = IF Passes(m) THEN Posted(toKernel, d, <<m>>) ELSE toKernel
  BY Zenon DEF Receive, m
<1>4. UNCHANGED <<books, seen, finished, conn, fromBackup, req, blocked, serving, bounds,
                  aborted>>
  BY DEF Receive
<1>5. LinkType'
  BY <1>3, <1>4 DEF LinkType, TypeOK
<1>6. MailType'
  <2>1. wire' \in [Pair -> Seq(Message)]
    BY <1>1, <1>2, <1>3 DEF TypeOK
  <2>2. <<m>> \in Seq(Message)
    BY <1>2
  <2>3. toKernel' \in [Device -> Seq(Message)]
    BY <1>3, <2>2, PostedType DEF TypeOK
  <2> QED
    BY <1>4, <2>1, <2>3 DEF MailType, TypeOK
<1>7. ServingType'
  <2>1. m.kind \in {"ask", "list"} => m.s \in Sync
    BY <1>2, MessageFields
  <2>2. theirs' \subseteq Sync
    BY <1>3, <2>1 DEF TypeOK
  <2>3. mine' \subseteq Sync
    BY <1>3, <2>1 DEF TypeOK
  <2> QED
    BY <1>4, <2>2, <2>3 DEF ServingType, TypeOK, serving
<1> QED
  BY <1>4, <1>5, <1>6, <1>7, TypeParts, PartsUnchanged

LEMMA ExpireType ==
    ASSUME TypeOK, NEW s \in Sync, Expire(s) \/ ExpireTheirs(s)
    PROVE  TypeOK'
<1>1. hasty' \in 0 .. MaxHasty
  BY JournalAssumption DEF Expire, ExpireTheirs, Expires, TypeOK
<1>2. CASE Expire(s)
  <2>1. s.by \in Device
    BY DEF Sync
  <2>2. <<[kind |-> "cancel", s |-> s]>> \o LastOf(s) \in Seq(Message)
    <3>1. [kind |-> "cancel", s |-> s] \in Message
      BY MessagesMade
    <3>2. <<[kind |-> "cancel", s |-> s]>> \in Seq(Message)
      BY <3>1
    <3> QED
      BY <3>2, LastOfType, JoinElements
  <2>3. toKernel' \in [Device -> Seq(Message)]
    BY <1>2, <2>1, <2>2, PostedType DEF Expire
  <2>4. mine' \subseteq Sync /\ finished' \in [Pair -> BOOLEAN]
    BY <1>2, CleanUpType DEF Expire
  <2>5. UNCHANGED <<books, seen, heard, conn, wire, theirs, fromBackup, req, blocked, serving,
                    now, connections, restarts, aborted>>
    BY <1>2 DEF Expire
  <2>6. MailType' /\ LinkType' /\ ServingType' /\ BoundsType'
    BY <1>1, <2>3, <2>4, <2>5 DEF MailType, LinkType, ServingType, BoundsType, TypeOK, serving
  <2> QED
    BY <2>5, <2>6, TypeParts, PartsUnchanged
<1>3. CASE ExpireTheirs(s)
  <2>1. UNCHANGED <<books, link, wire, mine, toKernel, fromBackup, req, blocked, serving,
                    now, connections, restarts, aborted>>
    BY <1>3 DEF ExpireTheirs
  <2>2. theirs' \subseteq Sync
    BY <1>3 DEF ExpireTheirs, TypeOK
  <2>3. ServingType' /\ BoundsType'
    BY <1>1, <2>1, <2>2 DEF ServingType, BoundsType, TypeOK, serving
  <2> QED
    BY <2>1, <2>3, TypeParts, PartsUnchanged
<1> QED
  BY <1>2, <1>3

\* What a kernel's handler of a message is given
LEMMA HeadType ==
    ASSUME TypeOK, NEW d \in Device, toKernel[d] # <<>>
    PROVE  /\ Head(toKernel[d]) \in Message
           /\ Tail(toKernel[d]) \in Seq(Message) /\ Tail(toKernel[d]) \o <<>> = Tail(toKernel[d])
           /\ Handled(toKernel, d, <<>>) \in [Device -> Seq(Message)]
<1>1. toKernel[d] \in Seq(Message) /\ <<>> \in Seq(Message)
  BY QueueTypes
<1>2. Head(toKernel[d]) \in Message /\ Tail(toKernel[d]) \in Seq(Message)
  BY <1>1, TailElements
<1>3. Tail(toKernel[d]) \o <<>> = Tail(toKernel[d])
  BY <1>2
<1> QED
  BY <1>1, <1>2, <1>3, PostedType, Zenon

LEMMA RequestMade ==
    /\ \A t \in 0 .. MaxNow : [st |-> "start", since |-> t] \in Request
    /\ [st |-> "asked"] \in Request
    /\ \A w \in Wants, l \in SUBSET Uuid :
          [st |-> "getting", want |-> w, left |-> l] \in Request
    /\ \A r \in Request : /\ r # None
                          /\ r.st \in {"start", "asked", "getting"}
                          /\ r.st = "start" => r.since \in 0 .. MaxNow
                          /\ r.st = "getting" => r.want \in Wants /\ r.left \in SUBSET Uuid
    /\ \A w \in Wants : DOMAIN w \in SUBSET Uuid
<1>1. \A r \in Request : r # None
  BY NoneAssumption
<1>2. \A w \in Wants : DOMAIN w \in SUBSET Uuid
  BY DEF Wants
<1> QED
  BY <1>1, <1>2 DEF Request

LEMMA StartType ==
    ASSUME TypeOK, NEW d \in Device, toKernel[d] # <<>>, NEW m, m = Head(toKernel[d]),
           m.kind = "start", KernelStart(d, m)
    PROVE  TypeOK'
<1>1. m.s \in Sync /\ m.since \in 0 .. MaxNow
  BY HeadType, MessageFields
<1>2. MailType'
  BY HeadType DEF KernelStart, MailType, TypeOK
<1>3. RequestType'
  <2>1. [st |-> "start", since |-> m.since] \in Request
    BY <1>1, RequestMade
  <2> QED
    BY <1>1, <2>1 DEF KernelStart, RequestType, TypeOK
<1>4. ServingType' /\ BoundsType'
  BY <1>1 DEF KernelStart, ServingType, BoundsType, TypeOK, tenders, bounds
<1>5. UNCHANGED <<books, link>>
  BY DEF KernelStart
<1> QED
  BY <1>2, <1>3, <1>4, <1>5, TypeParts, PartsUnchanged

LEMMA ListsType ==
    ASSUME TypeOK, NEW s \in Sync, StorageLists(s),
           s \in toList => req[s] # None /\ req[s].st = "start"
    PROVE  TypeOK'
<1> DEFINE m == [kind |-> "ask", s |-> s, since |-> req[s].since,
                 uuids |-> {u \in Uuid : store[s.by][u] # None}]
<1>1. req[s].since \in 0 .. MaxNow
  BY RequestMade DEF StorageLists, TypeOK
<1>2. m \in Message
  <2> DEFINE us == {u \in Uuid : store[s.by][u] # None}
  <2>1. us \in SUBSET Uuid
    OBVIOUS
  <2> HIDE DEF us
  <2>2. [kind |-> "ask", s |-> s, since |-> req[s].since, uuids |-> us] \in Message
    BY <1>1, <2>1, MessagesMade
  <2> QED
    BY <2>2 DEF us
<1>3. wire' = wire \/ wire' = Sent(s.by, s.of, s, m)
  BY Zenon DEF StorageLists
<1>4. MailType'
  <2> HIDE DEF m
  <2>1. wire' \in [Pair -> Seq(Message)]
    <3>1. Sent(s.by, s.of, s, m) \in [Pair -> Seq(Message)]
      BY <1>2, SentType
    <3>2. wire \in [Pair -> Seq(Message)]
      BY QueueTypes
    <3> QED
      BY <1>3, <3>1, <3>2, Zenon
  <2> QED
    BY <2>1 DEF StorageLists, MailType, TypeOK
<1>5. RequestType' /\ ServingType' /\ BoundsType'
  <2>1. aborted' = (req[s] = None) /\ req' = [req EXCEPT ![s] = None] /\ toList' = toList \ {s}
        /\ UNCHANGED <<tenders, toSend, toStamp, bounds, blocked>>
    BY Zenon DEF StorageLists
  <2> QED
    BY <2>1 DEF RequestType, ServingType, BoundsType, TypeOK, tenders, bounds
<1>6. UNCHANGED <<books, link>>
  BY DEF StorageLists
<1> QED
  BY <1>4, <1>5, <1>6, TypeParts, PartsUnchanged

LEMMA AskType ==
    ASSUME TypeOK, NEW d \in Device, toKernel[d] # <<>>, NEW m, m = Head(toKernel[d]),
           m.kind = "ask", KernelAsk(d, m)
    PROVE  TypeOK'
<1> DEFINE ls == Lines(d, m.uuids, m.since)
<1>1. m.s \in Sync /\ m.uuids \in SUBSET Uuid
  BY HeadType, MessageFields
<1>2. ls \in SUBSET [u : Uuid, entry : Entry]
  BY <1>1 DEF TypeOK, Lines
<1> HIDE DEF ls
<1>3. wire' = wire \/ wire' = Sent(d, m.s.by, m.s, [kind |-> "list", s |-> m.s, lines |-> ls])
  BY DEF KernelAsk, ls
<1>4. wire' \in [Pair -> Seq(Message)]
  <2>1. [kind |-> "list", s |-> m.s, lines |-> ls] \in Message
    BY <1>1, <1>2, MessagesMade, Zenon
  <2> QED
    <3>1. Sent(d, m.s.by, m.s, [kind |-> "list", s |-> m.s, lines |-> ls]) \in [Pair -> Seq(Message)]
      BY <2>1, SentType
    <3>2. wire \in [Pair -> Seq(Message)]
      BY QueueTypes
    <3> QED
      BY <1>3, <3>1, <3>2, Zenon
<1>5. MailType'
  BY <1>4, HeadType DEF KernelAsk, MailType, TypeOK
<1>6. UNCHANGED <<books, link, tenders, req, blocked, serving, bounds, aborted>>
  BY DEF KernelAsk
<1> QED
  BY <1>5, <1>6, TypeParts, PartsUnchanged DEF tenders, serving

LEMMA AwaitedType ==
    ASSUME TypeOK, NEW d \in Device, NEW lines \in SUBSET [u : Uuid, entry : Entry]
    PROVE  Awaited(d, lines, {l.u : l \in {k \in lines : Wanted(d, k)}}) \in Wants
<1> DEFINE want == {l.u : l \in {k \in lines : Wanted(d, k)}}
<1>1. want \in SUBSET Uuid /\ \A u \in want : \E l \in lines : l.u = u
  OBVIOUS
<1> HIDE DEF want
<1>2. ASSUME NEW u \in want
      PROVE  [had |-> json[d][u], line |-> (CHOOSE l \in lines : l.u = u).entry.label]
                \in [had : Entry \cup {None}, line : Label]
  <2>1. (CHOOSE l \in lines : l.u = u) \in lines
    BY <1>1
  <2>2. (CHOOSE l \in lines : l.u = u).entry.label \in Label
    BY <2>1 DEF Entry
  <2>3. json[d][u] \in Entry \cup {None}
    BY <1>1 DEF TypeOK
  <2> QED
    BY <2>2, <2>3
<1>3. Awaited(d, lines, want) \in [want -> [had : Entry \cup {None}, line : Label]]
  BY <1>2 DEF Awaited
<1>4. Awaited(d, lines, want) \in Wants
  BY <1>1, <1>3 DEF Wants
<1> QED
  BY <1>4 DEF want

LEMMA ListType ==
    ASSUME TypeOK, NEW d \in Device, toKernel[d] # <<>>, NEW m, m = Head(toKernel[d]),
           m.kind = "list", KernelList(d, m)
    PROVE  TypeOK'
<1> DEFINE gone == {l \in m.lines : l.entry.deleted}
           want == {l.u : l \in {k \in m.lines : Wanted(d, k)}}
           news == [s |-> m.s, want |-> Awaited(d, m.lines, want)]
<1>1. m.s \in Sync /\ m.lines \in SUBSET [u : Uuid, entry : Entry]
  BY HeadType, MessageFields
<1>2. CASE m.lines = {} /\ Finish(m.s, d, Tail(toKernel[d]))
           /\ UNCHANGED <<books, seen, heard, conn, theirs, fromBackup, req, blocked, serving,
                         bounds, aborted>>
  <2>1. /\ mine' \subseteq Sync /\ finished' \in [Pair -> BOOLEAN]
        /\ wire' \in [Pair -> Seq(Message)] /\ toKernel' \in [Device -> Seq(Message)]
    BY <1>1, <1>2, HeadType, FinishType
  <2>2. LinkType' /\ MailType' /\ ServingType'
    BY <1>2, <2>1 DEF LinkType, MailType, ServingType, TypeOK, serving
  <2> QED
    BY <1>2, <2>2, TypeParts, PartsUnchanged
<1>3. CASE /\ m.lines # {}
           /\ toKernel' = Handled(toKernel, d, <<>>)
           /\ req' = [req EXCEPT ![m.s] = [st |-> "asked"]]
           /\ json' = [json EXCEPT ![d] = [u \in Uuid |->
                         IF json[d][u] # None /\ \E l \in gone : l.u = u
                         THEN (CHOOSE l \in gone : l.u = u).entry ELSE json[d][u]]]
           /\ writing' = [writing EXCEPT ![d] = @ \cup {[u |-> l.u, content |-> None] : l \in gone}]
           /\ fromBackup' = Posted(fromBackup, d, <<news>>)
           /\ UNCHANGED <<file, store, noting, link, wire, tenders, blocked, serving, bounds,
                          aborted>>
  <2>1. BooksType'
    <3>1. ASSUME NEW u \in Uuid, \E l \in gone : l.u = u
          PROVE  (CHOOSE l \in gone : l.u = u).entry \in Entry
      BY <1>1, <3>1
    <3>2. json' \in [Device -> [Uuid -> Entry \cup {None}]]
      <4> DEFINE j == [u \in Uuid |->
                         IF json[d][u] # None /\ \E l \in gone : l.u = u
                         THEN (CHOOSE l \in gone : l.u = u).entry ELSE json[d][u]]
      <4>1. j \in [Uuid -> Entry \cup {None}]
        BY <3>1 DEF TypeOK
      <4>2. json' = [json EXCEPT ![d] = j] /\ json \in [Device -> [Uuid -> Entry \cup {None}]]
        BY <1>3 DEF TypeOK
      <4> HIDE DEF j
      <4> QED
        BY <4>1, <4>2
    <3>3. writing' \in [Device -> SUBSET [u : Uuid, content : Label \cup {None}]]
      BY <1>1, <1>3 DEF TypeOK
    <3> QED
      BY <1>3, <3>2, <3>3 DEF BooksType, TypeOK
  <2>2. MailType'
    <3> DEFINE N == [s : Sync, want : Wants]
    <3>1. news \in N
      BY <1>1, AwaitedType
    <3>2. fromBackup' = Posted(fromBackup, d, <<news>>)
      BY <1>3
    <3> HIDE DEF N, news
    <3>3. <<news>> \in Seq(N)
      BY <3>1
    <3>4. fromBackup' \in [Device -> Seq(N)]
      BY <3>2, <3>3, PostedType DEF N
    <3> QED
      BY <1>3, <3>4, HeadType, QueueTypes DEF MailType, N
  <2>3. RequestType'
    BY <1>1, <1>3, RequestMade DEF RequestType, TypeOK
  <2> QED
    BY <1>3, <2>1, <2>2, <2>3, TypeParts, PartsUnchanged DEF tenders, serving
<1> QED
  BY <1>2, <1>3 DEF KernelList

LEMMA NewsType ==
    ASSUME TypeOK, NEW d \in Device, fromBackup[d] # <<>>
    PROVE  /\ Head(fromBackup[d]).s \in Sync /\ Head(fromBackup[d]).want \in Wants
           /\ Handled(fromBackup, d, <<>>) \in [Device -> Seq([s : Sync, want : Wants])]
<1>1. Head(fromBackup[d]) \in [s : Sync, want : Wants]
  BY QueueTypes, TailElements
<1> QED
  BY <1>1, PostedType

LEMMA WantsType ==
    ASSUME TypeOK, NEW d \in Device, KernelWants(d)
    PROVE  TypeOK'
<1> DEFINE s == Head(fromBackup[d]).s
           want == Head(fromBackup[d]).want
<1>1. /\ s \in Sync /\ want \in Wants /\ DOMAIN want \in SUBSET Uuid
      /\ fromBackup' \in [Device -> Seq([s : Sync, want : Wants])]
  BY NewsType, RequestMade DEF KernelWants
<1>2. \/ UNCHANGED <<req, blocked, finished, mine, wire, toKernel>>
      \/ /\ req' = [req EXCEPT ![s] = [st |-> "getting", want |-> want, left |-> DOMAIN want]]
         /\ \/ Finish(s, d, toKernel[d]) /\ UNCHANGED blocked
            \/ /\ blocked' = [blocked EXCEPT ![d] = TRUE]
               /\ finished' = Started(s)
               /\ wire' = IF s \notin mine THEN wire
                          ELSE Sent(d, s.of, s, [kind |-> "want", s |-> s, uuids |-> DOMAIN want])
               /\ UNCHANGED <<mine, toKernel>>
  BY Zenon DEF KernelWants
<1>3. UNCHANGED <<books, seen, heard, conn, theirs, serving, bounds, aborted>>
  BY DEF KernelWants
<1> HIDE DEF s, want
<1>4. req' \in [Sync -> Request \cup {None}]
  <2>1. [st |-> "getting", want |-> want, left |-> DOMAIN want] \in Request
    BY <1>1, RequestMade
  <2>2. req \in [Sync -> Request \cup {None}]
    BY DEF TypeOK
  <2>3. [req EXCEPT ![s] = [st |-> "getting", want |-> want, left |-> DOMAIN want]]
           \in [Sync -> Request \cup {None}]
    BY <1>1, <2>1, <2>2
  <2> QED
    BY <1>2, <2>2, <2>3, Zenon
<1>5. /\ mine' \subseteq Sync /\ finished' \in [Pair -> BOOLEAN]
      /\ wire' \in [Pair -> Seq(Message)] /\ toKernel' \in [Device -> Seq(Message)]
      /\ blocked' \in [Device -> BOOLEAN]
  <2>1. CASE UNCHANGED <<req, blocked, finished, mine, wire, toKernel>>
    BY <2>1 DEF TypeOK
  <2>2. CASE Finish(s, d, toKernel[d]) /\ UNCHANGED blocked
    BY <1>1, <2>2, FinishType, QueueTypes DEF TypeOK
  <2>3. CASE /\ blocked' = [blocked EXCEPT ![d] = TRUE]
             /\ finished' = Started(s)
             /\ wire' = IF s \notin mine THEN wire
                        ELSE Sent(d, s.of, s, [kind |-> "want", s |-> s, uuids |-> DOMAIN want])
             /\ UNCHANGED <<mine, toKernel>>
    <3>1. blocked' \in [Device -> BOOLEAN] /\ finished' \in [Pair -> BOOLEAN]
      BY <2>3 DEF TypeOK, Started
    <3>2. [kind |-> "want", s |-> s, uuids |-> DOMAIN want] \in Message
      BY <1>1, MessagesMade
    <3>3. Sent(d, s.of, s, [kind |-> "want", s |-> s, uuids |-> DOMAIN want])
            \in [Pair -> Seq(Message)]
      BY <3>2, SentType
    <3>4. wire' \in [Pair -> Seq(Message)]
      BY <2>3, <3>3, QueueTypes
    <3> QED
      BY <2>3, <3>1, <3>4 DEF TypeOK
  <2> QED
    BY <1>2, <2>1, <2>2, <2>3
<1>6. LinkType' /\ MailType' /\ RequestType' /\ ServingType' /\ BoundsType'
  BY <1>1, <1>3, <1>4, <1>5
     DEF LinkType, MailType, RequestType, ServingType, BoundsType, TypeOK, serving, bounds
<1> QED
  BY <1>3, <1>6, TypeParts, PartsUnchanged

LEMMA ServeType ==
    ASSUME TypeOK, NEW d \in Device, StorageReads(d) \/ BackupStamps(d)
    PROVE  TypeOK'
<1>1. CASE StorageReads(d)
  <2>1. PICK x \in toSend[d] :
           /\ toSend' = [toSend EXCEPT ![d] = @ \ {x}]
           /\ toStamp' = IF store[d][x.u] = None THEN toStamp
                         ELSE [toStamp EXCEPT ![d] = @ \cup
                                 {[s |-> x.s, u |-> x.u, content |-> store[d][x.u]]}]
    BY <1>1 DEF StorageReads
  <2>2. x.s \in Sync /\ x.u \in Uuid /\ store[d][x.u] \in Label \cup {None}
    BY DEF TypeOK
  <2>3. toSend' \in [Device -> SUBSET [s : Sync, u : Uuid]]
    BY <2>1 DEF TypeOK
  <2>4. toStamp' \in [Device -> SUBSET [s : Sync, u : Uuid, content : Label]]
    BY <2>1, <2>2 DEF TypeOK
  <2>5. UNCHANGED <<books, link, wire, tenders, toKernel, fromBackup, req, blocked, toList,
                    bounds, aborted>>
    BY <1>1 DEF StorageReads
  <2>6. ServingType'
    BY <2>3, <2>4, <2>5 DEF ServingType, TypeOK, tenders
  <2> QED
    BY <2>5, <2>6, TypeParts, PartsUnchanged
<1>2. CASE BackupStamps(d)
  <2>1. PICK x \in toStamp[d] :
           /\ toStamp' = [toStamp EXCEPT ![d] = @ \ {x}]
           /\ wire' = IF json[d][x.u] = None \/ x.s \notin theirs THEN wire
                      ELSE Sent(d, x.s.by, x.s, [kind |-> "data", s |-> x.s, u |-> x.u,
                                                label |-> json[d][x.u].label,
                                                content |-> x.content])
    BY <1>2 DEF BackupStamps
  <2>2. x.s \in Sync /\ x.u \in Uuid /\ x.content \in Label
        /\ json[d][x.u] \in Entry \cup {None}
    BY DEF TypeOK
  <2>3. wire' \in [Pair -> Seq(Message)]
    <3>1. CASE json[d][x.u] = None \/ x.s \notin theirs
      BY <2>1, <3>1, QueueTypes
    <3>2. CASE ~ (json[d][x.u] = None \/ x.s \notin theirs)
      <4> DEFINE m == [kind |-> "data", s |-> x.s, u |-> x.u, label |-> json[d][x.u].label,
                       content |-> x.content]
      <4>1. json[d][x.u].label \in Label
        BY <2>2, <3>2 DEF Entry
      <4>2. m \in Message
        BY <2>2, <4>1, MessagesMade
      <4>3. wire' = Sent(d, x.s.by, x.s, m)
        BY <2>1, <3>2
      <4> HIDE DEF m
      <4> QED
        BY <4>2, <4>3, SentType
    <3> QED
      BY <3>1, <3>2
  <2>4. toStamp' \in [Device -> SUBSET [s : Sync, u : Uuid, content : Label]]
    BY <2>1 DEF TypeOK
  <2>5. UNCHANGED <<books, link, tenders, toKernel, fromBackup, req, blocked, toList, toSend,
                    bounds, aborted>>
    BY <1>2 DEF BackupStamps
  <2>6. MailType' /\ ServingType'
    BY <2>3, <2>4, <2>5 DEF MailType, ServingType, TypeOK, tenders
  <2> QED
    BY <2>5, <2>6, TypeParts, PartsUnchanged
<1> QED
  BY <1>1, <1>2

LEMMA WantType ==
    ASSUME TypeOK, NEW d \in Device, toKernel[d] # <<>>, NEW m, m = Head(toKernel[d]),
           m.kind = "want", KernelWant(d, m)
    PROVE  TypeOK'
<1>1. m.s \in Sync /\ m.uuids \in SUBSET Uuid
  BY HeadType, MessageFields
<1>2. toSend' \in [Device -> SUBSET [s : Sync, u : Uuid]]
  BY <1>1 DEF KernelWant, TypeOK
<1>3. UNCHANGED <<books, link, wire, tenders, fromBackup, req, blocked, toList, toStamp,
                  bounds, aborted>>
  BY DEF KernelWant
<1>4. MailType' /\ ServingType'
  BY <1>2, <1>3, HeadType DEF KernelWant, MailType, ServingType, TypeOK, tenders
<1> QED
  BY <1>3, <1>4, TypeParts, PartsUnchanged

LEMMA DataType ==
    ASSUME TypeOK, NEW d \in Device, toKernel[d] # <<>>, NEW m, m = Head(toKernel[d]),
           m.kind = "data", KernelData(d, m)
    PROVE  TypeOK'
<1> DEFINE r == req[m.s]
           awaited == r # None /\ r.st = "getting" /\ m.u \in r.left
           left == r.left \ {m.u}
<1>1. m.s \in Sync /\ m.u \in Uuid /\ m.label \in Label /\ m.content \in Label
  BY HeadType, MessageFields
<1>2. CASE /\ ~ awaited
           /\ aborted' = (r # None)
           /\ toKernel' = Handled(toKernel, d, <<>>)
           /\ UNCHANGED <<books, link, wire, tenders, fromBackup, req, blocked, serving, bounds>>
  <2>1. MailType' /\ BoundsType'
    BY <1>2, HeadType DEF MailType, BoundsType, TypeOK, bounds
  <2> QED
    BY <1>2, <2>1, TypeParts, PartsUnchanged DEF tenders, serving
<1>3. CASE /\ awaited
           /\ writing' = [writing EXCEPT ![d] = @ \cup {[u |-> m.u, content |-> m.content]}]
           /\ json' = [json EXCEPT ![d][m.u] = [label |-> m.label, deleted |-> FALSE]]
           /\ IF left = {}
              THEN req' = [req EXCEPT ![m.s] = None] /\ Finish(m.s, d, Tail(toKernel[d]))
              ELSE /\ req' = [req EXCEPT ![m.s].left = left]
                   /\ toKernel' = Handled(toKernel, d, <<>>)
                   /\ UNCHANGED <<mine, finished, wire>>
           /\ UNCHANGED <<file, store, noting, seen, heard, conn, theirs, fromBackup, blocked,
                          serving, bounds, aborted>>
  <2>1. BooksType'
    <3>1. json' \in [Device -> [Uuid -> Entry \cup {None}]]
      BY <1>1, <1>3 DEF TypeOK, Entry
    <3>2. writing' \in [Device -> SUBSET [u : Uuid, content : Label \cup {None}]]
      BY <1>1, <1>3 DEF TypeOK
    <3> QED
      BY <1>3, <3>1, <3>2 DEF BooksType, TypeOK
  <2>2. RequestType'
    <3>1. req \in [Sync -> Request \cup {None}] /\ r \in Request
      BY <1>1, <1>3 DEF TypeOK
    <3>2. [r EXCEPT !.left = left] \in Request
      <4>1. r \in [st : {"getting"}, want : Wants, left : SUBSET Uuid]
        BY <1>3, <3>1 DEF Request
      <4>2. [r EXCEPT !.left = left] \in [st : {"getting"}, want : Wants, left : SUBSET Uuid]
        BY <4>1
      <4> QED
        BY <4>2 DEF Request
    <3>3. req' = [req EXCEPT ![m.s] = None] \/ req' = [req EXCEPT ![m.s] = [r EXCEPT !.left = left]]
      BY <1>3
    <3> HIDE DEF r, left
    <3> QED
      BY <1>1, <3>1, <3>2, <3>3 DEF RequestType
  <2>3. /\ mine' \subseteq Sync /\ finished' \in [Pair -> BOOLEAN]
        /\ wire' \in [Pair -> Seq(Message)] /\ toKernel' \in [Device -> Seq(Message)]
    <3>1. CASE Finish(m.s, d, Tail(toKernel[d]))
      BY <1>1, <3>1, HeadType, FinishType
    <3>2. CASE toKernel' = Handled(toKernel, d, <<>>) /\ UNCHANGED <<mine, finished, wire>>
      BY <3>2, HeadType DEF TypeOK
    <3> QED
      BY <1>3, <3>1, <3>2
  <2>4. LinkType' /\ MailType' /\ ServingType'
    BY <1>3, <2>3 DEF LinkType, MailType, ServingType, TypeOK, serving
  <2> QED
    BY <1>3, <2>1, <2>2, <2>4, TypeParts, PartsUnchanged
<1> QED
  BY <1>2, <1>3 DEF KernelData

LEMMA PlainMessageType ==
    ASSUME TypeOK, NEW d \in Device, toKernel[d] # <<>>, NEW m, m = Head(toKernel[d]),
           \/ m.kind = "cancel" /\ KernelCancel(d, m)
           \/ m.kind = "finished" /\ KernelFinished(d)
           \/ m.kind = "change" /\ KernelChange(d, m)
    PROVE  TypeOK'
<1>1. m \in Message
  BY HeadType
<1>2. CASE m.kind = "cancel" /\ KernelCancel(d, m)
  <2>1. RequestType' /\ MailType'
    BY <1>1, <1>2, MessageFields, HeadType DEF KernelCancel, RequestType, MailType, TypeOK
  <2> QED
    BY <1>2, <2>1, TypeParts, PartsUnchanged DEF KernelCancel, tenders, serving
<1>3. CASE m.kind = "finished" /\ KernelFinished(d)
  <2>1. BoundsType' /\ MailType'
    BY <1>3, HeadType DEF KernelFinished, BoundsType, MailType, TypeOK, bounds
  <2> QED
    BY <1>3, <2>1, TypeParts, PartsUnchanged DEF KernelFinished, tenders, serving
<1>4. CASE m.kind = "change" /\ KernelChange(d, m)
  <2> DEFINE here == store[d][m.u] # None
             w == [u |-> m.u, content |-> IF m.entry.deleted THEN None ELSE m.entry.label]
  <2>1. m.u \in Uuid /\ m.entry \in Entry
    BY <1>1, <1>4, MessageFields
  <2>2. w \in [u : Uuid, content : Label \cup {None}]
    BY <2>1 DEF Entry
  <2>3. /\ json' = IF here THEN [json EXCEPT ![d] = Noted(@, m.u, m.entry)] ELSE json
        /\ writing' = IF here \/ m.entry.deleted THEN [writing EXCEPT ![d] = @ \cup {w}] ELSE writing
        /\ toKernel' = Handled(toKernel, d, <<>>)
        /\ UNCHANGED <<file, store, noting, link, wire, tenders, fromBackup, req, blocked,
                       serving, bounds, aborted>>
    BY <1>4, Zenon DEF KernelChange
  <2>4. json' \in [Device -> [Uuid -> Entry \cup {None}]]
    <3>1. Noted(json[d], m.u, m.entry) \in [Uuid -> Entry \cup {None}]
      BY <2>1, NotedType DEF TypeOK
    <3> QED
      BY <2>3, <3>1 DEF TypeOK
  <2>5. writing' \in [Device -> SUBSET [u : Uuid, content : Label \cup {None}]]
    BY <2>2, <2>3 DEF TypeOK
  <2>6. BooksType' /\ MailType'
    BY <2>3, <2>4, <2>5, HeadType DEF BooksType, MailType, TypeOK
  <2> QED
    BY <2>3, <2>6, TypeParts, PartsUnchanged DEF tenders, serving
<1> QED
  BY <1>2, <1>3, <1>4

-----------------------------------------------------------------------------
(* What a step does to the members of S in the queues *)

LEMMA WireSent ==
    ASSUME TypeOK, NEW from, NEW to, NEW s, NEW m \in Message, NEW S,
           wire' = Sent(from, to, s, m)
    PROVE  \A x \in Pair :
              /\ Holds(wire'[x], S) => Holds(wire[x], S) \/ (x = <<from, to>> /\ m \in S)
              /\ Few(wire[x], S) /\ ~ (Holds(wire[x], S) /\ m \in S) => Few(wire'[x], S)
<1> SUFFICES ASSUME NEW x \in Pair
             PROVE  /\ Holds(wire'[x], S) => Holds(wire[x], S) \/ (x = <<from, to>> /\ m \in S)
                    /\ Few(wire[x], S) /\ ~ (Holds(wire[x], S) /\ m \in S) => Few(wire'[x], S)
  OBVIOUS
<1>1. wire'[x] = wire[x] \/ (x = <<from, to>> /\ wire'[x] = Append(wire[x], m))
  BY DEF TypeOK, Sent
<1>2. CASE wire'[x] = wire[x]
  BY <1>2
<1>3. CASE x = <<from, to>> /\ wire'[x] = Append(wire[x], m)
  <2>1. wire[x] \in Seq(Message)
    BY QueueTypes
  <2> DEFINE q == wire[x]
  <2>2. /\ Holds(Append(q, m), S) <=> Holds(q, S) \/ m \in S
        /\ Few(q, S) /\ ~ (Holds(q, S) /\ m \in S) => Few(Append(q, m), S)
    BY <2>1, AppendHolds
  <2> QED
    BY <1>3, <2>2, Zenon
<1> QED
  BY <1>1, <1>2, <1>3

LEMMA WireTaken ==
    ASSUME TypeOK, NEW w \in Pair, wire[w] # <<>>, NEW S,
           wire' = [wire EXCEPT ![w] = Tail(@)]
    PROVE  /\ \A x \in Pair : /\ Holds(wire'[x], S) => Holds(wire[x], S)
                              /\ Few(wire[x], S) => Few(wire'[x], S)
           /\ Head(wire[w]) \in S => Holds(wire[w], S)
           /\ Head(wire[w]) \in S /\ Few(wire[w], S) => ~ Holds(wire'[w], S)
<1>1. \A x \in Pair : wire'[x] = IF x = w THEN Tail(wire[w]) ELSE wire[x]
  BY DEF TypeOK
<1> QED
  BY <1>1, QueueTypes, TailHolds

LEMMA KernelTaken ==
    ASSUME TypeOK, NEW d \in Device, toKernel[d] # <<>>, NEW S,
           toKernel' = Handled(toKernel, d, <<>>)
    PROVE  /\ \A e \in Device : /\ Holds(toKernel'[e], S) => Holds(toKernel[e], S)
                                /\ Few(toKernel[e], S) => Few(toKernel'[e], S)
           /\ Head(toKernel[d]) \in S => Holds(toKernel[d], S)
           /\ Head(toKernel[d]) \in S /\ Few(toKernel[d], S) => ~ Holds(toKernel'[d], S)
<1>1. \A e \in Device : toKernel'[e] = IF e = d THEN Tail(toKernel[d]) ELSE toKernel[e]
  BY HeadType, QueueTypes DEF Handled
<1> QED
  BY <1>1, QueueTypes, TailHolds, ZenonT(60)

LEMMA KernelPosted ==
    ASSUME TypeOK, NEW d \in Device, NEW ms \in Seq(Message), NEW S,
           toKernel' = Posted(toKernel, d, ms)
    PROVE  \A e \in Device :
              /\ Holds(toKernel'[e], S) => Holds(toKernel[e], S) \/ (e = d /\ Holds(ms, S))
              /\ /\ Few(toKernel[e], S) /\ Few(ms, S)
                 /\ ~ (Holds(toKernel[e], S) /\ Holds(ms, S))
                 => Few(toKernel'[e], S)
<1>1. \A e \in Device : toKernel'[e] = IF e = d THEN toKernel[d] \o ms ELSE toKernel[e]
  BY QueueTypes DEF Posted
<1> QED
  BY <1>1, QueueTypes, JoinHolds

LEMMA BackupTaken ==
    ASSUME TypeOK, NEW d \in Device, fromBackup[d] # <<>>, NEW S,
           fromBackup' = Handled(fromBackup, d, <<>>)
    PROVE  /\ \A e \in Device : /\ Holds(fromBackup'[e], S) => Holds(fromBackup[e], S)
                                /\ Few(fromBackup[e], S) => Few(fromBackup'[e], S)
           /\ Head(fromBackup[d]) \in S => Holds(fromBackup[d], S)
           /\ Head(fromBackup[d]) \in S /\ Few(fromBackup[d], S) => ~ Holds(fromBackup'[d], S)
<1> DEFINE N == [s : Sync, want : Wants]
<1>1. fromBackup \in [Device -> Seq(N)]
  BY DEF TypeOK
<1> HIDE DEF N
<1>2. fromBackup[d] \in Seq(N) /\ Tail(fromBackup[d]) \in Seq(N)
  BY <1>1, TailElements
<1>3. Tail(fromBackup[d]) \o <<>> = Tail(fromBackup[d])
  BY <1>2
<1>4. \A e \in Device : fromBackup'[e] = IF e = d THEN Tail(fromBackup[d]) ELSE fromBackup[e]
  BY <1>1, <1>3 DEF Handled
<1> QED
  BY <1>1, <1>4, TailHolds

LEMMA BackupPosted ==
    ASSUME TypeOK, NEW d \in Device, NEW n \in [s : Sync, want : Wants], NEW S,
           fromBackup' = Posted(fromBackup, d, <<n>>)
    PROVE  \A e \in Device :
              /\ Holds(fromBackup'[e], S) => Holds(fromBackup[e], S) \/ (e = d /\ n \in S)
              /\ Few(fromBackup[e], S) /\ ~ (Holds(fromBackup[e], S) /\ n \in S)
                 => Few(fromBackup'[e], S)
<1> DEFINE N == [s : Sync, want : Wants]
           ms == <<n>>
<1>1. fromBackup \in [Device -> Seq(N)] /\ ms \in Seq(N)
  <2>1. fromBackup \in [Device -> Seq(N)] /\ n \in N
    BY DEF TypeOK
  <2> HIDE DEF N
  <2> QED
    BY <2>1
<1>2. Few(ms, S) /\ (Holds(ms, S) <=> n \in S)
  BY OneHolds
<1>3. fromBackup' = Posted(fromBackup, d, ms)
  OBVIOUS
<1> HIDE DEF N, ms
<1>4. \A e \in Device : fromBackup'[e] = IF e = d THEN fromBackup[d] \o ms ELSE fromBackup[e]
  BY <1>1, <1>3 DEF Posted
<1> QED
  BY <1>1, <1>2, <1>4, JoinHolds

LEMMA LastOfHolds ==
    ASSUME NEW s, NEW S, [kind |-> "finished"] \notin S
    PROVE  ~ Holds(LastOf(s), S) /\ Few(LastOf(s), S)
<1> DEFINE m == [kind |-> "finished"]
<1>1. LastOf(s) = <<m>> \/ LastOf(s) = <<>>
  BY Zenon DEF LastOf
<1>2. ~ Holds(<<m>>, S) /\ Few(<<m>>, S) /\ ~ Holds(<<>>, S) /\ Few(<<>>, S)
  BY OneHolds
<1> HIDE DEF m
<1> QED
  BY <1>1, <1>2, Zenon

LEMMA FinishQueues ==
    ASSUME TypeOK, NEW s \in Sync, NEW d \in Device, NEW rest \in Seq(Message), NEW S,
           Finish(s, d, rest), [kind |-> "finished"] \notin S, [kind |-> "done", s |-> s] \notin S
    PROVE  /\ \A x \in Pair : /\ Holds(wire'[x], S) => Holds(wire[x], S)
                              /\ Few(wire[x], S) => Few(wire'[x], S)
           /\ Holds(toKernel'[d], S) => Holds(rest, S)
           /\ Few(rest, S) => Few(toKernel'[d], S)
           /\ \A e \in Device : e # d => toKernel'[e] = toKernel[e]
<1>1. \A x \in Pair : /\ Holds(wire'[x], S) => Holds(wire[x], S)
                      /\ Few(wire[x], S) => Few(wire'[x], S)
  <2>1. CASE s \in mine
    <3> DEFINE m == [kind |-> "done", s |-> s]
    <3>1. wire' = Sent(d, s.of, s, m) /\ m \in Message
      BY <2>1, MessagesMade DEF Finish
    <3> HIDE DEF m
    <3>2. m \notin S
      BY DEF m
    <3> QED
      BY <3>1, <3>2, WireSent
  <2>2. CASE s \notin mine
    BY <2>2 DEF Finish
  <2> QED
    BY <2>1, <2>2
<1>2. toKernel' = [toKernel EXCEPT ![d] = rest \o LastOf(s)]
      \/ toKernel' = [toKernel EXCEPT ![d] = rest]
  BY DEF Finish
<1>3. toKernel'[d] = rest \o LastOf(s) \/ toKernel'[d] = rest
  BY <1>2, QueueTypes
<1>4. \A e \in Device : e # d => toKernel'[e] = toKernel[e]
  BY <1>2, QueueTypes
<1>5. LastOf(s) \in Seq(Message) /\ ~ Holds(LastOf(s), S) /\ Few(LastOf(s), S)
  BY LastOfType, LastOfHolds
<1>6. /\ Holds(rest \o LastOf(s), S) => Holds(rest, S)
      /\ Few(rest, S) => Few(rest \o LastOf(s), S)
  BY <1>5, JoinHolds
<1> QED
  BY <1>1, <1>3, <1>4, <1>6

-----------------------------------------------------------------------------
(* A synchronisation goes from place to place *)

LEMMA NoToken ==
    ASSUME NEW s, NEW u
    PROVE  /\ \A m : m.kind \in {"done", "cancel", "finished", "change"} => m \notin Token(s, u)
           /\ [kind |-> "finished"] \notin Token(s, u)
           /\ \A r : [kind |-> "done", s |-> r] \notin Token(s, u)
                     /\ [kind |-> "cancel", s |-> r] \notin Token(s, u)
           /\ \A m \in Token(s, u) : m \in Message /\ m.s = s
BY DEF Token

LEMMA IsToken ==
    ASSUME NEW m \in Message
    PROVE  /\ m.kind \in {"start", "ask", "list", "want"} => \A u : m \in Token(m.s, u)
           /\ m.kind = "data" => m \in Token(m.s, m.u)
BY DEF Token

\* The synchronisation of u is nowhere else afterwards than before.
Kept(s, u) ==
    /\ \A x \in Pair : Holds(wire[x], Token(s, u))' => Holds(wire[x], Token(s, u))
    /\ \A x \in Device :
          /\ Holds(toKernel[x], Token(s, u))' => Holds(toKernel[x], Token(s, u))
          /\ Holds(fromBackup[x], News(s))' => Holds(fromBackup[x], News(s))
          /\ [s |-> s, u |-> u] \in toSend'[x] => [s |-> s, u |-> u] \in toSend[x]
          /\ \A y \in toStamp'[x] : y.s = s /\ y.u = u => y \in toStamp[x]
    /\ s \in toList' => s \in toList

\* It leaves the place a at b, and comes to c, d or nowhere.
Goes(a, b, c, d, s, u) ==
    /\ \A x \in Pair : Holds(wire[x], Token(s, u))' =>
          \/ Holds(wire[x], Token(s, u)) /\ ~ (a = "wire" /\ b = x)
          \/ c = "wire" /\ d = x
    /\ \A x \in Device :
          /\ Holds(toKernel[x], Token(s, u))' =>
                \/ Holds(toKernel[x], Token(s, u)) /\ ~ (a = "kernel" /\ b = x)
                \/ c = "kernel" /\ d = x
          /\ Holds(fromBackup[x], News(s))' =>
                \/ Holds(fromBackup[x], News(s)) /\ ~ (a = "backup" /\ b = x)
                \/ c = "backup" /\ d = x
          /\ [s |-> s, u |-> u] \in toSend'[x] =>
                \/ [s |-> s, u |-> u] \in toSend[x] /\ ~ (a = "send" /\ b = x)
                \/ c = "send" /\ d = x
          /\ \A y \in toStamp'[x] : y.s = s /\ y.u = u =>
                \/ y \in toStamp[x] /\ ~ (a = "stamp" /\ b = x)
                \/ c = "stamp" /\ d = x
    /\ s \in toList' => (s \in toList /\ ~ (a = "list" /\ b = s.by)) \/ (c = "list" /\ d = s.by)

Only(c, d, s, u) == \A e \in Spot, y \in Site : At(e, y, s, u) => e = c /\ y = d

LEMMA Stays ==
    ASSUME OneToken, NEW s \in Sync, NEW u \in Uuid \cup {None},
           connections \in Nat, connections' \in Nat, connections <= connections', Kept(s, u)
    PROVE  Alone(s, u)'
<1>1. \A e \in Spot, y \in Site : At(e, y, s, u)' => At(e, y, s, u)
  BY DEF At, Kept
<1>2. \A c \in Spot, x \in Site : At(c, x, s, u) =>
         /\ s.n <= connections
         /\ \A e \in Spot, y \in Site : At(e, y, s, u) => c = e /\ x = y
  BY DEF OneToken, Alone
<1>3. s.n \in Nat
  BY DEF Sync
<1> QED
  BY <1>1, <1>2, <1>3 DEF Alone

LEMMA Moves ==
    ASSUME OneToken, NEW s \in Sync, NEW u \in Uuid \cup {None}, UNCHANGED connections,
           NEW a \in Spot, NEW b \in Site, At(a, b, s, u), NEW c, NEW d, Goes(a, b, c, d, s, u)
    PROVE  Alone(s, u)' /\ Only(c, d, s, u)'
<1>1. \A e \in Spot, y \in Site : At(e, y, s, u)' =>
         (At(e, y, s, u) /\ ~ (e = a /\ y = b)) \/ (e = c /\ y = d)
  BY DEF At, Goes
<1>2. /\ s.n <= connections
      /\ \A e \in Spot, y \in Site : At(e, y, s, u) => a = e /\ b = y
  BY DEF OneToken, Alone
<1>3. \A e \in Spot, y \in Site : At(e, y, s, u)' => e = c /\ y = d
  BY <1>1, <1>2
<1>4. Alone(s, u)'
  <2>1. s.n <= connections'
    BY <1>2
  <2> QED
    BY <1>3, <2>1, Zenon DEF Alone
<1> QED
  BY <1>3, <1>4 DEF Only

\* Where nothing goes
LEMMA TokensUnmoved ==
    ASSUME TypeOK, TypeOK', OneToken, connections <= connections',
           \A s \in Sync, u \in Uuid \cup {None} :
              /\ \A x \in Pair :
                    /\ Holds(wire[x], Token(s, u))' => Holds(wire[x], Token(s, u))
                    /\ Few(wire[x], Token(s, u)) => Few(wire[x], Token(s, u))'
              /\ \A d \in Device :
                    /\ Holds(toKernel[d], Token(s, u))' => Holds(toKernel[d], Token(s, u))
                    /\ Few(toKernel[d], Token(s, u)) => Few(toKernel[d], Token(s, u))',
           \A d \in Device : fromBackup'[d] = fromBackup[d] \/ fromBackup'[d] = <<>>,
           toList' \subseteq toList,
           \A d \in Device : toSend'[d] \subseteq toSend[d] /\ toStamp'[d] \subseteq toStamp[d]
    PROVE  OneToken'
<1> SUFFICES ASSUME NEW s \in Sync, NEW u \in Uuid \cup {None}
             PROVE  Alone(s, u)' /\ Once(s, u)'
  BY DEF OneToken
<1>1. Once(s, u)
  BY DEF OneToken
<1>2. \A d \in Device : /\ Holds(fromBackup[d], News(s))' => Holds(fromBackup[d], News(s))
                        /\ Few(fromBackup[d], News(s)) => Few(fromBackup[d], News(s))'
  BY OneHolds
<1>3. Once(s, u)'
  BY <1>1, <1>2 DEF Once
<1>4. connections \in Nat /\ connections' \in Nat
  BY DEF TypeOK
<1>5. \A d \in Device :
         /\ [s |-> s, u |-> u] \in toSend'[d] => [s |-> s, u |-> u] \in toSend[d]
         /\ \A y \in toStamp'[d] : y.s = s /\ y.u = u => y \in toStamp[d]
  OBVIOUS
<1>6. Kept(s, u)
  BY <1>2, <1>5 DEF Kept
<1> QED
  BY <1>3, <1>4, <1>6, Stays, Zenon

LEMMA HandledTokens ==
    ASSUME TypeOK, TypeOK', OneToken, NEW d \in Device, toKernel[d] # <<>>,
           toKernel' = Handled(toKernel, d, <<>>), NEW s \in Sync, NEW u \in Uuid \cup {None}
    PROVE  LET m == Head(toKernel[d])
               T == Token(s, u)
           IN /\ \A e \in Device : /\ Holds(toKernel[e], T)' => Holds(toKernel[e], T)
                                   /\ Few(toKernel[e], T)'
              /\ m \in T => At("kernel", d, s, u) /\ ~ Holds(toKernel[d], T)'
<1> DEFINE m == Head(toKernel[d])
           T == Token(s, u)
<1>1. T' = T
  BY DEF Token, Message, Sync, Label, Entry
<1> HIDE DEF T
<1>2. \A e \in Device : Few(toKernel[e], T)
  BY DEF OneToken, Once, T
<1>3. \A e \in Device : /\ Holds(toKernel'[e], T) => Holds(toKernel[e], T)
                        /\ Few(toKernel'[e], T)
  BY <1>2, KernelTaken
<1>4. m \in T => Holds(toKernel[d], T) /\ ~ Holds(toKernel'[d], T)
  BY <1>2, KernelTaken
<1> QED
  BY <1>1, <1>3, <1>4 DEF At, T

LEMMA StartTokens ==
    ASSUME TypeOK, TypeOK', OneToken, NEW d \in Device, toKernel[d] # <<>>, NEW m,
           m = Head(toKernel[d]), m.kind = "start", KernelStart(d, m)
    PROVE  /\ OneToken'
           /\ \A u \in Uuid \cup {None} : Only("list", m.s.by, m.s, u)'
<1> SUFFICES ASSUME NEW s \in Sync, NEW u \in Uuid \cup {None}
             PROVE  /\ Alone(s, u)' /\ Once(s, u)'
                    /\ s = m.s => Only("list", m.s.by, s, u)'
  <2>1. m.s \in Sync
    BY HeadType, MessageFields
  <2> QED
    BY <2>1, Zenon DEF OneToken
<1>1. toKernel' = Handled(toKernel, d, <<>>) /\ toList' = toList \cup {m.s}
      /\ UNCHANGED <<wire, fromBackup, toSend, toStamp, connections>>
  BY DEF KernelStart, bounds
<1>2. Once(s, u) /\ connections \in Nat
  BY DEF OneToken, TypeOK
<1>3. Once(s, u)'
  BY <1>1, <1>2, HandledTokens DEF Once
<1>4. CASE s = m.s
  <2>1. m \in Token(s, u)
    BY <1>4, HeadType, IsToken
  <2>2. At("kernel", d, s, u) /\ ~ Holds(toKernel[d], Token(s, u))'
    BY <1>1, <2>1, HandledTokens
  <2>3. "kernel" \in Spot /\ d \in Site
    BY DEF Spot, Site
  <2>4. Goes("kernel", d, "list", m.s.by, s, u)
    BY <1>1, <1>4, <2>2, HandledTokens DEF Goes
  <2>5. Alone(s, u)' /\ Only("list", m.s.by, s, u)'
    BY <1>1, <2>2, <2>3, <2>4, Moves
  <2> QED
    BY <1>3, <2>5
<1>5. CASE s # m.s
  <2>1. Kept(s, u)
    BY <1>1, <1>5, HandledTokens DEF Kept
  <2> QED
    BY <1>1, <1>2, <1>3, <1>5, <2>1, Stays
<1> QED
  BY <1>4, <1>5

LEMMA Elsewhere ==
    ASSUME OneToken, NEW s \in Sync, NEW u \in Uuid \cup {None}, NEW a \in Spot, NEW b \in Site,
           At(a, b, s, u)
    PROVE  /\ a # "wire" => \A x \in Pair : ~ Holds(wire[x], Token(s, u))
           /\ a # "kernel" => \A x \in Device : ~ Holds(toKernel[x], Token(s, u))
           /\ a # "backup" => \A x \in Device : ~ Holds(fromBackup[x], News(s))
           /\ a # "list" => s \notin toList
           /\ a # "send" => \A x \in Device : [s |-> s, u |-> u] \notin toSend[x]
           /\ a # "stamp" => \A x \in Device : \A y \in toStamp[x] : ~ (y.s = s /\ y.u = u)
<1>1. \A e \in Spot, y \in Site : At(e, y, s, u) => e = a /\ y = b
  BY DEF OneToken, Alone
<1>2. Pair \subseteq Site /\ Device \subseteq Site /\ s.by \in Site
  BY DEF Site, Sync
<1>3. a # "wire" => \A x \in Pair : ~ Holds(wire[x], Token(s, u))
  BY <1>1, <1>2 DEF At, Spot
<1>4. a # "kernel" => \A x \in Device : ~ Holds(toKernel[x], Token(s, u))
  BY <1>1, <1>2 DEF At, Spot
<1>5. a # "backup" => \A x \in Device : ~ Holds(fromBackup[x], News(s))
  BY <1>1, <1>2 DEF At, Spot
<1>6. a # "list" => s \notin toList
  BY <1>1, <1>2 DEF At, Spot
<1>7. a # "send" => \A x \in Device : [s |-> s, u |-> u] \notin toSend[x]
  BY <1>1, <1>2 DEF At, Spot
<1>8. a # "stamp" => \A x \in Device : \A y \in toStamp[x] : ~ (y.s = s /\ y.u = u)
  BY <1>1, <1>2 DEF At, Spot
<1> QED
  BY <1>3, <1>4, <1>5, <1>6, <1>7, <1>8

LEMMA SentTokens ==
    ASSUME TypeOK, OneToken, NEW from, NEW to, NEW r, NEW m \in Message,
           wire' = wire \/ wire' = Sent(from, to, r, m),
           NEW s \in Sync, NEW u \in Uuid \cup {None},
           m \in Token(s, u) => \A x \in Pair : ~ Holds(wire[x], Token(s, u))
    PROVE  \A x \in Pair :
              /\ Holds(wire[x], Token(s, u))' =>
                    Holds(wire[x], Token(s, u)) \/ (x = <<from, to>> /\ m \in Token(s, u))
              /\ Few(wire[x], Token(s, u))'
<1> DEFINE T == Token(s, u)
<1>1. T' = T
  BY DEF Token, Message, Sync, Label, Entry
<1>2. \A x \in Pair : Few(wire[x], T)
  BY DEF OneToken, Once
<1> HIDE DEF T
<1>3. \A x \in Pair : /\ Holds(wire'[x], T) => Holds(wire[x], T) \/ (x = <<from, to>> /\ m \in T)
                      /\ Few(wire[x], T) /\ ~ (Holds(wire[x], T) /\ m \in T) => Few(wire'[x], T)
  <2>1. CASE wire' = wire
    BY <2>1
  <2>2. CASE wire' = Sent(from, to, r, m)
    BY <2>2, WireSent
  <2> QED
    BY <2>1, <2>2
<1>4. m \in T => \A x \in Pair : ~ Holds(wire[x], T)
  BY DEF T
<1>5. \A x \in Pair : /\ Holds(wire'[x], T) => Holds(wire[x], T) \/ (x = <<from, to>> /\ m \in T)
                      /\ Few(wire'[x], T)
  BY <1>2, <1>3, <1>4
<1> QED
  BY <1>1, <1>5, Zenon DEF T

LEMMA ListsTokens ==
    ASSUME TypeOK, TypeOK', OneToken, NEW r \in Sync, StorageLists(r), r \in toList,
           req[r] # None, req[r].st = "start"
    PROVE  /\ OneToken'
           /\ \A u \in Uuid \cup {None} : Only("wire", <<r.by, r.of>>, r, u)'
<1> SUFFICES ASSUME NEW s \in Sync, NEW u \in Uuid \cup {None}
             PROVE  /\ Alone(s, u)' /\ Once(s, u)'
                    /\ s = r => Only("wire", <<r.by, r.of>>, s, u)'
  BY Zenon DEF OneToken
<1> DEFINE us == {x \in Uuid : store[r.by][x] # None}
           m == [kind |-> "ask", s |-> r, since |-> req[r].since, uuids |-> us]
<1>1. m \in Message
  <2>1. us \in SUBSET Uuid
    OBVIOUS
  <2>2. req[r].since \in 0 .. MaxNow
    BY RequestMade DEF TypeOK
  <2> HIDE DEF us
  <2> QED
    BY <2>1, <2>2, MessagesMade
<1>2. wire' = wire \/ wire' = Sent(r.by, r.of, r, m)
  BY Zenon DEF StorageLists
<1>3. m.kind = "ask" /\ m.s = r
  OBVIOUS
<1> HIDE DEF m
<1>4. toList' = toList \ {r} /\ UNCHANGED <<toKernel, fromBackup, toSend, toStamp, connections>>
  BY DEF StorageLists, bounds
<1>5. Once(s, u) /\ connections \in Nat
  BY DEF OneToken, TypeOK
<1>6. CASE s = r
  <2>1. "list" \in Spot /\ r.by \in Site /\ At("list", r.by, r, u)
    BY DEF Spot, Site, At, Sync
  <2>2. \A x \in Pair : ~ Holds(wire[x], Token(s, u))
    BY <1>6, <2>1, Elsewhere
  <2>3. \A x \in Pair : /\ Holds(wire[x], Token(s, u))' => x = <<r.by, r.of>>
                        /\ Few(wire[x], Token(s, u))'
    BY <1>1, <1>2, <2>2, SentTokens
  <2>4. Once(s, u)'
    BY <1>4, <1>5, <2>3 DEF Once
  <2>5. Goes("list", r.by, "wire", <<r.by, r.of>>, s, u)
    BY <1>4, <1>6, <2>3 DEF Goes
  <2>6. Alone(s, u)' /\ Only("wire", <<r.by, r.of>>, s, u)'
    BY <1>4, <1>6, <2>1, <2>5, Moves
  <2> QED
    BY <2>4, <2>6
<1>7. CASE s # r
  <2>1. m \notin Token(s, u)
    BY <1>3, <1>7, NoToken
  <2>2. \A x \in Pair : /\ Holds(wire[x], Token(s, u))' => Holds(wire[x], Token(s, u))
                        /\ Few(wire[x], Token(s, u))'
    BY <1>1, <1>2, <2>1, SentTokens
  <2>3. Once(s, u)'
    BY <1>4, <1>5, <2>2 DEF Once
  <2>4. Kept(s, u)
    BY <1>4, <2>2 DEF Kept
  <2> QED
    BY <1>4, <1>5, <1>7, <2>3, <2>4, Stays
<1> QED
  BY <1>6, <1>7

LEMMA AskTokens ==
    ASSUME TypeOK, TypeOK', OneToken, NEW d \in Device, toKernel[d] # <<>>, NEW m,
           m = Head(toKernel[d]), m.kind = "ask", KernelAsk(d, m)
    PROVE  /\ OneToken'
           /\ \A u \in Uuid \cup {None} : Only("wire", <<d, m.s.by>>, m.s, u)'
<1> SUFFICES ASSUME NEW s \in Sync, NEW u \in Uuid \cup {None}
             PROVE  /\ Alone(s, u)' /\ Once(s, u)'
                    /\ s = m.s => Only("wire", <<d, m.s.by>>, s, u)'
  <2>1. m.s \in Sync
    BY HeadType, MessageFields
  <2> QED
    BY <2>1, Zenon DEF OneToken
<1> DEFINE ls == Lines(d, m.uuids, m.since)
           l == [kind |-> "list", s |-> m.s, lines |-> ls]
<1>1. l \in Message
  <2>1. m.s \in Sync /\ m.uuids \in SUBSET Uuid
    BY HeadType, MessageFields
  <2>2. ls \in SUBSET [u : Uuid, entry : Entry]
    BY <2>1 DEF TypeOK, Lines
  <2> HIDE DEF ls
  <2> QED
    BY <2>1, <2>2, MessagesMade
<1>2. wire' = wire \/ wire' = Sent(d, m.s.by, m.s, l)
  BY DEF KernelAsk
<1>3. l.kind = "list" /\ l.s = m.s
  OBVIOUS
<1> HIDE DEF l
<1>4. toKernel' = Handled(toKernel, d, <<>>)
      /\ UNCHANGED <<toList, fromBackup, toSend, toStamp, connections>>
  BY DEF KernelAsk, bounds, serving
<1>5. Once(s, u) /\ connections \in Nat
  BY DEF OneToken, TypeOK
<1>6. CASE s = m.s
  <2>1. m \in Token(s, u)
    BY <1>6, HeadType, IsToken
  <2>2. /\ At("kernel", d, s, u) /\ ~ Holds(toKernel[d], Token(s, u))'
        /\ "kernel" \in Spot /\ d \in Site
    BY <1>4, <2>1, HandledTokens DEF Spot, Site
  <2>3. \A x \in Pair : ~ Holds(wire[x], Token(s, u))
    BY <2>2, Elsewhere
  <2>4. \A x \in Pair : /\ Holds(wire[x], Token(s, u))' => x = <<d, m.s.by>>
                        /\ Few(wire[x], Token(s, u))'
    BY <1>1, <1>2, <2>3, SentTokens, SMTT(40)
  <2>5. Once(s, u)'
    BY <1>4, <1>5, <2>4, HandledTokens DEF Once
  <2>6. Goes("kernel", d, "wire", <<d, m.s.by>>, s, u)
    BY <1>4, <1>6, <2>2, <2>4, HandledTokens DEF Goes
  <2>7. Alone(s, u)' /\ Only("wire", <<d, m.s.by>>, s, u)'
    BY <1>4, <2>2, <2>6, Moves
  <2> QED
    BY <2>5, <2>7
<1>7. CASE s # m.s
  <2>1. l \notin Token(s, u)
    BY <1>3, <1>7, NoToken
  <2>2. \A x \in Pair : /\ Holds(wire[x], Token(s, u))' => Holds(wire[x], Token(s, u))
                        /\ Few(wire[x], Token(s, u))'
    BY <1>1, <1>2, <2>1, SentTokens
  <2>3. Once(s, u)'
    BY <1>4, <1>5, <2>2, HandledTokens DEF Once
  <2>4. Kept(s, u)
    BY <1>4, <2>2, HandledTokens DEF Kept
  <2> QED
    BY <1>4, <1>5, <1>7, <2>3, <2>4, Stays
<1> QED
  BY <1>6, <1>7

LEMMA FinishTokens ==
    ASSUME TypeOK, TypeOK', OneToken, NEW d \in Device, NEW r \in Sync,
           NEW s \in Sync, NEW u \in Uuid \cup {None}
    PROVE  LET T == Token(s, u)
               m == Head(toKernel[d])
           IN /\ /\ \/ toKernel[d] # <<>> /\ Finish(r, d, Tail(toKernel[d]))
                    \/ Finish(r, d, toKernel[d])
                 => /\ \A x \in Pair : (Holds(wire[x], T)' => Holds(wire[x], T)) /\ Few(wire[x], T)'
                    /\ \A x \in Device : /\ Holds(toKernel[x], T)' => Holds(toKernel[x], T)
                                         /\ Few(toKernel[x], T)'
              /\ toKernel[d] # <<>> /\ Finish(r, d, Tail(toKernel[d])) /\ m \in T
                 => At("kernel", d, s, u) /\ ~ Holds(toKernel[d], T)'
<1> DEFINE T == Token(s, u)
           m == Head(toKernel[d])
<1>1. T' = T
  BY DEF Token, Message, Sync, Label, Entry
<1>2. [kind |-> "finished"] \notin T /\ [kind |-> "done", s |-> r] \notin T
  BY NoToken
<1>3. \A x \in Pair : Few(wire[x], T)
  BY DEF OneToken, Once
<1>4. \A x \in Device : Few(toKernel[x], T)
  BY DEF OneToken, Once
<1>5. m \in T /\ Holds(toKernel[d], T) => At("kernel", d, s, u)
  BY DEF At
<1> HIDE DEF T
<1>6. ASSUME NEW rest \in Seq(Message), Finish(r, d, rest), Few(rest, T),
             Holds(rest, T) => Holds(toKernel[d], T)
      PROVE  /\ \A x \in Pair : (Holds(wire'[x], T) => Holds(wire[x], T)) /\ Few(wire'[x], T)
             /\ \A x \in Device : /\ Holds(toKernel'[x], T) => Holds(toKernel[x], T)
                                  /\ Few(toKernel'[x], T)
             /\ Holds(toKernel'[d], T) => Holds(rest, T)
  BY <1>2, <1>3, <1>4, <1>6, FinishQueues
<1>7. ASSUME toKernel[d] # <<>>
      PROVE  /\ Tail(toKernel[d]) \in Seq(Message) /\ Few(Tail(toKernel[d]), T)
             /\ Holds(Tail(toKernel[d]), T) => Holds(toKernel[d], T)
             /\ m \in T => Holds(toKernel[d], T) /\ ~ Holds(Tail(toKernel[d]), T)
  BY <1>4, <1>7, HeadType, QueueTypes, TailHolds
<1>8. ASSUME toKernel[d] # <<>>, Finish(r, d, Tail(toKernel[d]))
      PROVE  /\ \A x \in Pair : (Holds(wire'[x], T) => Holds(wire[x], T)) /\ Few(wire'[x], T)
             /\ \A x \in Device : /\ Holds(toKernel'[x], T) => Holds(toKernel[x], T)
                                  /\ Few(toKernel'[x], T)
             /\ m \in T => Holds(toKernel[d], T) /\ ~ Holds(toKernel'[d], T)
  <2> DEFINE rest == Tail(toKernel[d])
  <2>1. /\ rest \in Seq(Message) /\ Few(rest, T) /\ Finish(r, d, rest)
        /\ Holds(rest, T) => Holds(toKernel[d], T)
        /\ m \in T => Holds(toKernel[d], T) /\ ~ Holds(rest, T)
    BY <1>7, <1>8
  <2> HIDE DEF rest
  <2> QED
    BY <1>6, <2>1
<1>9. ASSUME Finish(r, d, toKernel[d])
      PROVE  /\ \A x \in Pair : (Holds(wire'[x], T) => Holds(wire[x], T)) /\ Few(wire'[x], T)
             /\ \A x \in Device : /\ Holds(toKernel'[x], T) => Holds(toKernel[x], T)
                                  /\ Few(toKernel'[x], T)
  BY <1>4, <1>6, <1>9, QueueTypes
<1> HIDE DEF m
<1> QED
  BY <1>1, <1>5, <1>8, <1>9, Zenon DEF T, m

LEMMA ListTokens ==
    ASSUME TypeOK, TypeOK', OneToken, NEW d \in Device, toKernel[d] # <<>>, NEW m,
           m = Head(toKernel[d]), m.kind = "list", KernelList(d, m)
    PROVE  /\ OneToken'
           /\ \A u \in Uuid \cup {None} : Only("backup", d, m.s, u)'
<1> SUFFICES ASSUME NEW s \in Sync, NEW u \in Uuid \cup {None}
             PROVE  /\ Alone(s, u)' /\ Once(s, u)'
                    /\ s = m.s => Only("backup", d, s, u)'
  <2>1. m.s \in Sync
    BY HeadType, MessageFields
  <2> QED
    BY <2>1, Zenon DEF OneToken
<1> DEFINE want == {l.u : l \in {k \in m.lines : Wanted(d, k)}}
           n == [s |-> m.s, want |-> Awaited(d, m.lines, want)]
<1>1. m.s \in Sync /\ m.lines \in SUBSET [u : Uuid, entry : Entry]
  BY HeadType, MessageFields
<1>2. n \in [s : Sync, want : Wants] /\ n.s = m.s
  BY <1>1, AwaitedType
<1> HIDE DEF n
<1>3. UNCHANGED <<toList, toSend, toStamp, connections>>
  BY DEF KernelList, bounds, serving
<1>4. \/ Finish(m.s, d, Tail(toKernel[d])) /\ UNCHANGED fromBackup
      \/ toKernel' = Handled(toKernel, d, <<>>) /\ UNCHANGED wire
         /\ fromBackup' = Posted(fromBackup, d, <<n>>)
  BY DEF KernelList, n
<1>5. Once(s, u) /\ connections \in Nat
  BY DEF OneToken, TypeOK
<1>6. /\ \A x \in Pair : /\ Holds(wire[x], Token(s, u))' => Holds(wire[x], Token(s, u))
                         /\ Few(wire[x], Token(s, u))'
      /\ \A x \in Device : /\ Holds(toKernel[x], Token(s, u))' => Holds(toKernel[x], Token(s, u))
                           /\ Few(toKernel[x], Token(s, u))'
  <2>1. CASE Finish(m.s, d, Tail(toKernel[d]))
    BY <1>1, <2>1, FinishTokens
  <2>2. CASE toKernel' = Handled(toKernel, d, <<>>) /\ UNCHANGED wire
    BY <1>5, <2>2, HandledTokens DEF Once
  <2> QED
    BY <1>4, <2>1, <2>2
<1>7. \A x \in Device : /\ Holds(fromBackup[x], News(s))' =>
                               Holds(fromBackup[x], News(s)) \/ (x = d /\ s = m.s)
                        /\ (s = m.s => ~ Holds(fromBackup[x], News(s)))
                              => Few(fromBackup[x], News(s))'
  <2>1. \A x \in Device : Few(fromBackup[x], News(s))
    BY <1>5 DEF Once
  <2>2. n \in News(s) <=> s = m.s
    BY <1>2 DEF News
  <2>3. News(s)' = News(s)
    BY DEF News, Sync, Wants, Entry, Label
  <2> HIDE DEF want
  <2>4. CASE UNCHANGED fromBackup
    BY <2>1, <2>4
  <2>5. CASE fromBackup' = Posted(fromBackup, d, <<n>>)
    <3> DEFINE S == News(s)
    <3>1. \A e \in Device :
             /\ Holds(fromBackup'[e], S) => Holds(fromBackup[e], S) \/ (e = d /\ n \in S)
             /\ Few(fromBackup[e], S) /\ ~ (Holds(fromBackup[e], S) /\ n \in S)
                   => Few(fromBackup'[e], S)
      <4> HIDE DEF S
      <4> QED
        BY <1>2, <2>5, BackupPosted
    <3> QED
      BY <2>1, <2>2, <2>3, <3>1
  <2> QED
    BY <1>4, <2>4, <2>5
<1>8. CASE s = m.s
  <2>1. m \in Token(s, u)
    BY <1>8, HeadType, IsToken
  <2>2. At("kernel", d, s, u) /\ ~ Holds(toKernel[d], Token(s, u))'
    <3>1. CASE Finish(m.s, d, Tail(toKernel[d]))
      BY <1>1, <2>1, <3>1, FinishTokens
    <3>2. CASE toKernel' = Handled(toKernel, d, <<>>)
      BY <2>1, <3>2, HandledTokens
    <3> QED
      BY <1>4, <3>1, <3>2
  <2>3. "kernel" \in Spot /\ d \in Site
    BY DEF Spot, Site
  <2>4. \A x \in Device : ~ Holds(fromBackup[x], News(s))
    BY <2>2, <2>3, Elsewhere
  <2>5. Once(s, u)'
    BY <1>3, <1>5, <1>6, <1>7, <2>4 DEF Once
  <2>6. Goes("kernel", d, "backup", d, s, u)
    BY <1>3, <1>6, <1>7, <2>2, <2>4 DEF Goes
  <2>7. Alone(s, u)' /\ Only("backup", d, s, u)'
    BY <1>3, <2>2, <2>3, <2>6, Moves
  <2> QED
    BY <2>5, <2>7
<1>9. CASE s # m.s
  <2>1. Once(s, u)'
    BY <1>3, <1>5, <1>6, <1>7, <1>9 DEF Once
  <2>2. Kept(s, u)
    BY <1>3, <1>6, <1>7, <1>9 DEF Kept
  <2> QED
    BY <1>3, <1>5, <1>9, <2>1, <2>2, Stays
<1> QED
  BY <1>8, <1>9

LEMMA WantsTokens ==
    ASSUME TypeOK, TypeOK', OneToken, NEW d \in Device, KernelWants(d), NEW r,
           r = Head(fromBackup[d]).s
    PROVE  /\ OneToken'
           /\ \A u \in Uuid \cup {None} : Only("wire", <<d, r.of>>, r, u)'
<1>1. fromBackup[d] # <<>> /\ r \in Sync /\ Head(fromBackup[d]) \in News(r)
      /\ DOMAIN Head(fromBackup[d]).want \in SUBSET Uuid
  <2>1. Head(fromBackup[d]) \in [s : Sync, want : Wants]
    BY QueueTypes, TailElements DEF KernelWants
  <2> QED
    BY <2>1, RequestMade DEF KernelWants, News
<1> SUFFICES ASSUME NEW s \in Sync, NEW u \in Uuid \cup {None}
             PROVE  /\ Alone(s, u)' /\ Once(s, u)'
                    /\ s = r => Only("wire", <<d, r.of>>, s, u)'
  BY <1>1, Zenon DEF OneToken
<1> DEFINE m == [kind |-> "want", s |-> r, uuids |-> DOMAIN Head(fromBackup[d]).want]
<1>2. m \in Message
  BY <1>1, MessagesMade
<1>3. m.s = r
  OBVIOUS
<1>4. \/ Finish(r, d, toKernel[d])
      \/ UNCHANGED toKernel /\ (wire' = wire \/ wire' = Sent(d, r.of, r, m))
  BY Zenon DEF KernelWants
<1>5. fromBackup' = Handled(fromBackup, d, <<>>)
      /\ UNCHANGED <<toList, toSend, toStamp, connections>>
  BY DEF KernelWants, bounds, serving
<1> HIDE DEF m
<1>6. Once(s, u) /\ connections \in Nat
  BY DEF OneToken, TypeOK
<1>7. \A x \in Device : /\ Holds(toKernel[x], Token(s, u))' => Holds(toKernel[x], Token(s, u))
                        /\ Few(toKernel[x], Token(s, u))'
  BY <1>1, <1>4, <1>6, FinishTokens DEF Once
<1>8. /\ \A x \in Device : /\ Holds(fromBackup[x], News(s))' => Holds(fromBackup[x], News(s))
                           /\ Few(fromBackup[x], News(s))'
      /\ s = r => /\ Holds(fromBackup[d], News(s)) /\ ~ Holds(fromBackup[d], News(s))'
  <2> DEFINE S == News(s)
  <2>1. \A x \in Device : Few(fromBackup[x], S)
    BY <1>6 DEF Once
  <2>2. S' = S
    BY DEF News, Sync, Wants, Entry, Label
  <2>3. s = r => Head(fromBackup[d]) \in S
    BY <1>1
  <2> HIDE DEF S
  <2>4. /\ \A x \in Device : /\ Holds(fromBackup'[x], S) => Holds(fromBackup[x], S)
                             /\ Few(fromBackup'[x], S)
        /\ s = r => /\ Holds(fromBackup[d], S) /\ ~ Holds(fromBackup'[d], S)
    BY <1>1, <1>5, <2>1, <2>3, BackupTaken
  <2> QED
    BY <2>2, <2>4, Zenon DEF S
<1>9. ASSUME s = r => \A x \in Pair : ~ Holds(wire[x], Token(s, u))
      PROVE  \A x \in Pair :
                /\ Holds(wire[x], Token(s, u))' =>
                      Holds(wire[x], Token(s, u)) \/ (s = r /\ x = <<d, r.of>>)
                /\ Few(wire[x], Token(s, u))'
  <2>1. m \in Token(s, u) => s = r
    BY <1>3, NoToken
  <2>2. CASE Finish(r, d, toKernel[d])
    BY <1>1, <2>2, FinishTokens
  <2>3. CASE wire' = wire \/ wire' = Sent(d, r.of, r, m)
    <3>1. m \in Token(s, u) => \A x \in Pair : ~ Holds(wire[x], Token(s, u))
      BY <1>9, <2>1
    <3> QED
      BY <1>2, <2>1, <2>3, <3>1, SentTokens
  <2> QED
    BY <1>4, <2>2, <2>3
<1>10. CASE s = r
  <2>1. At("backup", d, s, u) /\ "backup" \in Spot /\ d \in Site
    BY <1>8, <1>10 DEF At, Spot, Site
  <2>2. \A x \in Pair : ~ Holds(wire[x], Token(s, u))
    BY <2>1, Elsewhere
  <2>3. Once(s, u)'
    BY <1>5, <1>6, <1>7, <1>8, <1>9, <2>2 DEF Once
  <2>4. Goes("backup", d, "wire", <<d, r.of>>, s, u)
    BY <1>5, <1>7, <1>8, <1>9, <1>10, <2>2 DEF Goes
  <2>5. Alone(s, u)' /\ Only("wire", <<d, r.of>>, s, u)'
    BY <1>5, <2>1, <2>4, Moves
  <2> QED
    BY <2>3, <2>5
<1>11. CASE s # r
  <2>1. Once(s, u)'
    BY <1>5, <1>6, <1>7, <1>8, <1>9, <1>11 DEF Once
  <2>2. Kept(s, u)
    BY <1>5, <1>7, <1>8, <1>9, <1>11 DEF Kept
  <2> QED
    BY <1>5, <1>6, <1>11, <2>1, <2>2, Stays
<1> QED
  BY <1>10, <1>11

LEMMA WantTokens ==
    ASSUME TypeOK, TypeOK', OneToken, NEW d \in Device, toKernel[d] # <<>>, NEW m,
           m = Head(toKernel[d]), m.kind = "want", KernelWant(d, m)
    PROVE  /\ OneToken'
           /\ \A u \in Uuid \cup {None} : Only("send", d, m.s, u)'
<1> SUFFICES ASSUME NEW s \in Sync, NEW u \in Uuid \cup {None}
             PROVE  /\ Alone(s, u)' /\ Once(s, u)'
                    /\ s = m.s => Only("send", d, s, u)'
  <2>1. m.s \in Sync
    BY HeadType, MessageFields
  <2> QED
    BY <2>1, Zenon DEF OneToken
<1>1. toKernel' = Handled(toKernel, d, <<>>)
      /\ toSend' = [toSend EXCEPT ![d] = @ \cup {[s |-> m.s, u |-> x] : x \in m.uuids}]
      /\ UNCHANGED <<wire, fromBackup, toList, toStamp, connections>>
  BY DEF KernelWant, bounds
<1>2. \A x \in Device : [s |-> s, u |-> u] \in toSend'[x] =>
         [s |-> s, u |-> u] \in toSend[x] \/ (x = d /\ s = m.s)
  BY <1>1 DEF TypeOK
<1>3. Once(s, u) /\ connections \in Nat
  BY DEF OneToken, TypeOK
<1>4. Once(s, u)'
  BY <1>1, <1>3, HandledTokens DEF Once
<1>5. CASE s = m.s
  <2>1. m \in Token(s, u)
    BY <1>5, HeadType, IsToken
  <2>2. At("kernel", d, s, u) /\ ~ Holds(toKernel[d], Token(s, u))'
    BY <1>1, <2>1, HandledTokens
  <2>3. "kernel" \in Spot /\ d \in Site
    BY DEF Spot, Site
  <2>4. Goes("kernel", d, "send", d, s, u)
    BY <1>1, <1>2, <1>5, <2>2, HandledTokens DEF Goes
  <2>5. Alone(s, u)' /\ Only("send", d, s, u)'
    BY <1>1, <2>2, <2>3, <2>4, Moves
  <2> QED
    BY <1>4, <2>5
<1>6. CASE s # m.s
  <2>1. Kept(s, u)
    BY <1>1, <1>2, <1>6, HandledTokens DEF Kept
  <2> QED
    BY <1>1, <1>3, <1>4, <1>6, <2>1, Stays
<1> QED
  BY <1>5, <1>6

LEMMA ReadsTokens ==
    ASSUME TypeOK, TypeOK', OneToken, NEW d \in Device, StorageReads(d)
    PROVE  OneToken'
<1>1. PICK x \in toSend[d] :
         /\ toSend' = [toSend EXCEPT ![d] = @ \ {x}]
         /\ \/ UNCHANGED toStamp
            \/ toStamp' = [toStamp EXCEPT ![d] = @ \cup
                             {[s |-> x.s, u |-> x.u, content |-> store[d][x.u]]}]
  BY DEF StorageReads
<1>2. x \in [s : Sync, u : Uuid]
  BY DEF TypeOK
<1>3. UNCHANGED <<wire, toKernel, fromBackup, toList, connections>>
  BY DEF StorageReads, bounds
<1> SUFFICES ASSUME NEW s \in Sync, NEW u \in Uuid \cup {None}
             PROVE  Alone(s, u)' /\ Once(s, u)'
  BY DEF OneToken
<1>4. Once(s, u) /\ connections \in Nat
  BY DEF OneToken, TypeOK
<1> DEFINE y0 == [s |-> x.s, u |-> x.u, content |-> store[d][x.u]]
<1>5. \A e \in Device : \A y \in toStamp'[e] : y \in toStamp[e] \/ (e = d /\ y = y0)
  BY <1>1 DEF TypeOK
<1>6. \A e \in Device : toSend'[e] = IF e = d THEN toSend[d] \ {x} ELSE toSend[e]
  BY <1>1 DEF TypeOK
<1>7. CASE s = x.s /\ u = x.u
  <2>1. x = [s |-> s, u |-> u]
    BY <1>2, <1>7
  <2>2. At("send", d, s, u) /\ "send" \in Spot /\ d \in Site
    BY <2>1 DEF At, Spot, Site
  <2>3. \A e \in Device : \A y \in toStamp[e] : ~ (y.s = s /\ y.u = u)
    BY <2>2, Elsewhere
  <2>4. Once(s, u)'
    BY <1>3, <1>4, <1>5, <2>3 DEF Once
  <2>5. Goes("send", d, "stamp", d, s, u)
    BY <1>3, <1>5, <1>6, <2>1, <2>3 DEF Goes
  <2> QED
    BY <1>3, <2>2, <2>4, <2>5, Moves
<1>8. CASE ~ (s = x.s /\ u = x.u)
  <2>1. ~ (y0.s = s /\ y0.u = u)
    BY <1>8
  <2> HIDE DEF y0
  <2>2. Once(s, u)'
    BY <1>3, <1>4, <1>5, <2>1 DEF Once
  <2>3. Kept(s, u)
    BY <1>3, <1>5, <1>6, <2>1 DEF Kept
  <2> QED
    BY <1>3, <1>4, <2>2, <2>3, Stays
<1> QED
  BY <1>7, <1>8

LEMMA StampsTokens ==
    ASSUME TypeOK, TypeOK', OneToken, NEW d \in Device, BackupStamps(d)
    PROVE  OneToken'
<1>1. PICK x \in toStamp[d] :
         /\ toStamp' = [toStamp EXCEPT ![d] = @ \ {x}]
         /\ wire' = IF json[d][x.u] = None \/ x.s \notin theirs THEN wire
                    ELSE Sent(d, x.s.by, x.s, [kind |-> "data", s |-> x.s, u |-> x.u,
                                              label |-> json[d][x.u].label,
                                              content |-> x.content])
  BY DEF BackupStamps
<1>2. x \in [s : Sync, u : Uuid, content : Label] /\ json[d][x.u] \in Entry \cup {None}
  BY DEF TypeOK
<1>3. UNCHANGED <<toSend, toKernel, fromBackup, toList, connections>>
  BY DEF BackupStamps, bounds
<1> DEFINE m == [kind |-> "data", s |-> x.s, u |-> x.u, label |-> json[d][x.u].label,
                       content |-> x.content]
<1> SUFFICES ASSUME NEW s \in Sync, NEW u \in Uuid \cup {None}
             PROVE  Alone(s, u)' /\ Once(s, u)'
  BY DEF OneToken
<1>4. Once(s, u) /\ connections \in Nat
  BY DEF OneToken, TypeOK
<1>5. \A e \in Device : toStamp'[e] = IF e = d THEN toStamp[d] \ {x} ELSE toStamp[e]
  BY <1>1 DEF TypeOK
<1>6. m.kind = "data" /\ m.s = x.s /\ m.u = x.u
  OBVIOUS
<1>7. ASSUME s = x.s /\ u = x.u => \A e \in Pair : ~ Holds(wire[e], Token(s, u))
      PROVE  \A e \in Pair :
                /\ Holds(wire[e], Token(s, u))' =>
                      \/ Holds(wire[e], Token(s, u))
                      \/ e = <<d, x.s.by>> /\ s = x.s /\ u = x.u
                /\ Few(wire[e], Token(s, u))'
  <2>1. CASE UNCHANGED wire
    BY <1>4, <2>1 DEF Once
  <2>2. CASE json[d][x.u] # None /\ wire' = Sent(d, x.s.by, x.s, m)
    <3>1. m \in Message
      BY <1>2, <2>2, MessagesMade DEF Entry
    <3> HIDE DEF m
    <3>2. m \in Token(s, u) => s = x.s /\ u = x.u
      BY <1>6 DEF Token
    <3>3. m \in Token(s, u) => \A e \in Pair : ~ Holds(wire[e], Token(s, u))
      BY <1>7, <3>2
    <3> QED
      BY <2>2, <3>1, <3>2, <3>3, SentTokens
  <2> QED
    BY <1>1, <2>1, <2>2
<1>8. CASE s = x.s /\ u = x.u
  <2>1. At("stamp", d, s, u) /\ "stamp" \in Spot /\ d \in Site
    BY <1>8 DEF At, Spot, Site
  <2>2. \A e \in Pair : ~ Holds(wire[e], Token(s, u))
    BY <2>1, Elsewhere
  <2>3. Once(s, u)'
    BY <1>3, <1>4, <1>5, <1>7, <2>2 DEF Once
  <2>4. \A y \in toStamp[d] : y.s = s /\ y.u = u => y = x
    BY <1>4, <1>8 DEF Once
  <2>5. Goes("stamp", d, "wire", <<d, x.s.by>>, s, u)
    BY <1>3, <1>5, <1>7, <2>2, <2>4 DEF Goes
  <2> QED
    BY <1>3, <2>1, <2>3, <2>5, Moves
<1>9. CASE ~ (s = x.s /\ u = x.u)
  <2>1. Once(s, u)'
    BY <1>3, <1>4, <1>5, <1>7, <1>9 DEF Once
  <2>2. Kept(s, u)
    BY <1>3, <1>5, <1>7, <1>9 DEF Kept
  <2> QED
    BY <1>3, <1>4, <2>1, <2>2, Stays
<1> QED
  BY <1>8, <1>9

LEMMA DataTokens ==
    ASSUME TypeOK, TypeOK', OneToken, NEW d \in Device, toKernel[d] # <<>>, NEW m,
           m = Head(toKernel[d]), m.kind = "data", KernelData(d, m)
    PROVE  OneToken' /\ Only("gone", d, m.s, m.u)'
<1>1. m.s \in Sync /\ m.u \in Uuid
  BY HeadType, MessageFields
<1> SUFFICES ASSUME NEW s \in Sync, NEW u \in Uuid \cup {None}
             PROVE  /\ Alone(s, u)' /\ Once(s, u)'
                    /\ s = m.s /\ u = m.u => Only("gone", d, s, u)'
  BY <1>1, Zenon DEF OneToken
<1>2. UNCHANGED <<fromBackup, toList, toSend, toStamp, connections>>
  BY DEF KernelData, bounds, serving
<1>3. \/ Finish(m.s, d, Tail(toKernel[d]))
      \/ toKernel' = Handled(toKernel, d, <<>>) /\ UNCHANGED wire
  BY DEF KernelData
<1>4. Once(s, u) /\ connections \in Nat
  BY DEF OneToken, TypeOK
<1>5. /\ \A x \in Pair : /\ Holds(wire[x], Token(s, u))' => Holds(wire[x], Token(s, u))
                         /\ Few(wire[x], Token(s, u))'
      /\ \A x \in Device : /\ Holds(toKernel[x], Token(s, u))' => Holds(toKernel[x], Token(s, u))
                           /\ Few(toKernel[x], Token(s, u))'
      /\ m \in Token(s, u) => At("kernel", d, s, u) /\ ~ Holds(toKernel[d], Token(s, u))'
  <2>1. CASE Finish(m.s, d, Tail(toKernel[d]))
    BY <1>1, <2>1, FinishTokens
  <2>2. CASE toKernel' = Handled(toKernel, d, <<>>) /\ UNCHANGED wire
    BY <1>4, <2>2, HandledTokens DEF Once
  <2> QED
    BY <1>3, <2>1, <2>2
<1>6. Once(s, u)'
  BY <1>2, <1>4, <1>5 DEF Once
<1>7. CASE s = m.s /\ u = m.u
  <2>1. m \in Token(s, u)
    BY <1>7, HeadType, IsToken
  <2>2. "kernel" \in Spot /\ d \in Site
    BY DEF Spot, Site
  <2>3. Goes("kernel", d, "gone", d, s, u)
    BY <1>2, <1>5, <2>1 DEF Goes
  <2>4. Alone(s, u)' /\ Only("gone", d, s, u)'
    BY <1>2, <1>5, <2>1, <2>2, <2>3, Moves
  <2> QED
    BY <1>6, <2>4
<1>8. CASE ~ (s = m.s /\ u = m.u)
  <2>1. Kept(s, u)
    BY <1>2, <1>5 DEF Kept
  <2> QED
    BY <1>2, <1>4, <1>6, <1>8, <2>1, Stays
<1> QED
  BY <1>7, <1>8

LEMMA ReceiveTokens ==
    ASSUME TypeOK, TypeOK', OneToken, NEW p \in Device, NEW d \in Device, p # d, Receive(p, d)
    PROVE  OneToken'
<1> DEFINE w == <<p, d>>
           m == Head(wire[<<p, d>>])
<1>1. w \in Pair /\ wire[w] # <<>> /\ m \in Message
  BY PairBack, QueueTypes, TailElements DEF Receive
<1>2. wire' = [wire EXCEPT ![w] = Tail(@)]
      /\ toKernel' = IF Passes(m) THEN Posted(toKernel, d, <<m>>) ELSE toKernel
  BY Zenon DEF Receive
<1>3. UNCHANGED <<fromBackup, toList, toSend, toStamp, connections>>
  BY DEF Receive, bounds, serving
<1> SUFFICES ASSUME NEW s \in Sync, NEW u \in Uuid \cup {None}
             PROVE  Alone(s, u)' /\ Once(s, u)'
  BY DEF OneToken
<1>4. Once(s, u) /\ connections \in Nat
  BY DEF OneToken, TypeOK
<1> DEFINE T == Token(s, u)
<1>5. T' = T
  BY DEF Token, Message, Sync, Label, Entry
<1>6. /\ \A x \in Pair : /\ Holds(wire'[x], T) => Holds(wire[x], T)
                         /\ Few(wire'[x], T)
      /\ m \in T => Holds(wire[w], T) /\ ~ Holds(wire'[w], T)
  <2>1. \A x \in Pair : Few(wire[x], T)
    BY <1>4 DEF Once
  <2> HIDE DEF T
  <2> QED
    BY <1>1, <1>2, <2>1, WireTaken
<1>7. ASSUME m \in T => ~ Holds(toKernel[d], T)
      PROVE  \A x \in Device : /\ Holds(toKernel'[x], T) =>
                                     Holds(toKernel[x], T) \/ (x = d /\ m \in T)
                               /\ Few(toKernel'[x], T)
  <2> DEFINE ms == <<m>>
  <2>1. \A x \in Device : Few(toKernel[x], T)
    BY <1>4 DEF Once
  <2>2. (Holds(ms, T) <=> m \in T) /\ Few(ms, T)
    BY OneHolds
  <2>3. ms \in Seq(Message)
    BY <1>1
  <2>4. CASE toKernel' = Posted(toKernel, d, ms)
    <3> HIDE DEF ms, T, m
    <3>1. \A e \in Device :
             /\ Holds(toKernel'[e], T) => Holds(toKernel[e], T) \/ (e = d /\ Holds(ms, T))
             /\ Few(toKernel[e], T) /\ Few(ms, T) /\ ~ (Holds(toKernel[e], T) /\ Holds(ms, T))
                   => Few(toKernel'[e], T)
      BY <2>3, <2>4, KernelPosted
    <3>2. \A e \in Device : ~ (Holds(toKernel[e], T) /\ Holds(ms, T)) \/ e # d
      BY <1>7, <2>2
    <3>3. \A e \in Device : e # d => toKernel'[e] = toKernel[e]
      BY <2>4, QueueTypes DEF Posted
    <3> QED
      BY <2>1, <2>2, <3>1, <3>2, <3>3
  <2>5. CASE toKernel' = toKernel
    BY <2>1, <2>5
  <2> QED
    BY <1>2, <2>4, <2>5
<1> HIDE DEF m
<1>8. CASE m \in T
  <2>1. At("wire", w, s, u) /\ "wire" \in Spot /\ w \in Site
    BY <1>1, <1>6, <1>8 DEF At, Spot, Site
  <2>2. \A x \in Device : ~ Holds(toKernel[x], Token(s, u))
    <3> HIDE DEF w
    <3> QED
      BY <2>1, Elsewhere
  <2>3. Once(s, u)'
    BY <1>3, <1>4, <1>5, <1>6, <1>7, <2>2 DEF Once
  <2>4. Goes("wire", w, "kernel", d, s, u)
    <3> HIDE DEF w
    <3> QED
      BY <1>3, <1>5, <1>6, <1>7, <1>8, <2>2 DEF Goes
  <2>5. Alone(s, u)'
    <3> HIDE DEF w
    <3> QED
      BY <1>3, <2>1, <2>4, Moves
  <2> QED
    BY <2>3, <2>5
<1>9. CASE m \notin T
  <2>1. Once(s, u)'
    BY <1>3, <1>4, <1>5, <1>6, <1>7, <1>9 DEF Once
  <2>2. Kept(s, u)
    BY <1>3, <1>5, <1>6, <1>7, <1>9 DEF Kept
  <2> QED
    BY <1>3, <1>4, <2>1, <2>2, Stays
<1> QED
  BY <1>8, <1>9

LEMMA ConnectTokens ==
    ASSUME TypeOK, TypeOK', OneToken, NEW d \in Device, NEW p \in Device, d # p, Connect(d, p)
    PROVE  OneToken'
<1> DEFINE both == {<<d, p>>, <<p, d>>}
           r(x) == [by |-> x[1], of |-> x[2], n |-> connections']
           asks(x) == r(x) \in Asking /\ SyncClass[x[1]] = 1
           starts(x) == r(x) \in Asking /\ SyncClass[x[1]] = 0
           ask(x) == [kind |-> "ask", s |-> r(x), uuids |-> Uuid, since |-> seen[x]]
           start(x) == [kind |-> "start", s |-> r(x), since |-> seen[x]]
           way(e) == IF e = d THEN <<d, p>> ELSE <<p, d>>
           ms(e) == IF e \in {d, p} /\ starts(way(e)) THEN <<start(way(e))>> ELSE <<>>
<1>1. connections' = connections + 1 /\ connections \in Nat /\ connections' \in 1 .. MaxConnections
  <2>1. connections' = connections + 1 /\ connections < MaxConnections
    BY Zenon DEF Connect
  <2>2. connections \in 0 .. MaxConnections /\ MaxConnections \in Nat
    BY JournalAssumption DEF TypeOK
  <2> QED
    BY <2>1, <2>2
<1>2. /\ wire' = [x \in Pair |-> IF x \in both /\ asks(x) THEN <<ask(x)>> ELSE wire[x]]
      /\ toKernel' = [e \in Device |-> toKernel[e] \o ms(e)]
  BY Zenon DEF Connect
<1>3. UNCHANGED <<fromBackup, toList, toSend, toStamp>>
  BY DEF Connect, serving
<1>4. \A x \in Pair : r(x) \in Sync /\ ask(x) \in Message /\ start(x) \in Message
  <2>1. \A x \in Pair : r(x) \in Sync
    BY <1>1, PairBack DEF Sync
  <2> HIDE DEF r
  <2> QED
    BY <2>1, MessagesMade DEF TypeOK
<1> SUFFICES ASSUME NEW s \in Sync, NEW u \in Uuid \cup {None}
             PROVE  Alone(s, u)' /\ Once(s, u)'
  BY DEF OneToken
<1>5. Once(s, u) /\ Alone(s, u)
  BY DEF OneToken
<1> DEFINE T == Token(s, u)
           new == s.n = connections'
<1>6. T' = T
  BY DEF Token, Message, Sync, Label, Entry
<1>7. \A x \in Pair : /\ ask(x) \in T => r(x) = s
                      /\ start(x) \in T => r(x) = s
  BY DEF Token
<1>8. \A x \in Pair : r(x) = s => x = <<s.by, s.of>> /\ x[1] = s.by /\ new
  <2> SUFFICES ASSUME NEW x \in Pair, r(x) = s
               PROVE  x = <<s.by, s.of>> /\ x[1] = s.by /\ new
    OBVIOUS
  <2>1. x[1] = s.by /\ x[2] = s.of /\ connections' = s.n
    OBVIOUS
  <2>2. x = <<x[1], x[2]>>
    BY PairBack
  <2> QED
    BY <2>1, <2>2
<1> HIDE DEF T, r, ask, start, new
<1>9. \A x \in Pair :
         /\ Holds(wire'[x], T) =>
               Holds(wire[x], T) \/ (x = <<s.by, s.of>> /\ new /\ SyncClass[s.by] = 1)
         /\ Few(wire'[x], T)
  <2> SUFFICES ASSUME NEW x \in Pair
               PROVE  /\ Holds(wire'[x], T) => \/ Holds(wire[x], T)
                                               \/ x = <<s.by, s.of>> /\ new /\ SyncClass[s.by] = 1
                      /\ Few(wire'[x], T)
    OBVIOUS
  <2>1. CASE x \in both /\ asks(x)
    <3>1. wire'[x] = <<ask(x)>>
      BY <1>2, <2>1
    <3>2. Few(wire'[x], T) /\ (Holds(wire'[x], T) => ask(x) \in T)
      BY <3>1, OneHolds
    <3> QED
      BY <1>7, <1>8, <2>1, <3>2
  <2>2. CASE ~ (x \in both /\ asks(x))
    <3>1. wire'[x] = wire[x]
      BY <1>2, <2>2
    <3>2. Few(wire[x], T)
      BY <1>5 DEF Once, T
    <3> QED
      BY <3>1, <3>2
  <2> QED
    BY <2>1, <2>2
<1>10. \A e \in Device : Holds(ms(e), T) => e = s.by /\ new /\ SyncClass[s.by] = 0
  <2> SUFFICES ASSUME NEW e \in Device, Holds(ms(e), T)
               PROVE  e = s.by /\ new /\ SyncClass[s.by] = 0
    OBVIOUS
  <2>1. e \in {d, p} /\ starts(way(e))
    BY OneHolds
  <2>2. way(e) \in Pair /\ way(e)[1] = e
    BY <2>1, PairBack
  <2>3. ms(e) = <<start(way(e))>>
    BY <2>1
  <2> HIDE DEF ms, way
  <2>4. start(way(e)) \in T
    BY <2>3, OneHolds
  <2> QED
    BY <1>7, <1>8, <2>1, <2>2, <2>4
<1>11. \A e \in Device : Few(ms(e), T) /\ ms(e) \in Seq(Message)
  <2> SUFFICES ASSUME NEW e \in Device PROVE Few(ms(e), T) /\ ms(e) \in Seq(Message)
    OBVIOUS
  <2>1. e \in {d, p} => way(e) \in Pair
    BY PairBack
  <2>2. CASE e \in {d, p} /\ starts(way(e))
    <3>1. ms(e) = <<start(way(e))>> /\ start(way(e)) \in Message
      BY <1>4, <2>1, <2>2
    <3> HIDE DEF ms, way
    <3>2. <<start(way(e))>> \in Seq(Message) /\ Few(<<start(way(e))>>, T)
      BY <3>1, OneHolds
    <3> QED
      BY <3>1, <3>2, Zenon
  <2>3. CASE ~ (e \in {d, p} /\ starts(way(e)))
    <3>1. ms(e) = <<>>
      BY <2>3
    <3> HIDE DEF ms
    <3>2. Few(<<>>, T) /\ <<>> \in Seq(Message)
      BY DEF Few
    <3> QED
      BY <3>1, <3>2, Zenon
  <2> QED
    BY <2>2, <2>3
<1> HIDE DEF ms
<1>12. ASSUME new => \A e \in Device : ~ Holds(toKernel[e], T)
       PROVE  \A e \in Device :
                 /\ Holds(toKernel'[e], T) =>
                       Holds(toKernel[e], T) \/ (e = s.by /\ new /\ SyncClass[s.by] = 0)
                 /\ Few(toKernel'[e], T)
  <2> SUFFICES ASSUME NEW e \in Device
               PROVE  /\ Holds(toKernel'[e], T) =>
                            Holds(toKernel[e], T) \/ (e = s.by /\ new /\ SyncClass[s.by] = 0)
                      /\ Few(toKernel'[e], T)
    OBVIOUS
  <2>1. toKernel'[e] = toKernel[e] \o ms(e) /\ toKernel[e] \in Seq(Message)
    BY <1>2, QueueTypes
  <2>2. Few(toKernel[e], T)
    BY <1>5 DEF Once, T
  <2>3. ~ (Holds(toKernel[e], T) /\ Holds(ms(e), T))
    BY <1>10, <1>12
  <2>4. /\ Holds(toKernel[e] \o ms(e), T) <=> Holds(toKernel[e], T) \/ Holds(ms(e), T)
        /\ Few(toKernel[e], T) /\ Few(ms(e), T) /\ ~ (Holds(toKernel[e], T) /\ Holds(ms(e), T))
              => Few(toKernel[e] \o ms(e), T)
    BY <1>11, <2>1, JoinHolds
  <2> QED
    BY <1>10, <1>11, <2>1, <2>2, <2>3, <2>4
<1>13. CASE ~ new
  <2>1. Once(s, u)'
    BY <1>3, <1>5, <1>6, <1>9, <1>12, <1>13 DEF Once, T
  <2>2. Kept(s, u)
    BY <1>3, <1>6, <1>9, <1>12, <1>13 DEF Kept, T
  <2> QED
    BY <1>1, <2>1, <2>2, Stays
<1>14. CASE new
  <2>1. ~ s.n <= connections /\ s.n <= connections'
    BY <1>1, <1>14 DEF new
  <2>2. \A e \in Spot, y \in Site : ~ At(e, y, s, u)
    BY <1>5, <2>1, Zenon DEF Alone
  <2>3. Pair \subseteq Site /\ Device \subseteq Site /\ s.by \in Site
    BY DEF Site, Sync
  <2>4. /\ \A x \in Pair : ~ Holds(wire[x], T)
        /\ \A x \in Device : ~ Holds(toKernel[x], T)
        /\ \A x \in Device : ~ Holds(fromBackup[x], News(s))
        /\ \A x \in Device : [s |-> s, u |-> u] \notin toSend[x]
        /\ \A x \in Device : \A y \in toStamp[x] : ~ (y.s = s /\ y.u = u)
        /\ s \notin toList
    BY <2>2, <2>3 DEF At, Spot, T
  <2>5. Once(s, u)'
    BY <1>3, <1>5, <1>6, <1>9, <1>12, <2>4 DEF Once, T
  <2>6. \A e \in Spot, y \in Site : At(e, y, s, u)' =>
           \/ e = "wire" /\ y = <<s.by, s.of>> /\ SyncClass[s.by] = 1
           \/ e = "kernel" /\ y = s.by /\ SyncClass[s.by] = 0
    BY <1>3, <1>6, <1>9, <1>12, <2>4 DEF At, T
  <2>7. Alone(s, u)'
    BY <2>1, <2>6 DEF Alone
  <2> QED
    BY <2>5, <2>7
<1> QED
  BY <1>13, <1>14

LEMMA QuietQueues ==
    ASSUME TypeOK, NEW T, [kind |-> "finished"] \notin T,
           \A r \in Sync : [kind |-> "cancel", s |-> r] \notin T,
           \A u \in Uuid, e \in Entry : [kind |-> "change", u |-> u, entry |-> e] \notin T,
           \/ \E d \in Device : Note(d) \/ Write(d) \/ Save(d)
           \/ \E d \in Device, u \in Uuid, deleted \in BOOLEAN : Change(d, u, deleted)
           \/ \E d \in Device, p \in Device : Disconnect(d, p)
           \/ \E d \in Device, clean \in BOOLEAN : Restart(d, clean)
           \/ \E s \in Sync : Expire(s) \/ ExpireTheirs(s)
           \/ \E d \in Device : /\ toKernel[d] # <<>>
                                /\ LET m == Head(toKernel[d])
                                   IN \/ KernelCancel(d, m) \/ KernelFinished(d)
                                      \/ KernelChange(d, m)
           \/ UNCHANGED vars
    PROVE  /\ \A x \in Pair : /\ Holds(wire'[x], T) => Holds(wire[x], T)
                              /\ Few(wire[x], T) => Few(wire'[x], T)
           /\ \A d \in Device : /\ Holds(toKernel'[d], T) => Holds(toKernel[d], T)
                                /\ Few(toKernel[d], T) => Few(toKernel'[d], T)
<1>1. \A x \in Pair : /\ Holds(wire'[x], T) => Holds(wire[x], T)
                      /\ Few(wire[x], T) => Few(wire'[x], T)
  <2> SUFFICES ASSUME NEW x \in Pair
               PROVE  /\ Holds(wire'[x], T) => Holds(wire[x], T)
                      /\ Few(wire[x], T) => Few(wire'[x], T)
    OBVIOUS
  <2>1. \/ wire'[x] = wire[x]
        \/ wire'[x] = <<>>
        \/ \E v \in Uuid, e \in Entry :
              wire'[x] = Append(wire[x], [kind |-> "change", u |-> v, entry |-> e])
    <3>1. CASE \E d \in Device, u_1 \in Uuid, deleted \in BOOLEAN : Change(d, u_1, deleted)
      <4>1. PICK d \in Device, v \in Uuid, deleted \in BOOLEAN : Change(d, v, deleted)
        BY <3>1
      <4> DEFINE known == json[d][v] # None
                 label == [v |-> IF known THEN json[d][v].label.v + 1 ELSE 1, t |-> now']
                 entry == [label |-> label, deleted |-> deleted]
      <4>2. label \in Label /\ entry \in Entry
        BY <4>1 DEF Change, Entry
      <4>3. wire' = [y \in Pair |->
                       IF y[1] # d \/ conn[y] = 0 THEN wire[y]
                       ELSE Append(wire[y], [kind |-> "change", u |-> v, entry |-> entry])]
        BY <4>1, Zenon DEF Change
      <4> HIDE DEF entry
      <4> QED
        BY <4>2, <4>3
    <3>2. CASE \E d \in Device, e \in Device : Disconnect(d, e)
      <4>1. PICK d \in Device, e \in Device : Disconnect(d, e)
        BY <3>2
      <4>2. wire' = [y \in Pair |-> IF y \in {<<d, e>>, <<e, d>>} THEN <<>> ELSE wire[y]]
        BY <4>1, Zenon DEF Disconnect
      <4> QED
        BY <4>2
    <3>3. CASE \E d \in Device, clean \in BOOLEAN : Restart(d, clean)
      <4>1. PICK d \in Device : \E clean \in BOOLEAN : Restart(d, clean)
        BY <3>3
      <4>2. wire' = [y \in Pair |->
                       IF y \in {z \in Pair : d \in {z[1], z[2]}} THEN <<>> ELSE wire[y]]
        BY <4>1, Zenon DEF Restart
      <4> QED
        BY <4>2
    <3>4. CASE \/ \E d \in Device : Note(d) \/ Write(d) \/ Save(d)
               \/ \E r \in Sync : Expire(r) \/ ExpireTheirs(r)
               \/ \E d \in Device : /\ toKernel[d] # <<>>
                                    /\ LET m == Head(toKernel[d])
                                       IN \/ KernelCancel(d, m) \/ KernelFinished(d)
                                          \/ KernelChange(d, m)
               \/ UNCHANGED vars
      BY <3>4 DEF Note, Write, Save, Expire, ExpireTheirs, KernelCancel, KernelFinished,
                  KernelChange, vars
    <3> QED
      BY <3>1, <3>2, <3>3, <3>4
  <2>2. ASSUME NEW v \in Uuid, NEW e \in Entry,
               wire'[x] = Append(wire[x], [kind |-> "change", u |-> v, entry |-> e])
        PROVE  /\ Holds(wire'[x], T) => Holds(wire[x], T)
               /\ Few(wire[x], T) => Few(wire'[x], T)
    <3> DEFINE m == [kind |-> "change", u |-> v, entry |-> e]
               q == wire[x]
    <3>1. m \in Message /\ m \notin T /\ q \in Seq(Message) /\ wire'[x] = Append(q, m)
      BY <2>2, OtherMessages, QueueTypes
    <3> HIDE DEF m, q
    <3>2. /\ Holds(Append(q, m), T) <=> Holds(q, T) \/ m \in T
          /\ Few(q, T) /\ ~ (Holds(q, T) /\ m \in T) => Few(Append(q, m), T)
      BY <3>1, AppendHolds
    <3> QED
      BY <3>1, <3>2, Zenon DEF q
  <2> QED
    BY <2>1, <2>2, OneHolds
<1>2. \A d \in Device : /\ Holds(toKernel'[d], T) => Holds(toKernel[d], T)
                        /\ Few(toKernel[d], T) => Few(toKernel'[d], T)
  <2>1. CASE UNCHANGED toKernel
    BY <2>1
  <2>2. CASE \E d \in Device, clean \in BOOLEAN : Restart(d, clean)
    <3>1. PICK d \in Device : toKernel' = [toKernel EXCEPT ![d] = <<>>]
      BY <2>2, Zenon DEF Restart
    <3> QED
      BY <3>1, QueueTypes, OneHolds
  <2>3. CASE \E r \in Sync : Expire(r)
    <3>1. PICK r \in Sync : Expire(r)
      BY <2>3
    <3> DEFINE c == [kind |-> "cancel", s |-> r]
               a == <<c>>
               b == LastOf(r)
    <3>2. toKernel' = Posted(toKernel, r.by, a \o b) /\ r.by \in Device
      BY <3>1 DEF Expire, Sync
    <3>3. c \in Message /\ c \notin T /\ b \in Seq(Message) /\ ~ Holds(b, T) /\ Few(b, T)
      BY MessagesMade, LastOfType, LastOfHolds
    <3>4. a \in Seq(Message) /\ ~ Holds(a, T) /\ Few(a, T)
      BY <3>3, OneHolds
    <3> HIDE DEF a, b
    <3>5. a \o b \in Seq(Message) /\ ~ Holds(a \o b, T) /\ Few(a \o b, T)
      BY <3>3, <3>4, JoinHolds, JoinElements
    <3> DEFINE ms == a \o b
    <3> HIDE DEF ms
    <3>6. \A e \in Device :
             /\ Holds(toKernel'[e], T) => Holds(toKernel[e], T) \/ (e = r.by /\ Holds(ms, T))
             /\ /\ Few(toKernel[e], T) /\ Few(ms, T)
                /\ ~ (Holds(toKernel[e], T) /\ Holds(ms, T))
                => Few(toKernel'[e], T)
      BY <3>2, <3>5, KernelPosted DEF ms
    <3> QED
      BY <3>5, <3>6 DEF ms
  <2>4. CASE \E d \in Device : toKernel[d] # <<>> /\ toKernel' = Handled(toKernel, d, <<>>)
    BY <2>4, KernelTaken
  <2> QED
    BY <2>1, <2>2, <2>3, <2>4, ZenonT(60) DEF Note, Write, Save, Change, Disconnect, ExpireTheirs,
       KernelCancel, KernelFinished, KernelChange, vars
<1> QED
  BY <1>1, <1>2

LEMMA QuietPlaces ==
    ASSUME TypeOK, TypeOK',
           \/ \E d \in Device : Note(d) \/ Write(d) \/ Save(d)
           \/ \E d \in Device, u \in Uuid, deleted \in BOOLEAN : Change(d, u, deleted)
           \/ \E d \in Device, p \in Device : Disconnect(d, p)
           \/ \E d \in Device, clean \in BOOLEAN : Restart(d, clean)
           \/ \E s \in Sync : Expire(s) \/ ExpireTheirs(s)
           \/ \E d \in Device : /\ toKernel[d] # <<>>
                                /\ LET m == Head(toKernel[d])
                                   IN \/ KernelCancel(d, m) \/ KernelFinished(d)
                                      \/ KernelChange(d, m)
           \/ UNCHANGED vars
    PROVE  /\ \A d \in Device : fromBackup'[d] = fromBackup[d] \/ fromBackup'[d] = <<>>
           /\ toList' \subseteq toList /\ connections' = connections
           /\ \A d \in Device : toSend'[d] \subseteq toSend[d] /\ toStamp'[d] \subseteq toStamp[d]
<1>1. CASE \E d \in Device, clean \in BOOLEAN : Restart(d, clean)
  <2>1. PICK d \in Device : \E clean \in BOOLEAN : Restart(d, clean)
    BY <1>1
  <2>2. /\ fromBackup' = [fromBackup EXCEPT ![d] = <<>>]
        /\ toList' = {s \in toList : s.by # d} /\ connections' = connections
        /\ toSend' = [toSend EXCEPT ![d] = {}] /\ toStamp' = [toStamp EXCEPT ![d] = {}]
    BY <2>1, Zenon DEF Restart
  <2>3. \A e \in Device : fromBackup'[e] = IF e = d THEN <<>> ELSE fromBackup[e]
    BY <2>2, QueueTypes DEF TypeOK
  <2> QED
    BY <2>2, <2>3 DEF TypeOK
<1>2. CASE ~ \E d \in Device, clean \in BOOLEAN : Restart(d, clean)
  <2>1. UNCHANGED <<fromBackup, toList, toSend, toStamp, connections>>
    BY <1>2, ZenonT(60) DEF Note, Write, Save, Change, Disconnect, Expire, ExpireTheirs, KernelCancel,
                KernelFinished, KernelChange, vars, serving, bounds
  <2> QED
    BY <2>1
<1> QED
  BY <1>1, <1>2

LEMMA QuietTokens ==
    ASSUME TypeOK, TypeOK', OneToken,
           \/ \E d \in Device : Note(d) \/ Write(d) \/ Save(d)
           \/ \E d \in Device, u \in Uuid, deleted \in BOOLEAN : Change(d, u, deleted)
           \/ \E d \in Device, p \in Device : Disconnect(d, p)
           \/ \E d \in Device, clean \in BOOLEAN : Restart(d, clean)
           \/ \E s \in Sync : Expire(s) \/ ExpireTheirs(s)
           \/ \E d \in Device : /\ toKernel[d] # <<>>
                                /\ LET m == Head(toKernel[d])
                                   IN \/ KernelCancel(d, m) \/ KernelFinished(d)
                                      \/ KernelChange(d, m)
           \/ UNCHANGED vars
    PROVE  OneToken'
<1>1. /\ \A d \in Device : fromBackup'[d] = fromBackup[d] \/ fromBackup'[d] = <<>>
      /\ toList' \subseteq toList /\ connections' = connections
      /\ \A d \in Device : toSend'[d] \subseteq toSend[d] /\ toStamp'[d] \subseteq toStamp[d]
  BY QuietPlaces
<1>2. /\ connections <= connections'
      /\ \A s \in Sync, u \in Uuid \cup {None} : Token(s, u)' = Token(s, u)
  BY <1>1 DEF Token, Message, Sync, Label, Entry, TypeOK
<1>3. ASSUME NEW s \in Sync, NEW u \in Uuid \cup {None}
      PROVE  /\ \A x \in Pair :
                   /\ Holds(wire[x], Token(s, u))' => Holds(wire[x], Token(s, u))
                   /\ Few(wire[x], Token(s, u)) => Few(wire[x], Token(s, u))'
             /\ \A d \in Device :
                   /\ Holds(toKernel[d], Token(s, u))' => Holds(toKernel[d], Token(s, u))
                   /\ Few(toKernel[d], Token(s, u)) => Few(toKernel[d], Token(s, u))'
  <2> DEFINE T == Token(s, u)
  <2>1. T' = T /\ [kind |-> "finished"] \notin T
        /\ (\A r : [kind |-> "cancel", s |-> r] \notin T)
        /\ (\A v, e : [kind |-> "change", u |-> v, entry |-> e] \notin T)
    BY <1>2, NoToken
  <2> HIDE DEF T
  <2>2. /\ \A x \in Pair : /\ Holds(wire'[x], T) => Holds(wire[x], T)
                           /\ Few(wire[x], T) => Few(wire'[x], T)
        /\ \A d \in Device : /\ Holds(toKernel'[d], T) => Holds(toKernel[d], T)
                             /\ Few(toKernel[d], T) => Few(toKernel'[d], T)
    BY <2>1, QuietQueues
  <2> QED
    BY <2>1, <2>2, Zenon DEF T
<1> QED
  BY <1>1, <1>2, <1>3, TokensUnmoved, Zenon

-----------------------------------------------------------------------------
(* Which messages of a synchronisation come into queues *)

Plain == {"done", "cancel", "finished", "change"}

\* N has the queues and messages that are new.
Brings(N) ==
    \A m \in Message : m.kind \notin Plain =>
        /\ \A x \in Pair : Holds(wire'[x], {m}) => Holds(wire[x], {m}) \/ <<"wire", x, m>> \in N
        /\ \A d \in Device : Holds(toKernel'[d], {m}) =>
              Holds(toKernel[d], {m}) \/ <<"kernel", d, m>> \in N

LEMMA QuietBrings ==
    ASSUME TypeOK,
           \/ \E d \in Device : Note(d) \/ Write(d) \/ Save(d)
           \/ \E d \in Device, u \in Uuid, deleted \in BOOLEAN : Change(d, u, deleted)
           \/ \E d \in Device, p \in Device : Disconnect(d, p)
           \/ \E d \in Device, clean \in BOOLEAN : Restart(d, clean)
           \/ \E s \in Sync : Expire(s) \/ ExpireTheirs(s)
           \/ \E d \in Device : /\ toKernel[d] # <<>>
                                /\ LET m == Head(toKernel[d])
                                   IN \/ KernelCancel(d, m) \/ KernelFinished(d)
                                      \/ KernelChange(d, m)
           \/ UNCHANGED vars
    PROVE  Brings({})
<1> SUFFICES ASSUME NEW m \in Message, m.kind \notin Plain
             PROVE  /\ \A x \in Pair : Holds(wire'[x], {m}) => Holds(wire[x], {m})
                    /\ \A d \in Device : Holds(toKernel'[d], {m}) => Holds(toKernel[d], {m})
  BY DEF Brings
<1> DEFINE T == {m}
<1>1. /\ [kind |-> "finished"] \notin T
      /\ \A r \in Sync : [kind |-> "cancel", s |-> r] \notin T
      /\ \A u \in Uuid, e \in Entry : [kind |-> "change", u |-> u, entry |-> e] \notin T
  BY DEF Plain
<1> HIDE DEF T
<1>2. /\ \A x \in Pair : Holds(wire'[x], T) => Holds(wire[x], T)
      /\ \A d \in Device : Holds(toKernel'[d], T) => Holds(toKernel[d], T)
  BY <1>1, QuietQueues
<1> QED
  BY <1>2 DEF T

LEMMA SentBrings ==
    ASSUME TypeOK, NEW from, NEW to, NEW r, NEW n \in Message,
           wire' = wire \/ wire' = Sent(from, to, r, n),
           \/ UNCHANGED toKernel
           \/ \E d \in Device : toKernel[d] # <<>> /\ toKernel' = Handled(toKernel, d, <<>>)
    PROVE  Brings({<<"wire", <<from, to>>, n>>}) /\ (UNCHANGED wire => Brings({}))
<1> SUFFICES ASSUME NEW m \in Message
             PROVE  /\ \A x \in Pair : /\ Holds(wire'[x], {m}) =>
                                             Holds(wire[x], {m}) \/ (x = <<from, to>> /\ m = n)
                                       /\ UNCHANGED wire /\ Holds(wire'[x], {m}) =>
                                             Holds(wire[x], {m})
                    /\ \A d \in Device : Holds(toKernel'[d], {m}) => Holds(toKernel[d], {m})
  BY DEF Brings
<1> DEFINE T == {m}
<1>1. n \in T => m = n
  OBVIOUS
<1> HIDE DEF T
<1>2. \A x \in Pair : Holds(wire'[x], T) => Holds(wire[x], T) \/ (x = <<from, to>> /\ n \in T)
  BY WireSent
<1>3. \A d \in Device : Holds(toKernel'[d], T) => Holds(toKernel[d], T)
  BY KernelTaken
<1> QED
  BY <1>1, <1>2, <1>3 DEF T

LEMMA FinishBrings ==
    ASSUME TypeOK, NEW d \in Device, NEW r \in Sync,
           \/ toKernel[d] # <<>> /\ Finish(r, d, Tail(toKernel[d]))
           \/ Finish(r, d, toKernel[d])
    PROVE  Brings({})
<1> SUFFICES ASSUME NEW m \in Message, m.kind \notin Plain
             PROVE  /\ \A x \in Pair : Holds(wire'[x], {m}) => Holds(wire[x], {m})
                    /\ \A e \in Device : Holds(toKernel'[e], {m}) => Holds(toKernel[e], {m})
  BY DEF Brings
<1> DEFINE T == {m}
<1>1. [kind |-> "finished"] \notin T /\ [kind |-> "done", s |-> r] \notin T
  BY DEF Plain
<1> HIDE DEF T
<1>2. ASSUME NEW rest \in Seq(Message), Finish(r, d, rest),
             Holds(rest, T) => Holds(toKernel[d], T)
      PROVE  /\ \A x \in Pair : Holds(wire'[x], T) => Holds(wire[x], T)
             /\ \A e \in Device : Holds(toKernel'[e], T) => Holds(toKernel[e], T)
  BY <1>1, <1>2, FinishQueues
<1>3. toKernel[d] # <<>> => /\ Tail(toKernel[d]) \in Seq(Message)
                            /\ Holds(Tail(toKernel[d]), T) => Holds(toKernel[d], T)
  BY QueueTypes, HeadType, TailHolds
<1>4. toKernel[d] \in Seq(Message)
  BY QueueTypes
<1> QED
  BY <1>2, <1>3, <1>4 DEF T

LEMMA ReceiveBrings ==
    ASSUME TypeOK, NEW p \in Device, NEW d \in Device, p # d, Receive(p, d)
    PROVE  /\ Brings({<<"kernel", d, Head(wire[<<p, d>>])>>})
           /\ Head(wire[<<p, d>>]) \in Message /\ <<p, d>> \in Pair
           /\ Holds(wire[<<p, d>>], {Head(wire[<<p, d>>])})
<1> DEFINE w == <<p, d>>
           n == Head(wire[<<p, d>>])
<1>1. w \in Pair /\ wire[w] # <<>> /\ n \in Message
  BY PairBack, QueueTypes, TailElements DEF Receive
<1>2. wire' = [wire EXCEPT ![w] = Tail(@)]
      /\ toKernel' = IF Passes(n) THEN Posted(toKernel, d, <<n>>) ELSE toKernel
  BY Zenon DEF Receive
<1>3. Holds(wire[w], {n})
  BY <1>1, QueueTypes, TailHolds
<1>4. ASSUME NEW m \in Message
      PROVE  /\ \A x \in Pair : Holds(wire'[x], {m}) => Holds(wire[x], {m})
             /\ \A e \in Device : Holds(toKernel'[e], {m}) =>
                                     Holds(toKernel[e], {m}) \/ (e = d /\ m = n)
  <2> DEFINE T == {m}
             ms == <<n>>
  <2>1. n \in T => m = n
    OBVIOUS
  <2>2. (Holds(ms, T) <=> n \in T) /\ ms \in Seq(Message)
    BY <1>1, OneHolds
  <2> HIDE DEF T, ms, n
  <2>3. \A x \in Pair : Holds(wire'[x], T) => Holds(wire[x], T)
    <3> HIDE DEF w
    <3> QED
      BY <1>1, <1>2, WireTaken
  <2>4. \A e \in Device : Holds(toKernel'[e], T) =>
                             Holds(toKernel[e], T) \/ (e = d /\ Holds(ms, T))
    <3>1. toKernel' = Posted(toKernel, d, ms) \/ toKernel' = toKernel
      BY <1>2 DEF ms
    <3> QED
      BY <2>2, <3>1, KernelPosted
  <2> QED
    BY <2>1, <2>2, <2>3, <2>4 DEF T
<1> QED
  BY <1>1, <1>3, <1>4 DEF Brings

LEMMA ConnectBrings ==
    ASSUME TypeOK, NEW d \in Device, NEW p \in Device, d # p, Connect(d, p)
    PROVE  Brings({y \in {"wire", "kernel"} \X Site \X Message :
                     y[3].kind \in {"ask", "start"} /\ y[3].s.n = connections'})
<1> DEFINE both == {<<d, p>>, <<p, d>>}
           r(x) == [by |-> x[1], of |-> x[2], n |-> connections']
           asks(x) == r(x) \in Asking /\ SyncClass[x[1]] = 1
           starts(x) == r(x) \in Asking /\ SyncClass[x[1]] = 0
           ask(x) == [kind |-> "ask", s |-> r(x), uuids |-> Uuid, since |-> seen[x]]
           start(x) == [kind |-> "start", s |-> r(x), since |-> seen[x]]
           way(e) == IF e = d THEN <<d, p>> ELSE <<p, d>>
           ms(e) == IF e \in {d, p} /\ starts(way(e)) THEN <<start(way(e))>> ELSE <<>>
           N == {y \in {"wire", "kernel"} \X Site \X Message :
                   y[3].kind \in {"ask", "start"} /\ y[3].s.n = connections'}
<1>1. /\ wire' = [x \in Pair |-> IF x \in both /\ asks(x) THEN <<ask(x)>> ELSE wire[x]]
      /\ toKernel' = [e \in Device |-> toKernel[e] \o ms(e)]
  BY Zenon DEF Connect
<1>2. Pair \subseteq Site /\ Device \subseteq Site
  BY DEF Site
<1>3. \A x : /\ ask(x).kind \in {"ask", "start"} /\ ask(x).s.n = connections'
             /\ start(x).kind \in {"ask", "start"} /\ start(x).s.n = connections'
  OBVIOUS
<1>4. \A x \in Pair : start(x) \in Message
  <2>1. connections' = connections + 1 /\ connections < MaxConnections
    BY Zenon DEF Connect
  <2>2. connections' \in 1 .. MaxConnections
    BY <2>1, JournalAssumption DEF TypeOK
  <2>3. \A x \in Pair : r(x) \in Sync
    BY <2>2, PairBack DEF Sync
  <2> HIDE DEF r
  <2> QED
    BY <2>3, MessagesMade DEF TypeOK
<1> HIDE DEF ask, start, r
<1>5. ASSUME NEW m \in Message, NEW x \in Pair, Holds(wire'[x], {m})
      PROVE  Holds(wire[x], {m}) \/ <<"wire", x, m>> \in N
  <2>1. CASE x \in both /\ asks(x)
    <3>1. wire'[x] = <<ask(x)>>
      BY <1>1, <2>1
    <3>2. m = ask(x)
      BY <1>5, <3>1 DEF Holds
    <3> QED
      BY <1>2, <1>3, <3>2
  <2>2. CASE ~ (x \in both /\ asks(x))
    BY <1>1, <1>5, <2>2
  <2> QED
    BY <2>1, <2>2
<1>6. ASSUME NEW m \in Message, NEW e \in Device, Holds(toKernel'[e], {m})
      PROVE  Holds(toKernel[e], {m}) \/ <<"kernel", e, m>> \in N
  <2>1. toKernel'[e] = toKernel[e] \o ms(e) /\ toKernel[e] \in Seq(Message)
    BY <1>1, QueueTypes
  <2>2. CASE e \in {d, p} /\ starts(way(e))
    <3>1. ms(e) = <<start(way(e))>> /\ way(e) \in Pair
      BY <2>2, PairBack
    <3> DEFINE n == start(way(e))
               T == {m}
               q == <<n>>
    <3>2. n \in Message /\ q \in Seq(Message) /\ (Holds(q, T) <=> n \in T) /\ ms(e) = q
      <4>1. n \in Message
        BY <1>4, <3>1
      <4> HIDE DEF n
      <4> QED
        BY <3>1, <4>1, OneHolds DEF n
    <3>3. n.kind \in {"ask", "start"} /\ n.s.n = connections' /\ (n \in T => m = n)
      BY <1>3
    <3> HIDE DEF n, T, ms, q
    <3>4. Holds(toKernel[e] \o q, T) <=> Holds(toKernel[e], T) \/ Holds(q, T)
      BY <2>1, <3>2, JoinHolds
    <3>5. Holds(toKernel[e], T) \/ m = n
      BY <1>6, <2>1, <3>2, <3>3, <3>4 DEF T
    <3> QED
      BY <1>2, <3>3, <3>5 DEF T
  <2>3. CASE ~ (e \in {d, p} /\ starts(way(e)))
    <3>1. ms(e) = <<>>
      BY <2>3
    <3>2. toKernel[e] \o <<>> = toKernel[e]
      BY <2>1
    <3> HIDE DEF ms
    <3> QED
      BY <1>6, <2>1, <3>1, <3>2
  <2> QED
    BY <2>2, <2>3
<1> HIDE DEF N
<1> QED
  BY <1>5, <1>6 DEF Brings, N

-----------------------------------------------------------------------------
(* What comes to the device that asks *)

LEMMA BackupElements ==
    ASSUME TypeOK
    PROVE  \A d \in Device : \A k \in DOMAIN fromBackup[d] :
              fromBackup[d][k] \in [s : Sync, want : Wants]
<1> DEFINE N == [s : Sync, want : Wants]
<1>1. \A d \in Device : fromBackup[d] \in Seq(N)
  BY QueueTypes
<1>2. \A d \in Device : \A k \in DOMAIN fromBackup[d] : fromBackup[d][k] \in N
  <2> HIDE DEF N
  <2> QED
    BY <1>1, ElementOfSeq, LenProperties
<1> QED
  BY <1>2

LEMMA HomewardHolds ==
    TypeOK =>
       (Homeward <=>
          /\ \A m \in Message : m.kind \in {"list", "data"} =>
                /\ \A x \in Pair : Holds(wire[x], {m}) => m.s.by = x[2]
                /\ \A d \in Device : Holds(toKernel[d], {m}) => m.s.by = d
          /\ \A s \in Sync, d \in Device : Holds(fromBackup[d], News(s)) => s.by = d)
<1> SUFFICES ASSUME TypeOK
             PROVE  Homeward <=>
                      /\ \A m \in Message : m.kind \in {"list", "data"} =>
                            /\ \A x \in Pair : Holds(wire[x], {m}) => m.s.by = x[2]
                            /\ \A d \in Device : Holds(toKernel[d], {m}) => m.s.by = d
                      /\ \A s \in Sync, d \in Device : Holds(fromBackup[d], News(s)) => s.by = d
  OBVIOUS
<1>1. /\ \A x \in Pair : \A k \in DOMAIN wire[x] : wire[x][k] \in Message
      /\ \A d \in Device : \A k \in DOMAIN toKernel[d] : toKernel[d][k] \in Message
  BY QueueTypes, ElementOfSeq, LenProperties
<1>2. \A d \in Device : \A k \in DOMAIN fromBackup[d] :
         fromBackup[d][k] \in [s : Sync, want : Wants]
  BY BackupElements
<1>3. ASSUME Homeward
      PROVE  /\ \A m \in Message : m.kind \in {"list", "data"} =>
                   /\ \A x \in Pair : Holds(wire[x], {m}) => m.s.by = x[2]
                   /\ \A d \in Device : Holds(toKernel[d], {m}) => m.s.by = d
             /\ \A s \in Sync, d \in Device : Holds(fromBackup[d], News(s)) => s.by = d
  BY <1>3 DEF Homeward, Holds, News
<1>4. ASSUME \A m \in Message : m.kind \in {"list", "data"} =>
                /\ \A x \in Pair : Holds(wire[x], {m}) => m.s.by = x[2]
                /\ \A d \in Device : Holds(toKernel[d], {m}) => m.s.by = d,
             \A s \in Sync, d \in Device : Holds(fromBackup[d], News(s)) => s.by = d
      PROVE  Homeward
  <2>1. ASSUME NEW x \in Pair, NEW k \in DOMAIN wire[x], wire[x][k].kind \in {"list", "data"}
        PROVE  wire[x][k].s.by = x[2]
    <3>1. wire[x][k] \in Message /\ Holds(wire[x], {wire[x][k]})
      BY <1>1 DEF Holds
    <3> QED
      BY <1>4, <2>1, <3>1
  <2>2. ASSUME NEW d \in Device, NEW k \in DOMAIN toKernel[d],
               toKernel[d][k].kind \in {"list", "data"}
        PROVE  toKernel[d][k].s.by = d
    <3>1. toKernel[d][k] \in Message /\ Holds(toKernel[d], {toKernel[d][k]})
      BY <1>1 DEF Holds
    <3> QED
      BY <1>4, <2>2, <3>1
  <2>3. ASSUME NEW d \in Device, NEW k \in DOMAIN fromBackup[d] PROVE fromBackup[d][k].s.by = d
    <3>1. fromBackup[d][k] \in [s : Sync, want : Wants]
      BY <1>2
    <3>2. fromBackup[d][k].s \in Sync /\ Holds(fromBackup[d], News(fromBackup[d][k].s))
      BY <3>1 DEF Holds, News
    <3> QED
      BY <1>4, <3>2
  <2> QED
    BY <2>1, <2>2, <2>3 DEF Homeward
<1> QED
  BY <1>3, <1>4

LEMMA HomewardKept ==
    ASSUME TypeOK, TypeOK', Homeward, NEW N, Brings(N),
           \A m \in Message : m.kind \in {"list", "data"} =>
              /\ \A x \in Pair : <<"wire", x, m>> \in N => m.s.by = x[2]
              /\ \A d \in Device : <<"kernel", d, m>> \in N => m.s.by = d,
           \A s \in Sync, d \in Device :
              Holds(fromBackup'[d], News(s)) => Holds(fromBackup[d], News(s)) \/ s.by = d
    PROVE  Homeward'
<1>1. (TypeOK => (Homeward <=>
          /\ \A m \in Message : m.kind \in {"list", "data"} =>
                /\ \A x \in Pair : Holds(wire[x], {m}) => m.s.by = x[2]
                /\ \A d \in Device : Holds(toKernel[d], {m}) => m.s.by = d
          /\ \A s \in Sync, d \in Device : Holds(fromBackup[d], News(s)) => s.by = d))'
  BY HomewardHolds, PTL
<1>2. /\ \A m \in Message : m.kind \in {"list", "data"} =>
            /\ \A x \in Pair : Holds(wire'[x], {m}) => m.s.by = x[2]
            /\ \A d \in Device : Holds(toKernel'[d], {m}) => m.s.by = d
      /\ \A s \in Sync, d \in Device : Holds(fromBackup'[d], News(s)) => s.by = d
  <2>1. /\ \A m \in Message : m.kind \in {"list", "data"} =>
              /\ \A x \in Pair : Holds(wire[x], {m}) => m.s.by = x[2]
              /\ \A d \in Device : Holds(toKernel[d], {m}) => m.s.by = d
        /\ \A s \in Sync, d \in Device : Holds(fromBackup[d], News(s)) => s.by = d
    BY HomewardHolds
  <2> QED
    BY <2>1 DEF Brings, Plain
<1>3. Message' = Message /\ Sync' = Sync /\ \A s \in Sync : News(s)' = News(s)
  BY DEF News, Sync, Wants, Entry, Label, Message
<1> QED
  BY <1>1, <1>2, <1>3

LEMMA QuietHomeward ==
    ASSUME TypeOK, TypeOK', Homeward, Brings({}),
           \A d \in Device : fromBackup'[d] = fromBackup[d] \/ fromBackup'[d] = <<>>
    PROVE  Homeward'
<1>1. \A s \in Sync, d \in Device : Holds(fromBackup'[d], News(s)) => Holds(fromBackup[d], News(s))
  BY OneHolds
<1>2. \A m \in Message : m.kind \in {"list", "data"} =>
         /\ \A x \in Pair : <<"wire", x, m>> \in {} => m.s.by = x[2]
         /\ \A d \in Device : <<"kernel", d, m>> \in {} => m.s.by = d
  OBVIOUS
<1> QED
  BY <1>1, <1>2, HomewardKept

-----------------------------------------------------------------------------
(* The requests *)

\* What a synchronisation has on the way suits its request.
Fit(s) ==
    /\ req[s] # None => s.n <= connections
    /\ s \in toList => req[s] # None /\ req[s].st = "start"
    /\ \A d \in Device : Holds(fromBackup[d], News(s)) => req[s] = None \/ req[s].st = "asked"
    /\ \A m \in Message : m.kind \notin Plain /\ m.s = s =>
          /\ \A x \in Pair : Holds(wire[x], {m}) => Suits(m)
          /\ \A d \in Device : Holds(toKernel[d], {m}) => Suits(m)
    /\ \A d \in Device, u \in Uuid :
          /\ [s |-> s, u |-> u] \in toSend[d] => Open(s, u)
          /\ \A y \in toStamp[d] : y.s = s /\ y.u = u => Open(s, u)

LEMMA HoldsOne ==
    ASSUME NEW q, NEW m
    PROVE  Holds(q, {m}) <=> \E k \in DOMAIN q : q[k] = m
BY DEF Holds

LEMMA FitParts ==
    TypeOK => (Requests <=> \A s \in Sync : Fit(s))
<1> SUFFICES ASSUME TypeOK PROVE Requests <=> \A s \in Sync : Fit(s)
  OBVIOUS
<1>1. \A m \in Message : (m.kind \notin Plain => m.s \in Sync) /\ (m.kind \in Plain => Suits(m))
  BY MessageFields DEF Plain, Suits
<1>2. \A d \in Device : fromBackup[d] \in Seq([s : Sync, want : Wants])
  BY QueueTypes
<1>3. /\ \A x \in Pair : \A k \in DOMAIN wire[x] : wire[x][k] \in Message
      /\ \A d \in Device : \A k \in DOMAIN toKernel[d] : toKernel[d][k] \in Message
  BY QueueTypes, ElementOfSeq, LenProperties
<1>4. \A d \in Device : \A k \in DOMAIN fromBackup[d] :
         fromBackup[d][k] \in [s : Sync, want : Wants]
  BY BackupElements
<1>5. toList \subseteq Sync /\ \A d \in Device : /\ toSend[d] \subseteq [s : Sync, u : Uuid]
                                                /\ toStamp[d] \subseteq
                                                      [s : Sync, u : Uuid, content : Label]
  BY DEF TypeOK
<1>6. ASSUME Requests, NEW s \in Sync PROVE Fit(s)
  <2>1. /\ req[s] # None => s.n <= connections
        /\ s \in toList => req[s] # None /\ req[s].st = "start"
    BY <1>6 DEF Requests
  <2>2. \A d \in Device : Holds(fromBackup[d], News(s)) => req[s] = None \/ req[s].st = "asked"
    BY <1>6 DEF Requests, Holds, News
  <2>3. \A m \in Message : /\ \A x \in Pair : Holds(wire[x], {m}) => Suits(m)
                           /\ \A d \in Device : Holds(toKernel[d], {m}) => Suits(m)
    <3>1. /\ \A x \in Pair : \A k \in DOMAIN wire[x] : Suits(wire[x][k])
          /\ \A d \in Device : \A k \in DOMAIN toKernel[d] : Suits(toKernel[d][k])
      BY <1>6 DEF Requests
    <3>2. ASSUME NEW m \in Message, NEW x \in Pair, Holds(wire[x], {m}) PROVE Suits(m)
      <4>1. PICK k \in DOMAIN wire[x] : wire[x][k] = m
        BY <3>2, HoldsOne
      <4> QED
        BY <3>1, <4>1, Zenon
    <3>3. ASSUME NEW m \in Message, NEW d \in Device, Holds(toKernel[d], {m}) PROVE Suits(m)
      <4>1. PICK k \in DOMAIN toKernel[d] : toKernel[d][k] = m
        BY <3>3, HoldsOne
      <4> QED
        BY <3>1, <4>1, Zenon
    <3> QED
      BY <3>2, <3>3
  <2>4. \A d \in Device, u \in Uuid :
           /\ [s |-> s, u |-> u] \in toSend[d] => Open(s, u)
           /\ \A y \in toStamp[d] : y.s = s /\ y.u = u => Open(s, u)
    BY <1>6 DEF Requests
  <2> QED
    BY <2>1, <2>2, <2>3, <2>4 DEF Fit
<1>7. ASSUME \A s \in Sync : Fit(s) PROVE Requests
  <2>1. \A s \in Sync : req[s] # None => s.n <= connections
    BY <1>7 DEF Fit
  <2>2. \A s \in toList : req[s] # None /\ req[s].st = "start"
    BY <1>5, <1>7 DEF Fit
  <2>3. ASSUME NEW d \in Device, NEW k \in DOMAIN fromBackup[d]
        PROVE  req[fromBackup[d][k].s] = None \/ req[fromBackup[d][k].s].st = "asked"
    <3>1. fromBackup[d][k] \in [s : Sync, want : Wants]
      BY <1>4
    <3>2. fromBackup[d][k].s \in Sync /\ fromBackup[d][k] \in News(fromBackup[d][k].s)
      BY <3>1 DEF News
    <3>3. Holds(fromBackup[d], News(fromBackup[d][k].s))
      BY <3>2 DEF Holds
    <3> QED
      BY <1>7, <3>2, <3>3 DEF Fit
  <2>4. ASSUME NEW x \in Pair, NEW k \in DOMAIN wire[x] PROVE Suits(wire[x][k])
    <3>1. wire[x][k] \in Message /\ Holds(wire[x], {wire[x][k]})
      BY <1>3 DEF Holds
    <3> QED
      BY <1>1, <1>7, <3>1 DEF Fit
  <2>5. ASSUME NEW d \in Device, NEW k \in DOMAIN toKernel[d] PROVE Suits(toKernel[d][k])
    <3>1. toKernel[d][k] \in Message /\ Holds(toKernel[d], {toKernel[d][k]})
      BY <1>3 DEF Holds
    <3> QED
      BY <1>1, <1>7, <3>1 DEF Fit
  <2>6. ASSUME NEW d \in Device, NEW y \in toSend[d] \cup toStamp[d] PROVE Open(y.s, y.u)
    <3>1. y.s \in Sync /\ y.u \in Uuid
      BY <1>5
    <3>2. y \in toSend[d] => y = [s |-> y.s, u |-> y.u]
      BY <1>5
    <3> QED
      BY <1>7, <3>1, <3>2 DEF Fit
  <2> QED
    BY <2>1, <2>2, <2>3, <2>4, <2>5, <2>6 DEF Requests
<1> QED
  BY <1>6, <1>7

LEMMA FitNone ==
    ASSUME TypeOK', NEW s \in Sync, req'[s] = None, s \notin toList'
    PROVE  Fit(s)'
BY MessageFields DEF Fit, Suits, Open, NotYet, Plain

LEMMA FitPartsNext ==
    TypeOK' => (Requests' <=> \A s \in Sync : Fit(s)')
<1>1. (TypeOK => (Requests <=> \A s \in Sync : Fit(s)))'
  BY FitParts, PTL
<1> QED
  BY <1>1

LEMMA FitMade ==
    ASSUME NEW s \in Sync, req'[s] # None => s.n <= connections',
           s \in toList' => req'[s] # None /\ req'[s].st = "start",
           \A d \in Device :
              Holds(fromBackup'[d], News(s)) => req'[s] = None \/ req'[s].st = "asked",
           \A m \in Message : m.kind \notin Plain /\ m.s = s =>
              /\ \A x \in Pair : Holds(wire'[x], {m}) => Suits(m)'
              /\ \A d \in Device : Holds(toKernel'[d], {m}) => Suits(m)',
           \A d \in Device, u \in Uuid :
              /\ [s |-> s, u |-> u] \in toSend'[d] => Open(s, u)'
              /\ \A y \in toStamp'[d] : y.s = s /\ y.u = u => Open(s, u)'
    PROVE  Fit(s)'
<1>1. News(s)' = News(s) /\ Message' = Message
  BY DEF News, Sync, Wants, Entry, Label, Message
<1> QED
  BY <1>1 DEF Fit

\* Nothing new comes for s, or what suits.
LEMMA FitKept ==
    ASSUME TypeOK, TypeOK', NEW s \in Sync, Fit(s), connections <= connections',
           req'[s] = req[s], s \in toList' => s \in toList,
           NEW N, Brings(N),
           \A m \in Message : \A c, z : <<c, z, m>> \in N /\ m.s = s => Suits(m),
           \A d \in Device :
              /\ Holds(fromBackup'[d], News(s)) =>
                    Holds(fromBackup[d], News(s)) \/ req[s] = None \/ req[s].st = "asked"
              /\ \A u \in Uuid :
                    /\ [s |-> s, u |-> u] \in toSend'[d] =>
                          [s |-> s, u |-> u] \in toSend[d] \/ Open(s, u)
                    /\ \A y \in toStamp'[d] : y.s = s /\ y.u = u => y \in toStamp[d] \/ Open(s, u)
    PROVE  Fit(s)'
<1>1. News(s)' = News(s) /\ Message' = Message
  BY DEF News, Sync, Wants, Entry, Label, Message
<1>2. (req[s] # None => s.n <= connections)'
      /\ (s \in toList => req[s] # None /\ req[s].st = "start")'
  BY DEF Fit, TypeOK, Sync
<1>3. \A d \in Device : (Holds(fromBackup[d], News(s)) => req[s] = None \/ req[s].st = "asked")'
  <2>1. \A d \in Device : Holds(fromBackup'[d], News(s)) => req[s] = None \/ req[s].st = "asked"
    BY DEF Fit
  <2> QED
    BY <1>1, <2>1 DEF Holds
<1>4. \A u : Open(s, u)' <=> Open(s, u)
  BY DEF Open
<1>5. \A m \in Message : m.s = s => (Suits(m)' <=> Suits(m))
  BY DEF Suits, Open, NotYet
<1>6. ASSUME NEW m \in Message, m.kind \notin Plain, m.s = s
      PROVE  /\ \A x \in Pair : Holds(wire'[x], {m}) => Suits(m)'
             /\ \A d \in Device : Holds(toKernel'[d], {m}) => Suits(m)'
  BY <1>5, <1>6 DEF Brings, Fit
<1>7. \A d \in Device, u \in Uuid :
           /\ [s |-> s, u |-> u] \in toSend'[d] => Open(s, u)'
           /\ \A y \in toStamp'[d] : y.s = s /\ y.u = u => Open(s, u)'
  BY <1>4 DEF Fit
<1> QED
  BY <1>1, <1>2, <1>3, <1>6, <1>7 DEF Fit

LEMMA QuietRequests ==
    ASSUME TypeOK, TypeOK', Requests, ~ aborted,
           \/ \E d \in Device : Note(d) \/ Write(d) \/ Save(d)
           \/ \E d \in Device, u \in Uuid, deleted \in BOOLEAN : Change(d, u, deleted)
           \/ \E d \in Device, p \in Device : Disconnect(d, p)
           \/ \E d \in Device, clean \in BOOLEAN : Restart(d, clean)
           \/ \E s \in Sync : Expire(s) \/ ExpireTheirs(s)
           \/ \E d \in Device : /\ toKernel[d] # <<>>
                                /\ LET m == Head(toKernel[d])
                                   IN \/ KernelCancel(d, m) \/ KernelFinished(d)
                                      \/ KernelChange(d, m)
           \/ UNCHANGED vars
    PROVE  Requests' /\ ~ aborted' /\ (Homeward => Homeward')
<1>1. \A s \in Sync : Fit(s)
  BY FitParts
<1>2. ~ aborted'
  BY ZenonT(60) DEF Note, Write, Save, Change, Disconnect, Restart, Expire, ExpireTheirs, KernelCancel,
         KernelFinished, KernelChange, vars
<1>3. Brings({}) /\ connections' = connections /\ toList' \subseteq toList
      /\ \A d \in Device : /\ fromBackup'[d] = fromBackup[d] \/ fromBackup'[d] = <<>>
                           /\ toSend'[d] \subseteq toSend[d] /\ toStamp'[d] \subseteq toStamp[d]
  BY QuietBrings, QuietPlaces
<1>4. \A s \in Sync : req'[s] = req[s] \/ (req'[s] = None /\ s \notin toList')
  <2>1. CASE \E d \in Device, clean \in BOOLEAN : Restart(d, clean)
    <3>1. PICK d \in Device : \E clean \in BOOLEAN : Restart(d, clean)
      BY <2>1
    <3>2. req' = [s \in Sync |-> IF s.by = d THEN None ELSE req[s]]
          /\ toList' = {s \in toList : s.by # d}
      BY <3>1, Zenon DEF Restart
    <3> QED
      BY <3>2
  <2>2. CASE \E d \in Device : toKernel[d] # <<>> /\ KernelCancel(d, Head(toKernel[d]))
    <3>1. PICK d \in Device : toKernel[d] # <<>> /\ KernelCancel(d, Head(toKernel[d]))
      BY <2>2
    <3> DEFINE r == Head(toKernel[d]).s
    <3>2. req' = IF req[r] # None /\ req[r].st # "start" THEN [req EXCEPT ![r] = None] ELSE req
      BY <3>1, Zenon DEF KernelCancel
    <3> HIDE DEF r
    <3>3. \A s \in Sync : req'[s] = req[s] \/ (s = r /\ req'[s] = None /\ req[r].st # "start")
      BY <3>2 DEF TypeOK
    <3> QED
      BY <1>1, <1>3, <3>3 DEF Fit
  <2>3. CASE UNCHANGED req
    BY <2>3
  <2> QED
    BY <2>1, <2>2, <2>3, ZenonT(60) DEF Note, Write, Save, Change, Disconnect, Expire, ExpireTheirs,
       KernelFinished, KernelChange, vars
<1>5. ASSUME NEW s \in Sync PROVE Fit(s)'
  <2>1. CASE req'[s] = None /\ s \notin toList'
    BY <2>1, FitNone
  <2>2. CASE req'[s] = req[s]
    <3>1. \A d \in Device :
             /\ Holds(fromBackup'[d], News(s)) => Holds(fromBackup[d], News(s))
             /\ \A u \in Uuid :
                   /\ [s |-> s, u |-> u] \in toSend'[d] => [s |-> s, u |-> u] \in toSend[d]
                   /\ \A y \in toStamp'[d] : y.s = s /\ y.u = u => y \in toStamp[d]
      BY <1>3, OneHolds
    <3>2. connections <= connections' /\ (s \in toList' => s \in toList) /\ Fit(s)
      BY <1>1, <1>3 DEF TypeOK
    <3>3. \A m \in Message : \A c, z : <<c, z, m>> \in {} /\ m.s = s => Suits(m)
      OBVIOUS
    <3> QED
      BY <1>3, <2>2, <3>1, <3>2, <3>3, FitKept
  <2> QED
    BY <1>4, <2>1, <2>2
<1>6. ASSUME Homeward PROVE Homeward'
  BY <1>3, <1>6, QuietHomeward
<1> QED
  BY <1>2, <1>5, <1>6, FitPartsNext

\* A synchronisation of u that is only at c
LEMMA OnlyHere ==
    ASSUME NEW s \in Sync, NEW u \in Uuid \cup {None}, NEW c, NEW z, Only(c, z, s, u)'
    PROVE  /\ c # "wire" => \A m \in Token(s, u), x \in Pair : ~ Holds(wire'[x], {m})
           /\ c # "kernel" => \A m \in Token(s, u), x \in Device : ~ Holds(toKernel'[x], {m})
           /\ c # "backup" => \A x \in Device : ~ Holds(fromBackup'[x], News(s))
           /\ c # "list" => s \notin toList'
           /\ c # "send" => \A x \in Device : [s |-> s, u |-> u] \notin toSend'[x]
           /\ c # "stamp" => \A x \in Device : \A y \in toStamp'[x] : ~ (y.s = s /\ y.u = u)
<1>1. \A e \in Spot, y \in Site : At(e, y, s, u)' => e = c /\ y = z
  BY DEF Only
<1>2. Pair \subseteq Site /\ Device \subseteq Site /\ s.by \in Site
  BY DEF Site, Sync
<1>3. /\ "wire" \in Spot /\ "kernel" \in Spot /\ "backup" \in Spot /\ "list" \in Spot
      /\ "send" \in Spot /\ "stamp" \in Spot
  BY DEF Spot
<1>4. Token(s, u)' = Token(s, u) /\ News(s)' = News(s)
  BY DEF Token, News, Message, Sync, Wants, Label, Entry
<1>5. c # "wire" => \A m \in Token(s, u), x \in Pair : ~ Holds(wire'[x], {m})
  <2>1. c # "wire" => \A x \in Pair : ~ At("wire", x, s, u)'
    BY <1>1, <1>2, <1>3
  <2>2. \A x \in Pair : Holds(wire'[x], Token(s, u)) => At("wire", x, s, u)'
    BY <1>4 DEF At
  <2> QED
    BY <2>1, <2>2 DEF Holds
<1>6. c # "kernel" => \A m \in Token(s, u), x \in Device : ~ Holds(toKernel'[x], {m})
  <2>1. c # "kernel" => \A x \in Device : ~ At("kernel", x, s, u)'
    BY <1>1, <1>2, <1>3
  <2>2. \A x \in Device : Holds(toKernel'[x], Token(s, u)) => At("kernel", x, s, u)'
    BY <1>4 DEF At
  <2> QED
    BY <2>1, <2>2 DEF Holds
<1>7. c # "backup" => \A x \in Device : ~ Holds(fromBackup'[x], News(s))
  <2>1. c # "backup" => \A x \in Device : ~ At("backup", x, s, u)'
    BY <1>1, <1>2, <1>3
  <2> QED
    BY <1>4, <2>1 DEF At
<1>8. c # "list" => s \notin toList'
  <2>1. c # "list" => ~ At("list", s.by, s, u)'
    BY <1>1, <1>2, <1>3
  <2> QED
    BY <2>1 DEF At
<1>9. c # "send" => \A x \in Device : [s |-> s, u |-> u] \notin toSend'[x]
  <2>1. c # "send" => \A x \in Device : ~ At("send", x, s, u)'
    BY <1>1, <1>2, <1>3
  <2> QED
    BY <2>1 DEF At
<1>10. c # "stamp" => \A x \in Device : \A y \in toStamp'[x] : ~ (y.s = s /\ y.u = u)
  <2>1. c # "stamp" => \A x \in Device : ~ At("stamp", x, s, u)'
    BY <1>1, <1>2, <1>3
  <2> QED
    BY <2>1 DEF At
<1> QED
  BY <1>5, <1>6, <1>7, <1>8, <1>9, <1>10

LEMMA NoneElse ==
    ASSUME NEW s \in Sync, NEW c, NEW z, \A u \in Uuid \cup {None} : Only(c, z, s, u)'
    PROVE  /\ \A m \in Message : m.kind \notin Plain /\ m.s = s =>
                 /\ c # "wire" => \A x \in Pair : ~ Holds(wire'[x], {m})
                 /\ c # "kernel" => \A x \in Device : ~ Holds(toKernel'[x], {m})
           /\ c # "backup" => \A x \in Device : ~ Holds(fromBackup'[x], News(s))
           /\ c # "send" => \A x \in Device, u \in Uuid : [s |-> s, u |-> u] \notin toSend'[x]
           /\ c # "stamp" => \A x \in Device, u \in Uuid :
                                \A y \in toStamp'[x] : ~ (y.s = s /\ y.u = u)
<1>1. ASSUME NEW m \in Message, m.kind \notin Plain, m.s = s
      PROVE  /\ c # "wire" => \A x \in Pair : ~ Holds(wire'[x], {m})
             /\ c # "kernel" => \A x \in Device : ~ Holds(toKernel'[x], {m})
  <2>1. PICK u \in Uuid \cup {None} : m \in Token(s, u)
    <3>1. CASE m.kind = "data"
      BY <1>1, <3>1, IsToken, MessageFields
    <3>2. CASE m.kind # "data"
      BY <1>1, <3>2, IsToken, MessageFields DEF Plain
    <3> QED
      BY <3>1, <3>2
  <2> QED
    BY <2>1, OnlyHere
<1>2. c # "backup" => \A x \in Device : ~ Holds(fromBackup'[x], News(s))
  <2> DEFINE u == None
  <2>1. u \in Uuid \cup {None}
    OBVIOUS
  <2> HIDE DEF u
  <2>2. Only(c, z, s, u)'
    BY <2>1
  <2> QED
    BY <2>1, <2>2, OnlyHere
<1>3. \A u \in Uuid :
         /\ c # "send" => \A x \in Device : [s |-> s, u |-> u] \notin toSend'[x]
         /\ c # "stamp" => \A x \in Device : \A y \in toStamp'[x] : ~ (y.s = s /\ y.u = u)
  BY OnlyHere
<1> QED
  BY <1>1, <1>2, <1>3

LEMMA StartRequests ==
    ASSUME TypeOK, TypeOK', OneToken, Requests, NEW d \in Device, toKernel[d] # <<>>, NEW m,
           m = Head(toKernel[d]), m.kind = "start", KernelStart(d, m)
    PROVE  Requests' /\ ~ aborted' /\ (Homeward => Homeward')
<1>1. m \in Message /\ m.s \in Sync /\ Holds(toKernel[d], {m})
  BY HeadType, MessageFields, KernelTaken, QueueTypes, TailHolds
<1>2. \A s \in Sync : Fit(s)
  BY FitParts
<1>3. req[m.s] = None
  BY <1>1, <1>2 DEF Fit, Suits, Plain
<1>4. ~ aborted' /\ req' = [req EXCEPT ![m.s] = [st |-> "start", since |-> m.since]]
      /\ toList' = toList \cup {m.s} /\ toKernel' = Handled(toKernel, d, <<>>)
      /\ UNCHANGED <<wire, fromBackup, toSend, toStamp, connections>>
  BY <1>3 DEF KernelStart, bounds
<1>5. ASSUME NEW s \in Sync, s # m.s PROVE Fit(s)'
  <2>1. Brings({})
    BY <1>1, <1>4, SentBrings
  <2>2. req'[s] = req[s] /\ (s \in toList' => s \in toList) /\ connections <= connections' /\ Fit(s)
    BY <1>2, <1>4, <1>5 DEF TypeOK
  <2>3. \A n \in Message : \A c, z : <<c, z, n>> \in {} /\ n.s = s => Suits(n)
    OBVIOUS
  <2> QED
    BY <1>4, <2>1, <2>2, <2>3, FitKept
<1>6. ASSUME NEW s \in Sync, s = m.s PROVE Fit(s)'
  <2>1. \A u \in Uuid \cup {None} : Only("list", s.by, s, u)'
    BY <1>6, StartTokens
  <2>2. s.n <= connections
    <3>1. At("kernel", d, s, None) /\ "kernel" \in Spot /\ d \in Site
      <4>1. m \in Token(s, None)
        BY <1>1, <1>6, IsToken
      <4> QED
        BY <1>1, <4>1 DEF At, Holds, Spot, Site
    <3> QED
      BY <1>1, <3>1 DEF OneToken, Alone
  <2>3. req'[s] # None /\ req'[s].st = "start"
    BY <1>1, <1>4, <1>6, RequestMade, MessageFields DEF TypeOK
  <2>4. News(s)' = News(s) /\ Message' = Message
    BY DEF News, Sync, Wants, Entry, Label, Message
  <2>5. /\ \A n \in Message : n.kind \notin Plain /\ n.s = s =>
              /\ "list" # "wire" => \A x \in Pair : ~ Holds(wire'[x], {n})
              /\ "list" # "kernel" => \A x \in Device : ~ Holds(toKernel'[x], {n})
        /\ "list" # "backup" => \A x \in Device : ~ Holds(fromBackup'[x], News(s))
        /\ "list" # "send" => \A x \in Device, u \in Uuid : [s |-> s, u |-> u] \notin toSend'[x]
        /\ "list" # "stamp" => \A x \in Device, u \in Uuid :
                                \A y \in toStamp'[x] : ~ (y.s = s /\ y.u = u)
    BY <2>1, NoneElse, Zenon
  <2> QED
    BY <1>4, <1>6, <2>2, <2>3, <2>4, <2>5 DEF Fit
<1>7. ASSUME Homeward PROVE Homeward'
  <2>1. Brings({})
    BY <1>1, <1>4, SentBrings
  <2> QED
    BY <1>4, <1>7, <2>1, QuietHomeward
<1> QED
  BY <1>1, <1>4, <1>5, <1>6, <1>7, FitPartsNext

LEMMA ListsRequests ==
    ASSUME TypeOK, TypeOK', Requests, NEW r \in Sync, StorageLists(r)
    PROVE  Requests' /\ ~ aborted' /\ (Homeward => Homeward')
           /\ r \in toList /\ req[r] # None /\ req[r].st = "start"
<1> DEFINE us == {x \in Uuid : store[r.by][x] # None}
           n == [kind |-> "ask", s |-> r, since |-> req[r].since, uuids |-> us]
<1>1. r \in toList /\ req[r] # None /\ req[r].st = "start" /\ \A s \in Sync : Fit(s)
  BY FitParts DEF StorageLists, Requests
<1>2. n \in Message
  <2>1. us \in SUBSET Uuid
    OBVIOUS
  <2>2. req[r].since \in 0 .. MaxNow
    BY <1>1, RequestMade DEF TypeOK
  <2> HIDE DEF us
  <2> QED
    BY <2>1, <2>2, MessagesMade
<1>3. wire' = wire \/ wire' = Sent(r.by, r.of, r, n)
  BY Zenon DEF StorageLists
<1>4. n.s = r /\ n.kind = "ask"
  OBVIOUS
<1> HIDE DEF n
<1>5. toList' = toList \ {r} /\ req' = [req EXCEPT ![r] = None] /\ aborted' = (req[r] = None)
      /\ UNCHANGED <<toKernel, fromBackup, toSend, toStamp, connections>>
  BY Zenon DEF StorageLists, bounds
<1>6. ASSUME NEW s \in Sync PROVE Fit(s)'
  <2>1. CASE s = r
    BY <1>5, <2>1, FitNone DEF TypeOK
  <2>2. CASE s # r
    <3> DEFINE N == {<<"wire", <<r.by, r.of>>, n>>}
    <3>1. Brings(N)
      BY <1>2, <1>3, <1>5, SentBrings
    <3>2. \A m \in Message : \A c, z : <<c, z, m>> \in N /\ m.s = s => Suits(m)
      BY <1>4, <2>2
    <3> HIDE DEF N
    <3>3. req'[s] = req[s] /\ (s \in toList' => s \in toList) /\ connections <= connections' /\ Fit(s)
      BY <1>1, <1>5, <2>2 DEF TypeOK
    <3> QED
      BY <1>5, <3>1, <3>2, <3>3, FitKept
  <2> QED
    BY <2>1, <2>2
<1>7. ASSUME Homeward PROVE Homeward'
  <2> DEFINE N == {<<"wire", <<r.by, r.of>>, n>>}
  <2>1. Brings(N)
    BY <1>2, <1>3, <1>5, SentBrings
  <2>2. \A m \in Message : m.kind \in {"list", "data"} =>
           /\ \A x \in Pair : <<"wire", x, m>> \in N => m.s.by = x[2]
           /\ \A d \in Device : <<"kernel", d, m>> \in N => m.s.by = d
    BY <1>4
  <2> HIDE DEF N
  <2> QED
    BY <1>5, <1>7, <2>1, <2>2, HomewardKept
<1> QED
  BY <1>1, <1>5, <1>6, <1>7, FitPartsNext

LEMMA AskRequests ==
    ASSUME TypeOK, TypeOK', Requests, NEW d \in Device, toKernel[d] # <<>>, NEW m,
           m = Head(toKernel[d]), m.kind = "ask", KernelAsk(d, m)
    PROVE  Requests' /\ (Homeward => Homeward')
<1> DEFINE ls == Lines(d, m.uuids, m.since)
           n == [kind |-> "list", s |-> m.s, lines |-> ls]
<1>1. m \in Message /\ m.s \in Sync /\ Holds(toKernel[d], {m}) /\ \A s \in Sync : Fit(s)
  BY HeadType, MessageFields, QueueTypes, TailHolds, FitParts
<1>2. n \in Message
  <2>1. m.uuids \in SUBSET Uuid
    BY <1>1, MessageFields
  <2>2. ls \in SUBSET [u : Uuid, entry : Entry]
    BY <2>1 DEF TypeOK, Lines
  <2> HIDE DEF ls
  <2> QED
    BY <1>1, <2>2, MessagesMade
<1>3. wire' = wire \/ wire' = Sent(d, m.s.by, m.s, n)
  BY DEF KernelAsk
<1>4. n.kind = "list" /\ n.s = m.s
  OBVIOUS
<1> HIDE DEF n
<1>5. toKernel' = Handled(toKernel, d, <<>>)
      /\ UNCHANGED <<req, toList, fromBackup, toSend, toStamp, connections>>
  BY DEF KernelAsk, bounds, serving
<1>6. NotYet(m.s)
  BY <1>1 DEF Fit, Suits, Plain
<1>7. Suits(n)
  BY <1>4, <1>6 DEF Suits
<1>8. ASSUME NEW s \in Sync PROVE Fit(s)'
  <2> DEFINE N == {<<"wire", <<d, m.s.by>>, n>>}
  <2>1. Brings(N)
    BY <1>2, <1>3, <1>5, SentBrings
  <2>2. \A o \in Message : \A c, z : <<c, z, o>> \in N /\ o.s = s => Suits(o)
    BY <1>7
  <2> HIDE DEF N
  <2>3. req'[s] = req[s] /\ (s \in toList' => s \in toList) /\ connections <= connections' /\ Fit(s)
    BY <1>1, <1>5 DEF TypeOK
  <2> QED
    BY <1>5, <2>1, <2>2, <2>3, FitKept
<1>9. ASSUME Homeward PROVE Homeward'
  <2> DEFINE N == {<<"wire", <<d, m.s.by>>, n>>}
  <2>1. Brings(N)
    BY <1>2, <1>3, <1>5, SentBrings
  <2>2. \A o \in Message : o.kind \in {"list", "data"} =>
           /\ \A x \in Pair : <<"wire", x, o>> \in N => o.s.by = x[2]
           /\ \A e \in Device : <<"kernel", e, o>> \in N => o.s.by = e
    BY <1>4
  <2> HIDE DEF N
  <2> QED
    BY <1>5, <1>9, <2>1, <2>2, HomewardKept
<1> QED
  BY <1>8, <1>9, FitPartsNext

LEMMA ReceiveRequests ==
    ASSUME TypeOK, TypeOK', Requests, NEW p \in Device, NEW d \in Device, p # d, Receive(p, d)
    PROVE  Requests' /\ (Homeward => Homeward')
<1> DEFINE n == Head(wire[<<p, d>>])
           N == {<<"kernel", d, n>>}
<1>1. /\ Brings(N) /\ n \in Message /\ <<p, d>> \in Pair /\ Holds(wire[<<p, d>>], {n})
      /\ \A s \in Sync : Fit(s)
  BY ReceiveBrings, FitParts
<1>2. UNCHANGED <<req, fromBackup, toList, toSend, toStamp, connections>>
  BY DEF Receive, bounds, serving
<1> HIDE DEF n
<1>3. Suits(n)
  <2>1. CASE n.kind \in Plain
    BY <2>1 DEF Suits, Plain
  <2>2. CASE n.kind \notin Plain
    <3>1. n.s \in Sync
      BY <1>1, <2>2, MessageFields DEF Plain
    <3> QED
      BY <1>1, <2>2, <3>1 DEF Fit
  <2> QED
    BY <2>1, <2>2
<1>4. ASSUME NEW s \in Sync PROVE Fit(s)'
  <2>1. \A o \in Message : \A c, z : <<c, z, o>> \in N /\ o.s = s => Suits(o)
    BY <1>3
  <2> HIDE DEF N
  <2>2. req'[s] = req[s] /\ (s \in toList' => s \in toList) /\ connections <= connections' /\ Fit(s)
    BY <1>1, <1>2 DEF TypeOK
  <2> QED
    BY <1>1, <1>2, <2>1, <2>2, FitKept
<1>5. ASSUME Homeward PROVE Homeward'
  <2>1. n.kind \in {"list", "data"} => n.s.by = d
    <3>1. \A m \in Message : m.kind \in {"list", "data"} =>
             \A x \in Pair : Holds(wire[x], {m}) => m.s.by = x[2]
      BY <1>5, HomewardHolds
    <3> QED
      BY <1>1, <3>1
  <2>2. \A o \in Message : o.kind \in {"list", "data"} =>
           /\ \A x \in Pair : <<"wire", x, o>> \in N => o.s.by = x[2]
           /\ \A e \in Device : <<"kernel", e, o>> \in N => o.s.by = e
    BY <2>1
  <2> HIDE DEF N
  <2> QED
    BY <1>1, <1>2, <1>5, <2>2, HomewardKept
<1> QED
  BY <1>4, <1>5, FitPartsNext

LEMMA ConnectRequests ==
    ASSUME TypeOK, TypeOK', Requests, NEW d \in Device, NEW p \in Device, d # p, Connect(d, p)
    PROVE  Requests' /\ (Homeward => Homeward')
<1> DEFINE N == {y \in {"wire", "kernel"} \X Site \X Message :
                   y[3].kind \in {"ask", "start"} /\ y[3].s.n = connections'}
<1>1. Brings(N) /\ \A s \in Sync : Fit(s)
  BY ConnectBrings, FitParts
<1>2. connections' = connections + 1 /\ UNCHANGED <<req, fromBackup, toList, toSend, toStamp>>
  BY DEF Connect, serving
<1>3. connections \in Nat
  BY DEF TypeOK
<1>4. ASSUME NEW s \in Sync PROVE Fit(s)'
  <2>1. ASSUME NEW o \in Message, NEW c, NEW z, <<c, z, o>> \in N, o.s = s PROVE Suits(o)
    <3>1. o.kind \in {"ask", "start"} /\ s.n = connections'
      BY <2>1
    <3>2. req[s] = None
      BY <1>1, <1>2, <1>3, <3>1 DEF Fit
    <3> QED
      BY <2>1, <3>1, <3>2 DEF Suits, NotYet
  <2> HIDE DEF N
  <2>2. req'[s] = req[s] /\ (s \in toList' => s \in toList) /\ connections <= connections' /\ Fit(s)
    BY <1>1, <1>2, <1>3
  <2> QED
    BY <1>1, <1>2, <2>1, <2>2, FitKept
<1>5. ASSUME Homeward PROVE Homeward'
  <2>1. \A o \in Message : o.kind \in {"list", "data"} =>
           /\ \A x \in Pair : <<"wire", x, o>> \in N => o.s.by = x[2]
           /\ \A e \in Device : <<"kernel", e, o>> \in N => o.s.by = e
    OBVIOUS
  <2> HIDE DEF N
  <2> QED
    BY <1>1, <1>2, <1>5, <2>1, HomewardKept
<1> QED
  BY <1>4, <1>5, FitPartsNext

LEMMA WantRequests ==
    ASSUME TypeOK, TypeOK', Requests, NEW d \in Device, toKernel[d] # <<>>, NEW m,
           m = Head(toKernel[d]), m.kind = "want", KernelWant(d, m)
    PROVE  Requests' /\ (Homeward => Homeward')
<1>1. m \in Message /\ m.s \in Sync /\ Holds(toKernel[d], {m}) /\ \A s \in Sync : Fit(s)
  BY HeadType, MessageFields, QueueTypes, TailHolds, FitParts
<1>2. toKernel' = Handled(toKernel, d, <<>>)
      /\ toSend' = [toSend EXCEPT ![d] = @ \cup {[s |-> m.s, u |-> x] : x \in m.uuids}]
      /\ UNCHANGED <<req, wire, fromBackup, toList, toStamp, connections>>
  BY DEF KernelWant, bounds
<1>3. \A u \in m.uuids : Open(m.s, u)
  BY <1>1 DEF Fit, Suits, Plain
<1>4. ASSUME NEW s \in Sync PROVE Fit(s)'
  <2>1. Brings({})
    BY <1>1, <1>2, SentBrings
  <2>2. \A o \in Message : \A c, z : <<c, z, o>> \in {} /\ o.s = s => Suits(o)
    OBVIOUS
  <2>3. req'[s] = req[s] /\ (s \in toList' => s \in toList) /\ connections <= connections' /\ Fit(s)
    BY <1>1, <1>2 DEF TypeOK
  <2>4. \A e \in Device, u \in Uuid :
           [s |-> s, u |-> u] \in toSend'[e] => [s |-> s, u |-> u] \in toSend[e] \/ Open(s, u)
    <3> SUFFICES ASSUME NEW e \in Device, NEW u \in Uuid, [s |-> s, u |-> u] \in toSend'[e],
                        [s |-> s, u |-> u] \notin toSend[e]
                 PROVE  Open(s, u)
      OBVIOUS
    <3>1. toSend'[e] \subseteq toSend[e] \cup {[s |-> m.s, u |-> x] : x \in m.uuids}
      BY <1>2 DEF TypeOK
    <3>2. PICK x \in m.uuids : [s |-> s, u |-> u] = [s |-> m.s, u |-> x]
      BY <3>1
    <3>3. s = m.s /\ u = x
      BY <3>2
    <3> QED
      BY <1>3, <3>3
  <2> QED
    BY <1>2, <2>1, <2>2, <2>3, <2>4, FitKept
<1>5. ASSUME Homeward PROVE Homeward'
  <2>1. Brings({})
    BY <1>1, <1>2, SentBrings
  <2> QED
    BY <1>2, <1>5, <2>1, QuietHomeward
<1> QED
  BY <1>4, <1>5, FitPartsNext

LEMMA ReadsRequests ==
    ASSUME TypeOK, TypeOK', Requests, NEW d \in Device, StorageReads(d)
    PROVE  Requests' /\ (Homeward => Homeward')
<1>1. PICK x \in toSend[d] :
         /\ toSend' = [toSend EXCEPT ![d] = @ \ {x}]
         /\ \/ UNCHANGED toStamp
            \/ toStamp' = [toStamp EXCEPT ![d] = @ \cup
                             {[s |-> x.s, u |-> x.u, content |-> store[d][x.u]]}]
  BY DEF StorageReads
<1>2. x \in [s : Sync, u : Uuid] /\ \A s \in Sync : Fit(s)
  BY FitParts DEF TypeOK
<1>3. UNCHANGED <<req, wire, toKernel, fromBackup, toList, connections>>
  BY DEF StorageReads, bounds
<1>4. Open(x.s, x.u)
  <2>1. [s |-> x.s, u |-> x.u] \in toSend[d] /\ x.s \in Sync /\ x.u \in Uuid
    BY <1>2
  <2> QED
    BY <1>2, <2>1 DEF Fit
<1>5. ASSUME NEW s \in Sync PROVE Fit(s)'
  <2>1. Brings({})
    BY <1>3 DEF Brings
  <2>2. \A o \in Message : \A c, z : <<c, z, o>> \in {} /\ o.s = s => Suits(o)
    OBVIOUS
  <2>3. req'[s] = req[s] /\ (s \in toList' => s \in toList) /\ connections <= connections' /\ Fit(s)
    BY <1>2, <1>3 DEF TypeOK
  <2>4. \A e \in Device, u \in Uuid :
           [s |-> s, u |-> u] \in toSend'[e] => [s |-> s, u |-> u] \in toSend[e]
    BY <1>1 DEF TypeOK
  <2>5. \A e \in Device : \A y \in toStamp'[e] :
           y \in toStamp[e] \/ (y.s = x.s /\ y.u = x.u)
    <3> DEFINE n == [s |-> x.s, u |-> x.u, content |-> store[d][x.u]]
    <3>1. n.s = x.s /\ n.u = x.u
      OBVIOUS
    <3>2. toStamp' = toStamp \/ toStamp' = [toStamp EXCEPT ![d] = @ \cup {n}]
      BY <1>1
    <3> HIDE DEF n
    <3>3. \A e \in Device : toStamp'[e] \subseteq toStamp[e] \cup {n}
      BY <3>2 DEF TypeOK
    <3> QED
      BY <3>1, <3>3
  <2> QED
    BY <1>3, <1>4, <2>1, <2>2, <2>3, <2>4, <2>5, FitKept
<1>6. ASSUME Homeward PROVE Homeward'
  <2>1. Brings({})
    BY <1>3 DEF Brings
  <2> QED
    BY <1>3, <1>6, <2>1, QuietHomeward
<1> QED
  BY <1>5, <1>6, FitPartsNext

LEMMA StampsRequests ==
    ASSUME TypeOK, TypeOK', Requests, NEW d \in Device, BackupStamps(d)
    PROVE  Requests' /\ (Homeward => Homeward')
<1>1. PICK x \in toStamp[d] :
         /\ toStamp' = [toStamp EXCEPT ![d] = @ \ {x}]
         /\ wire' = IF json[d][x.u] = None \/ x.s \notin theirs THEN wire
                    ELSE Sent(d, x.s.by, x.s, [kind |-> "data", s |-> x.s, u |-> x.u,
                                              label |-> json[d][x.u].label,
                                              content |-> x.content])
  BY DEF BackupStamps
<1>2. x \in [s : Sync, u : Uuid, content : Label] /\ json[d][x.u] \in Entry \cup {None}
      /\ \A s \in Sync : Fit(s)
  <2>1. \A s \in Sync : Fit(s)
    BY FitParts
  <2>2. x \in [s : Sync, u : Uuid, content : Label] /\ json[d][x.u] \in Entry \cup {None}
    BY DEF TypeOK
  <2> QED
    BY <2>1, <2>2
<1>3. UNCHANGED <<req, toSend, toKernel, fromBackup, toList, connections>>
  BY DEF BackupStamps, bounds
<1> DEFINE n == [kind |-> "data", s |-> x.s, u |-> x.u, label |-> json[d][x.u].label,
                 content |-> x.content]
<1>4. n.kind = "data" /\ n.s = x.s /\ n.u = x.u
  OBVIOUS
<1>5. json[d][x.u] # None => n \in Message
  BY <1>2, MessagesMade DEF Entry
<1>6. wire' = wire \/ (json[d][x.u] # None /\ wire' = Sent(d, x.s.by, x.s, n))
  BY <1>1
<1> HIDE DEF n
<1>7. Open(x.s, x.u)
  BY <1>2 DEF Fit
<1>8. Suits(n)
  BY <1>4, <1>7 DEF Suits
<1>9. ASSUME NEW s \in Sync PROVE Fit(s)'
  <2> DEFINE N == {<<"wire", <<d, x.s.by>>, n>>}
  <2>1. Brings(N)
    <3>1. CASE wire' = wire
      BY <1>3, <3>1 DEF Brings
    <3>2. CASE json[d][x.u] # None /\ wire' = Sent(d, x.s.by, x.s, n)
      BY <1>3, <1>5, <3>2, SentBrings
    <3> QED
      BY <1>6, <3>1, <3>2
  <2>2. \A o \in Message : \A c, z : <<c, z, o>> \in N /\ o.s = s => Suits(o)
    BY <1>8
  <2> HIDE DEF N
  <2>3. req'[s] = req[s] /\ (s \in toList' => s \in toList) /\ connections <= connections' /\ Fit(s)
    BY <1>2, <1>3 DEF TypeOK
  <2>4. \A e \in Device : toStamp'[e] \subseteq toStamp[e]
    BY <1>1 DEF TypeOK
  <2> QED
    BY <1>3, <2>1, <2>2, <2>3, <2>4, FitKept
<1>10. ASSUME Homeward PROVE Homeward'
  <2> DEFINE N == {<<"wire", <<d, x.s.by>>, n>>}
  <2>1. Brings(N)
    <3>1. CASE wire' = wire
      BY <1>3, <3>1 DEF Brings
    <3>2. CASE json[d][x.u] # None /\ wire' = Sent(d, x.s.by, x.s, n)
      BY <1>3, <1>5, <3>2, SentBrings
    <3> QED
      BY <1>6, <3>1, <3>2
  <2>2. \A o \in Message : o.kind \in {"list", "data"} =>
           /\ \A y \in Pair : <<"wire", y, o>> \in N => o.s.by = y[2]
           /\ \A e \in Device : <<"kernel", e, o>> \in N => o.s.by = e
    BY <1>4
  <2> HIDE DEF N
  <2> QED
    BY <1>3, <1>10, <2>1, <2>2, HomewardKept
<1> QED
  BY <1>9, <1>10, FitPartsNext

\* A request that goes on with what is at one place
LEMMA ListRequests ==
    ASSUME TypeOK, TypeOK', OneToken, Requests, NEW d \in Device, toKernel[d] # <<>>, NEW m,
           m = Head(toKernel[d]), m.kind = "list", KernelList(d, m)
    PROVE  Requests' /\ (Homeward => Homeward')
<1> DEFINE want == {l.u : l \in {k \in m.lines : Wanted(d, k)}}
           n == [s |-> m.s, want |-> Awaited(d, m.lines, want)]
<1>1. m \in Message /\ m.s \in Sync /\ Holds(toKernel[d], {m}) /\ \A s \in Sync : Fit(s)
  BY HeadType, MessageFields, QueueTypes, TailHolds, FitParts
<1>2. n \in [s : Sync, want : Wants] /\ n.s = m.s
  BY <1>1, AwaitedType, MessageFields
<1> HIDE DEF n
<1>3. UNCHANGED <<toList, toSend, toStamp, connections>>
  BY DEF KernelList, bounds, serving
<1>4. \/ Finish(m.s, d, Tail(toKernel[d])) /\ UNCHANGED <<req, fromBackup>>
      \/ /\ toKernel' = Handled(toKernel, d, <<>>) /\ UNCHANGED wire
         /\ fromBackup' = Posted(fromBackup, d, <<n>>)
         /\ req' = [req EXCEPT ![m.s] = [st |-> "asked"]]
  BY DEF KernelList, n
<1>5. Brings({})
  <2>1. CASE Finish(m.s, d, Tail(toKernel[d]))
    BY <1>1, <2>1, FinishBrings
  <2>2. CASE toKernel' = Handled(toKernel, d, <<>>) /\ UNCHANGED wire
    BY <1>1, <2>2, SentBrings
  <2> QED
    BY <1>4, <2>1, <2>2
<1>6. \A o \in Message : \A c, z : <<c, z, o>> \in {} => Suits(o)
  OBVIOUS
<1>7. ASSUME NEW s \in Sync, req'[s] = req[s],
             \A e \in Device : Holds(fromBackup'[e], News(s)) => Holds(fromBackup[e], News(s))
      PROVE  Fit(s)'
  <2>1. (s \in toList' => s \in toList) /\ connections <= connections' /\ Fit(s)
    BY <1>1, <1>3 DEF TypeOK
  <2> QED
    BY <1>3, <1>5, <1>6, <1>7, <2>1, FitKept
<1>8. ASSUME UNCHANGED <<req, fromBackup>> PROVE Requests'
  BY <1>7, <1>8, FitPartsNext
<1>9. ASSUME fromBackup' = Posted(fromBackup, d, <<n>>),
             req' = [req EXCEPT ![m.s] = [st |-> "asked"]]
      PROVE  Requests'
  <2>1. ASSUME NEW s \in Sync, s # m.s PROVE Fit(s)'
    <3> DEFINE S == News(s)
    <3>1. n \notin S
      BY <1>2, <2>1 DEF News
    <3>2. \A e \in Device : Holds(fromBackup'[e], S) => Holds(fromBackup[e], S) \/ (e = d /\ n \in S)
      <4> HIDE DEF S
      <4> QED
        BY <1>2, <1>9, BackupPosted
    <3>3. req'[s] = req[s]
      BY <1>9, <2>1 DEF TypeOK
    <3> QED
      BY <1>7, <3>1, <3>2, <3>3
  <2>2. ASSUME NEW s \in Sync, s = m.s PROVE Fit(s)'
    <3>1. \A u \in Uuid \cup {None} : Only("backup", d, s, u)'
      BY <2>2, ListTokens
    <3>2. At("kernel", d, s, None) /\ "kernel" \in Spot /\ d \in Site
      <4>1. m \in Token(s, None)
        BY <1>1, <2>2, IsToken
      <4> QED
        BY <1>1, <4>1 DEF At, Holds, Spot, Site
    <3>3. s.n <= connections /\ s \notin toList
      <4> DEFINE u == None
      <4>1. u \in Uuid \cup {None} /\ At("kernel", d, s, u)
        BY <3>2
      <4> HIDE DEF u
      <4> QED
        BY <3>2, <4>1, Elsewhere DEF OneToken, Alone
    <3>4. req'[s] = [st |-> "asked"]
      BY <1>9, <2>2 DEF TypeOK
    <3>6. /\ \A o \in Message : o.kind \notin Plain /\ o.s = s =>
                /\ "backup" # "wire" => \A x \in Pair : ~ Holds(wire'[x], {o})
                /\ "backup" # "kernel" => \A x \in Device : ~ Holds(toKernel'[x], {o})
          /\ "backup" # "send" => \A x \in Device, u \in Uuid : [s |-> s, u |-> u] \notin toSend'[x]
          /\ "backup" # "stamp" => \A x \in Device, u \in Uuid :
                                      \A y \in toStamp'[x] : ~ (y.s = s /\ y.u = u)
      BY <3>1, NoneElse, Zenon
    <3> QED
      <4>1. /\ req'[s] # None => s.n <= connections'
            /\ s \in toList' => req'[s] # None /\ req'[s].st = "start"
            /\ req'[s].st = "asked"
        BY <1>3, <3>3, <3>4
      <4>2. \A e \in Device :
               Holds(fromBackup'[e], News(s)) => req'[s] = None \/ req'[s].st = "asked"
        BY <4>1
      <4>3. /\ \A o \in Message : o.kind \notin Plain /\ o.s = s =>
                  /\ \A x \in Pair : Holds(wire'[x], {o}) => Suits(o)'
                  /\ \A x \in Device : Holds(toKernel'[x], {o}) => Suits(o)'
            /\ \A x \in Device, u \in Uuid :
                  /\ [s |-> s, u |-> u] \in toSend'[x] => Open(s, u)'
                  /\ \A y \in toStamp'[x] : y.s = s /\ y.u = u => Open(s, u)'
        BY <3>6
      <4> QED
        BY <4>1, <4>2, <4>3, FitMade
  <2> QED
    BY <2>1, <2>2, FitPartsNext
<1>10. ASSUME Homeward PROVE Homeward'
  <2>1. CASE UNCHANGED fromBackup
    BY <1>5, <1>10, <2>1, QuietHomeward
  <2>2. CASE fromBackup' = Posted(fromBackup, d, <<n>>)
    <3>1. m.s.by = d
      <4>1. \A o \in Message : o.kind \in {"list", "data"} =>
               \A e \in Device : Holds(toKernel[e], {o}) => o.s.by = e
        BY <1>10, HomewardHolds
      <4> QED
        BY <1>1, <4>1
    <3>2. \A s \in Sync, e \in Device :
             Holds(fromBackup'[e], News(s)) => Holds(fromBackup[e], News(s)) \/ s.by = e
      <4> SUFFICES ASSUME NEW s \in Sync, NEW e \in Device, Holds(fromBackup'[e], News(s))
                   PROVE  Holds(fromBackup[e], News(s)) \/ s.by = e
        OBVIOUS
      <4> DEFINE S == News(s)
      <4>1. n \in S => s = m.s
        BY <1>2 DEF News
      <4> HIDE DEF S
      <4>2. Holds(fromBackup'[e], S) => Holds(fromBackup[e], S) \/ (e = d /\ n \in S)
        BY <1>2, <2>2, BackupPosted
      <4> QED
        BY <3>1, <4>1, <4>2 DEF S
    <3>3. \A o \in Message : o.kind \in {"list", "data"} =>
             /\ \A x \in Pair : <<"wire", x, o>> \in {} => o.s.by = x[2]
             /\ \A e \in Device : <<"kernel", e, o>> \in {} => o.s.by = e
      OBVIOUS
    <3> QED
      BY <1>5, <1>10, <3>2, <3>3, HomewardKept
  <2> QED
    BY <1>4, <2>1, <2>2
<1> QED
  BY <1>4, <1>8, <1>9, <1>10

LEMMA WantsRequests ==
    ASSUME TypeOK, TypeOK', OneToken, Requests, NEW d \in Device, KernelWants(d),
           NEW r, r = Head(fromBackup[d]).s, NEW want, want = Head(fromBackup[d]).want
    PROVE  Requests' /\ (Homeward => Homeward')
<1> DEFINE n == [kind |-> "want", s |-> r, uuids |-> DOMAIN want]
<1>1. /\ fromBackup[d] # <<>> /\ r \in Sync /\ want \in Wants /\ DOMAIN want \in SUBSET Uuid
      /\ fromBackup' = Handled(fromBackup, d, <<>>) /\ Head(fromBackup[d]) \in News(r)
  <2>1. fromBackup[d] # <<>> /\ fromBackup' = Handled(fromBackup, d, <<>>)
    BY DEF KernelWants
  <2>2. Head(fromBackup[d]) \in [s : Sync, want : Wants]
    BY <2>1, QueueTypes, TailElements
  <2> QED
    BY <2>1, <2>2, RequestMade DEF News
<1>2. n \in Message /\ n.kind = "want" /\ n.s = r /\ n.uuids = DOMAIN want
  BY <1>1, MessagesMade
<1>3. \/ UNCHANGED <<req, wire, toKernel>>
      \/ /\ req' = [req EXCEPT ![r] = [st |-> "getting", want |-> want, left |-> DOMAIN want]]
         /\ \/ Finish(r, d, toKernel[d])
            \/ UNCHANGED toKernel /\ (wire' = wire \/ wire' = Sent(d, r.of, r, n))
  BY Zenon DEF KernelWants
<1>4. UNCHANGED <<toList, toSend, toStamp, connections>>
  BY Zenon DEF KernelWants, bounds, serving
<1> DEFINE N == {<<"wire", <<d, r.of>>, n>>}
<1>5. Brings(N)
  <2>1. CASE UNCHANGED <<wire, toKernel>>
    BY <2>1 DEF Brings
  <2>2. CASE Finish(r, d, toKernel[d])
    <3>1. Brings({})
      BY <1>1, <2>2, FinishBrings
    <3> QED
      BY <3>1 DEF Brings
  <2>3. CASE UNCHANGED toKernel /\ (wire' = wire \/ wire' = Sent(d, r.of, r, n))
    <3> HIDE DEF n
    <3> QED
      BY <1>2, <2>3, SentBrings
  <2> QED
    BY <1>3, <2>1, <2>2, <2>3
<1>6. \A s \in Sync : Fit(s)
  BY FitParts
<1>7. \A e \in Device, s \in Sync : Holds(fromBackup'[e], News(s)) => Holds(fromBackup[e], News(s))
  BY <1>1, BackupTaken
<1> HIDE DEF n
<1>8. ASSUME NEW s \in Sync, req'[s] = req[s], s = r => Brings({}) PROVE Fit(s)'
  <2>1. (s \in toList' => s \in toList) /\ connections <= connections' /\ Fit(s)
    BY <1>4, <1>6 DEF TypeOK
  <2>2. CASE s = r
    <3>1. \A o \in Message : \A c, z : <<c, z, o>> \in {} => Suits(o)
      OBVIOUS
    <3> QED
      BY <1>4, <1>7, <1>8, <2>1, <2>2, <3>1, FitKept
  <2>3. CASE s # r
    <3>1. \A o \in Message : \A c, z : <<c, z, o>> \in N /\ o.s = s => Suits(o)
      BY <1>2, <2>3
    <3> HIDE DEF N
    <3> QED
      BY <1>4, <1>5, <1>7, <1>8, <2>1, <3>1, FitKept
  <2> QED
    BY <2>2, <2>3
<1>9. ASSUME UNCHANGED <<req, wire, toKernel>> PROVE Requests'
  <2>1. Brings({})
    BY <1>9 DEF Brings
  <2> QED
    BY <1>8, <1>9, <2>1, FitPartsNext
<1>10. ASSUME req' = [req EXCEPT ![r] = [st |-> "getting", want |-> want, left |-> DOMAIN want]]
      PROVE  Requests'
  <2>1. ASSUME NEW s \in Sync, s # r PROVE Fit(s)'
    BY <1>8, <1>10, <2>1 DEF TypeOK
  <2>2. Fit(r)'
    <3>1. \A u \in Uuid \cup {None} : Only("wire", <<d, r.of>>, r, u)'
      BY WantsTokens
    <3>2. At("backup", d, r, None) /\ "backup" \in Spot /\ d \in Site
      BY <1>1, BackupTaken DEF At, Spot, Site
    <3>3. r.n <= connections /\ r \notin toList
      <4> DEFINE u == None
      <4>1. u \in Uuid \cup {None} /\ At("backup", d, r, u)
        BY <3>2
      <4> HIDE DEF u
      <4> QED
        BY <1>1, <3>2, <4>1, Elsewhere DEF OneToken, Alone
    <3>4. req'[r] = [st |-> "getting", want |-> want, left |-> DOMAIN want]
      BY <1>1, <1>10 DEF TypeOK
    <3>6. /\ \A o \in Message : o.kind \notin Plain /\ o.s = r =>
                /\ "wire" # "kernel" => \A x \in Device : ~ Holds(toKernel'[x], {o})
          /\ "wire" # "backup" => \A x \in Device : ~ Holds(fromBackup'[x], News(r))
          /\ "wire" # "send" => \A x \in Device, u \in Uuid : [s |-> r, u |-> u] \notin toSend'[x]
          /\ "wire" # "stamp" => \A x \in Device, u \in Uuid :
                                      \A y \in toStamp'[x] : ~ (y.s = r /\ y.u = u)
      BY <1>1, <3>1, NoneElse, Zenon
    <3>7. ASSUME NEW o \in Message, o.kind \notin Plain, o.s = r, NEW x \in Pair,
                 Holds(wire'[x], {o})
          PROVE  Suits(o)'
      <4>1. ~ Holds(wire[x], {o})
        <5>1. PICK u \in Uuid \cup {None} : o \in Token(r, u)
          <6>1. CASE o.kind = "data"
            BY <3>7, <6>1, IsToken, MessageFields
          <6>2. CASE o.kind # "data"
            BY <3>7, <6>2, IsToken, MessageFields DEF Plain
          <6> QED
            BY <6>1, <6>2
        <5>2. At("backup", d, r, u) /\ "backup" \in Spot
          BY <3>2 DEF At, Spot
        <5>3. ~ Holds(wire[x], Token(r, u))
          BY <1>1, <3>2, <5>2, Elsewhere
        <5> QED
          BY <5>1, <5>3 DEF Holds
      <4>2. o = n
        BY <1>5, <3>7, <4>1 DEF Brings
      <4> QED
        BY <1>2, <3>4, <4>2 DEF Suits, Open
    <3> QED
      <4>1. /\ req'[r] # None => r.n <= connections'
            /\ r \in toList' => req'[r] # None /\ req'[r].st = "start"
        BY <1>4, <3>3
      <4>2. \A e \in Device :
               Holds(fromBackup'[e], News(r)) => req'[r] = None \/ req'[r].st = "asked"
        BY <3>6
      <4>3. /\ \A o \in Message : o.kind \notin Plain /\ o.s = r =>
                  /\ \A x \in Pair : Holds(wire'[x], {o}) => Suits(o)'
                  /\ \A x \in Device : Holds(toKernel'[x], {o}) => Suits(o)'
            /\ \A x \in Device, u \in Uuid :
                  /\ [s |-> r, u |-> u] \in toSend'[x] => Open(r, u)'
                  /\ \A y \in toStamp'[x] : y.s = r /\ y.u = u => Open(r, u)'
        BY <3>6, <3>7
      <4> QED
        BY <1>1, <4>1, <4>2, <4>3, FitMade
  <2> QED
    BY <2>1, <2>2, FitPartsNext
<1>11. ASSUME Homeward PROVE Homeward'
  <2>1. \A o \in Message : o.kind \in {"list", "data"} =>
           /\ \A x \in Pair : <<"wire", x, o>> \in N => o.s.by = x[2]
           /\ \A e \in Device : <<"kernel", e, o>> \in N => o.s.by = e
    BY <1>2
  <2> HIDE DEF N
  <2> QED
    BY <1>5, <1>7, <1>11, <2>1, HomewardKept
<1> QED
  BY <1>3, <1>9, <1>10, <1>11

LEMMA DataRequests ==
    ASSUME TypeOK, TypeOK', OneToken, Requests, ~ aborted, NEW d \in Device, toKernel[d] # <<>>,
           NEW m, m = Head(toKernel[d]), m.kind = "data", KernelData(d, m)
    PROVE  Requests' /\ ~ aborted' /\ (Homeward => Homeward')
<1> DEFINE r == m.s
           awaited == req[r] # None /\ req[r].st = "getting" /\ m.u \in req[r].left
           left == req[r].left \ {m.u}
<1>1. /\ m \in Message /\ r \in Sync /\ m.u \in Uuid /\ Holds(toKernel[d], {m})
      /\ \A s \in Sync : Fit(s)
  BY HeadType, MessageFields, QueueTypes, TailHolds, FitParts
<1>2. Open(r, m.u)
  BY <1>1 DEF Fit, Suits, Plain
<1>3. ~ aborted'
  BY <1>2 DEF KernelData, Open
<1>4. UNCHANGED <<fromBackup, toList, toSend, toStamp, connections>>
  BY DEF KernelData, bounds, serving
<1>5. \/ toKernel' = Handled(toKernel, d, <<>>) /\ UNCHANGED <<wire, req>>
      \/ awaited /\ req' = [req EXCEPT ![r] = None] /\ Finish(r, d, Tail(toKernel[d]))
      \/ /\ awaited /\ req' = [req EXCEPT ![r].left = left]
         /\ toKernel' = Handled(toKernel, d, <<>>) /\ UNCHANGED wire
  BY Zenon DEF KernelData
<1>6. Brings({})
  <2>1. CASE Finish(r, d, Tail(toKernel[d]))
    BY <1>1, <2>1, FinishBrings
  <2>2. CASE toKernel' = Handled(toKernel, d, <<>>) /\ UNCHANGED wire
    BY <1>1, <2>2, SentBrings
  <2> QED
    BY <1>5, <2>1, <2>2
<1>7. ASSUME NEW s \in Sync, req'[s] = req[s] PROVE Fit(s)'
  <2>1. \A o \in Message : \A c, z : <<c, z, o>> \in {} => Suits(o)
    OBVIOUS
  <2>2. connections <= connections' /\ Fit(s)
    BY <1>1, <1>4 DEF TypeOK
  <2> QED
    BY <1>4, <1>6, <1>7, <2>1, <2>2, FitKept
<1>8. ASSUME UNCHANGED req PROVE Requests'
  BY <1>3, <1>7, <1>8, FitPartsNext
<1>9. ASSUME awaited /\ req' = [req EXCEPT ![r] = None] PROVE Requests'
  <2>1. \A s \in Sync : s # r => req'[s] = req[s]
    BY <1>9 DEF TypeOK
  <2>2. req'[r] = None /\ r \notin toList'
    BY <1>1, <1>4, <1>9 DEF TypeOK, Fit
  <2>3. Fit(r)'
    BY <1>1, <2>2, FitNone
  <2> QED
    BY <1>3, <1>7, <2>1, <2>3, FitPartsNext
<1>10. ASSUME awaited /\ req' = [req EXCEPT ![r].left = left] PROVE Requests'
  <2>1. \A s \in Sync : s # r => req'[s] = req[s]
    BY <1>10 DEF TypeOK
  <2>2. req'[r] # None /\ req'[r].st = "getting" /\ req'[r].left = left
    <3>1. req[r] \in Request
      BY <1>1, <1>10 DEF TypeOK
    <3>2. req'[r] = [req[r] EXCEPT !.left = left]
      BY <1>1, <1>10 DEF TypeOK
    <3>3. req[r] = [st |-> req[r].st, want |-> req[r].want, left |-> req[r].left]
      BY <1>10, <3>1 DEF Request
    <3>4. req'[r] = [st |-> req[r].st, want |-> req[r].want, left |-> left]
      BY <3>2, <3>3
    <3> QED
      BY <1>1, <1>10, <3>1, <3>4, RequestMade, SMTT(40)
  <2>3. Fit(r) /\ r \notin toList /\ \A e \in Device : ~ Holds(fromBackup[e], News(r))
    BY <1>1, <1>10 DEF Fit
  <2>4. Only("gone", d, r, m.u)'
    BY DataTokens
  <2>5. /\ \A o \in Token(r, m.u), x \in Pair : ~ Holds(wire'[x], {o})
        /\ \A o \in Token(r, m.u), x \in Device : ~ Holds(toKernel'[x], {o})
        /\ \A x \in Device : [s |-> r, u |-> m.u] \notin toSend'[x]
        /\ \A x \in Device : \A y \in toStamp'[x] : ~ (y.s = r /\ y.u = m.u)
    <3> DEFINE u == m.u
               c == "gone"
    <3>1. u \in Uuid \cup {None} /\ Only(c, d, r, u)'
      BY <1>1, <2>4
    <3>2. c # "wire" /\ c # "kernel" /\ c # "send" /\ c # "stamp"
      OBVIOUS
    <3> HIDE DEF u, c, r
    <3>3. /\ \A o \in Token(r, u), x \in Pair : ~ Holds(wire'[x], {o})
          /\ \A o \in Token(r, u), x \in Device : ~ Holds(toKernel'[x], {o})
          /\ \A x \in Device : [s |-> r, u |-> u] \notin toSend'[x]
          /\ \A x \in Device : \A y \in toStamp'[x] : ~ (y.s = r /\ y.u = u)
      BY <1>1, <3>1, <3>2, OnlyHere
    <3> QED
      BY <3>3 DEF u
  <2>6. \A u : Open(r, u) /\ u # m.u => Open(r, u)'
    BY <1>10, <2>2 DEF Open
  <2>8. ASSUME NEW o \in Message, o.kind \notin Plain, o.s = r,
               \/ \E x \in Pair : Holds(wire'[x], {o})
               \/ \E x \in Device : Holds(toKernel'[x], {o})
        PROVE  Suits(o)'
    <3>1. o \notin Token(r, m.u)
      BY <2>5, <2>8
    <3>2. o.kind = "data" /\ o.u # m.u
      BY <2>8, <3>1, IsToken, MessageFields DEF Plain
    <3>3. Suits(o)
      BY <2>3, <1>6, <2>8 DEF Brings, Fit
    <3> QED
      BY <2>6, <2>8, <3>2, <3>3 DEF Suits
  <2>9. \A e \in Device, u \in Uuid :
           /\ [s |-> r, u |-> u] \in toSend'[e] => Open(r, u)'
           /\ \A y \in toStamp'[e] : y.s = r /\ y.u = u => Open(r, u)'
    BY <1>4, <2>3, <2>5, <2>6 DEF Fit
  <2>10. Fit(r)'
    <3>1. req'[r] # None => r.n <= connections'
      BY <1>4, <1>10, <2>3 DEF Fit
    <3>2. /\ r \notin toList'
          /\ \A e \in Device : ~ Holds(fromBackup'[e], News(r))
      BY <1>4, <2>3
    <3> HIDE DEF r
    <3> QED
      BY <1>1, <2>8, <2>9, <3>1, <3>2, FitMade
  <2> QED
    BY <1>3, <1>7, <2>1, <2>10, FitPartsNext
<1>11. ASSUME Homeward PROVE Homeward'
  BY <1>4, <1>6, <1>11, QuietHomeward
<1> QED
  BY <1>3, <1>5, <1>8, <1>9, <1>10, <1>11

-----------------------------------------------------------------------------
(* Cancelled synchronisations, and the kernels that are blocked *)

LEMMA CancelsHolds ==
    TypeOK =>
       (Cancels <=>
          /\ \A d \in Device : \A k \in DOMAIN toKernel[d] :
                toKernel[d][k].kind = "list" /\ toKernel[d][k].s \notin mine
                   => Cancelled(d, k, toKernel[d][k].s)
          /\ \A s \in Sync, d \in Device :
                Holds(fromBackup[d], News(s)) /\ req[s] # None /\ s \notin mine
                   => Cancelled(d, 0, s))
<1> SUFFICES ASSUME TypeOK
             PROVE  (\A d \in Device : \A k \in DOMAIN fromBackup[d] :
                        LET s == fromBackup[d][k].s
                        IN req[s] # None /\ s \notin mine => Cancelled(d, 0, s))
                    <=> (\A s \in Sync, d \in Device :
                            Holds(fromBackup[d], News(s)) /\ req[s] # None /\ s \notin mine
                               => Cancelled(d, 0, s))
  BY DEF Cancels
<1>1. \A d \in Device : \A k \in DOMAIN fromBackup[d] :
         fromBackup[d][k] \in [s : Sync, want : Wants]
  BY BackupElements
<1>2. ASSUME NEW s \in Sync, NEW d \in Device
      PROVE  Holds(fromBackup[d], News(s)) <=> \E k \in DOMAIN fromBackup[d] : fromBackup[d][k].s = s
  BY <1>1 DEF Holds, News
<1>3. \A d \in Device : \A k \in DOMAIN fromBackup[d] : fromBackup[d][k].s \in Sync
  BY <1>1
<1> QED
  BY <1>2, <1>3

\* The queue of e has lost its first h messages and has got new ones, the last of
\* which tells that no synchronisation is left, if none is.
Shifted(e, h) ==
    /\ \A k \in DOMAIN toKernel[e] : k > h =>
          k - h \in DOMAIN toKernel'[e] /\ toKernel'[e][k - h] = toKernel[e][k]
    /\ \A k \in DOMAIN toKernel'[e] :
          \/ k + h \in DOMAIN toKernel[e] /\ toKernel'[e][k] = toKernel[e][k + h]
          \/ toKernel'[e][k].kind = "list" => toKernel'[e][k].s \in mine'
    /\ (Others(e) # {} /\ Others(e)' = {}) =>
          \E j \in DOMAIN toKernel'[e] : /\ toKernel'[e][j].kind = "finished"
                                         /\ \A k \in DOMAIN toKernel[e] : j > k - h

LEMMA ShiftedMade ==
    ASSUME TypeOK, NEW e \in Device, NEW h \in {0, 1}, NEW ms \in Seq(Message),
           \/ h = 0 /\ toKernel'[e] = toKernel[e] \o ms
           \/ h = 1 /\ toKernel[e] # <<>> /\ toKernel'[e] = Tail(toKernel[e]) \o ms,
           \A k \in DOMAIN ms : ms[k].kind = "list" => ms[k].s \in mine',
           (Others(e) # {} /\ Others(e)' = {}) => Holds(ms, {[kind |-> "finished"]})
    PROVE  Shifted(e, h)
<1> DEFINE q == toKernel[e]
           r == IF h = 0 THEN q ELSE Tail(q)
<1>1. q \in Seq(Message) /\ (h = 1 => q # <<>>)
  BY QueueTypes
<1>2. r \in Seq(Message)
      /\ (\A k \in DOMAIN q : k > h => k \in Nat /\ k - h \in DOMAIN r /\ r[k - h] = q[k])
      /\ (\A k \in DOMAIN r : k \in Nat /\ k + h \in DOMAIN q /\ r[k] = q[k + h])
      /\ (\A k \in DOMAIN q : k \in Nat /\ k - h <= Len(r))
  <2> HIDE DEF q
  <2>1. CASE h = 0
    BY <1>1, <2>1
  <2>2. CASE h = 1
    <3>1. r = Tail(q) /\ Tail(q) \in Seq(Message) /\ Len(r) = Len(q) - 1
      BY <1>1, <2>2
    <3> QED
      BY <1>1, <2>2, <3>1, TailElements
  <2> QED
    BY <2>1, <2>2
<1>3. toKernel'[e] = r \o ms
  OBVIOUS
<1> HIDE DEF q, r
<1>4. /\ \A k \in DOMAIN r : k \in DOMAIN (r \o ms) /\ (r \o ms)[k] = r[k]
      /\ \A k \in DOMAIN ms : Len(r) + k \in DOMAIN (r \o ms) /\ (r \o ms)[Len(r) + k] = ms[k]
      /\ \A k \in DOMAIN (r \o ms) :
            \/ k \in DOMAIN r /\ (r \o ms)[k] = r[k]
            \/ /\ k \in Nat /\ k > Len(r) /\ k - Len(r) \in DOMAIN ms
               /\ (r \o ms)[k] = ms[k - Len(r)]
  BY <1>2, JoinElements
<1>5. \A k \in DOMAIN q : k > h => k - h \in DOMAIN (r \o ms) /\ (r \o ms)[k - h] = q[k]
  BY <1>2, <1>4
<1>6. \A k \in DOMAIN (r \o ms) :
         \/ k + h \in DOMAIN q /\ (r \o ms)[k] = q[k + h]
         \/ (r \o ms)[k].kind = "list" => (r \o ms)[k].s \in mine'
  <2> SUFFICES ASSUME NEW k \in DOMAIN (r \o ms)
               PROVE  \/ k + h \in DOMAIN q /\ (r \o ms)[k] = q[k + h]
                      \/ (r \o ms)[k].kind = "list" => (r \o ms)[k].s \in mine'
    OBVIOUS
  <2>1. CASE k \in DOMAIN r /\ (r \o ms)[k] = r[k]
    BY <1>2, <2>1
  <2>2. CASE k - Len(r) \in DOMAIN ms /\ (r \o ms)[k] = ms[k - Len(r)]
    BY <2>2
  <2> QED
    BY <1>4, <2>1, <2>2
<1>7. ASSUME Holds(ms, {[kind |-> "finished"]})
      PROVE  \E j \in DOMAIN (r \o ms) : /\ (r \o ms)[j].kind = "finished"
                                         /\ \A k \in DOMAIN q : j > k - h
  <2>1. PICK k \in DOMAIN ms : ms[k].kind = "finished"
    BY <1>7 DEF Holds
  <2>2. k \in Nat /\ k >= 1 /\ Len(r) \in Nat
    BY <1>2, <2>1
  <2>3. Len(r) + k \in DOMAIN (r \o ms) /\ (r \o ms)[Len(r) + k].kind = "finished"
    BY <1>4, <2>1
  <2>4. \A l \in DOMAIN q : Len(r) + k > l - h
    BY <1>2, <2>2
  <2> QED
    BY <2>3, <2>4
<1> QED
  BY <1>3, <1>5, <1>6, <1>7 DEF Shifted, q

LEMMA CancelledKept ==
    ASSUME TypeOK, NEW e \in Device, NEW h \in {0, 1}, Shifted(e, h), NEW s,
           NEW k \in Nat, k >= h, Cancelled(e, k, s)
    PROVE  Cancelled(e, k - h, s)'
<1>1. PICK i \in DOMAIN toKernel[e] :
         /\ i > k /\ toKernel[e][i].kind = "cancel" /\ toKernel[e][i].s = s
         /\ \/ Others(e) # {}
            \/ \E j \in DOMAIN toKernel[e] : j > i /\ toKernel[e][j].kind = "finished"
  BY DEF Cancelled
<1>2. \A j \in DOMAIN toKernel[e] : j \in Nat
  BY QueueTypes
<1>3. i - h \in DOMAIN toKernel'[e] /\ i - h > k - h /\ toKernel'[e][i - h] = toKernel[e][i]
  BY <1>1, <1>2 DEF Shifted
<1>4. \/ Others(e)' # {}
      \/ \E j \in DOMAIN toKernel'[e] : j > i - h /\ toKernel'[e][j].kind = "finished"
  <2>1. CASE Others(e) # {}
    BY <1>1, <2>1 DEF Shifted
  <2>2. ASSUME NEW j \in DOMAIN toKernel[e], j > i, toKernel[e][j].kind = "finished"
        PROVE  \E l \in DOMAIN toKernel'[e] : l > i - h /\ toKernel'[e][l].kind = "finished"
    <3>1. j - h \in DOMAIN toKernel'[e] /\ toKernel'[e][j - h] = toKernel[e][j] /\ j - h > i - h
      BY <1>1, <1>2, <2>2 DEF Shifted
    <3> QED
      BY <2>2, <3>1
  <2> QED
    BY <1>1, <2>1, <2>2
<1> QED
  BY <1>1, <1>3, <1>4 DEF Cancelled

\* The synchronisations of G lose their tenders.
LEMMA CancelsKept ==
    ASSUME TypeOK, TypeOK', Cancels, NEW G,
           \A s \in Sync : s \in G \/ s \in mine' \/ s \notin mine,
           \A e \in Device :
              \/ toKernel'[e] = <<>> /\ fromBackup'[e] = <<>>
              \/ Shifted(e, 0)
              \/ /\ Shifted(e, 1) /\ toKernel[e] # <<>>
                 /\ \A s \in Sync :
                       Head(toKernel[e]).kind = "cancel" /\ Head(toKernel[e]).s = s
                          => req'[s] = None \/ ~ Holds(fromBackup'[e], News(s)),
           \A s \in Sync, e \in Device : s \in G =>
              /\ \A k \in DOMAIN toKernel'[e] :
                    toKernel'[e][k].kind = "list" /\ toKernel'[e][k].s = s => Cancelled(e, k, s)'
              /\ Holds(fromBackup'[e], News(s)) => req'[s] = None \/ Cancelled(e, 0, s)',
           \A s \in Sync, e \in Device :
              Holds(fromBackup'[e], News(s)) =>
                 \/ Holds(fromBackup[e], News(s)) /\ (req'[s] # None => req[s] # None)
                 \/ s \in mine' \/ Cancelled(e, 0, s)'
    PROVE  Cancels'
<1>1. (TypeOK =>
       (Cancels <=>
          /\ \A d \in Device : \A k \in DOMAIN toKernel[d] :
                toKernel[d][k].kind = "list" /\ toKernel[d][k].s \notin mine
                   => Cancelled(d, k, toKernel[d][k].s)
          /\ \A s \in Sync, d \in Device :
                Holds(fromBackup[d], News(s)) /\ req[s] # None /\ s \notin mine
                   => Cancelled(d, 0, s)))'
  BY CancelsHolds, PTL
<1>2. /\ \A d \in Device : \A k \in DOMAIN toKernel[d] :
            toKernel[d][k].kind = "list" /\ toKernel[d][k].s \notin mine
               => Cancelled(d, k, toKernel[d][k].s)
      /\ \A s \in Sync, d \in Device :
            Holds(fromBackup[d], News(s)) /\ req[s] # None /\ s \notin mine
               => Cancelled(d, 0, s)
  BY CancelsHolds
<1>3. /\ \A d \in Device : \A k \in DOMAIN toKernel'[d] :
            k \in Nat /\ k >= 1 /\ toKernel'[d][k] \in Message
      /\ \A d \in Device : \A k \in DOMAIN toKernel[d] : k \in Nat /\ k >= 1
  <2>1. \A d \in Device : toKernel'[d] \in Seq(Message) /\ toKernel[d] \in Seq(Message)
    BY DEF TypeOK, Message, Sync, Label, Entry
  <2> QED
    BY <2>1, ElementOfSeq, LenProperties
<1>4. ASSUME NEW e \in Device, NEW k \in DOMAIN toKernel'[e], toKernel'[e][k].kind = "list",
             NEW s \in Sync, s = toKernel'[e][k].s, s \notin mine', s \notin G
      PROVE  Cancelled(e, k, s)'
  <2>1. ASSUME NEW h \in {0, 1}, Shifted(e, h) PROVE Cancelled(e, k, s)'
    <3>1. k + h \in DOMAIN toKernel[e] /\ toKernel[e][k + h] = toKernel'[e][k]
      BY <1>4, <2>1 DEF Shifted
    <3>2. Cancelled(e, k + h, s)
      <4>1. toKernel[e][k + h].kind = "list" /\ toKernel[e][k + h].s = s /\ s \notin mine
        BY <1>4, <3>1
      <4> QED
        BY <1>2, <3>1, <4>1
    <3>3. k + h \in Nat /\ k + h >= h /\ (k + h) - h = k
      BY <1>3
    <3>4. Cancelled(e, (k + h) - h, s)'
      BY <2>1, <3>2, <3>3, CancelledKept
    <3> QED
      BY <3>3, <3>4
  <2>2. toKernel'[e] # <<>>
    BY <1>4
  <2> QED
    BY <2>1, <2>2
<1>5. ASSUME NEW s \in Sync, NEW e \in Device, Holds(fromBackup'[e], News(s)), req'[s] # None,
             s \notin mine', s \notin G
      PROVE  Cancelled(e, 0, s)'
  <2> SUFFICES ASSUME Holds(fromBackup[e], News(s)), req[s] # None
               PROVE  Cancelled(e, 0, s)'
    BY <1>5
  <2>1. Cancelled(e, 0, s)
    BY <1>2, <1>5
  <2>2. CASE Shifted(e, 0)
    <3>1. Cancelled(e, 0 - 0, s)'
      BY <2>1, <2>2, CancelledKept
    <3> QED
      BY <3>1
  <2>3. CASE Shifted(e, 1) /\ toKernel[e] # <<>>
             /\ ~ (Head(toKernel[e]).kind = "cancel" /\ Head(toKernel[e]).s = s)
    <3>1. Head(toKernel[e]) = toKernel[e][1]
      BY <2>3, QueueTypes, TailElements
    <3>2. Cancelled(e, 1, s)
      <4>1. PICK i \in DOMAIN toKernel[e] :
               /\ i > 0 /\ toKernel[e][i].kind = "cancel" /\ toKernel[e][i].s = s
               /\ \/ Others(e) # {}
                  \/ \E j \in DOMAIN toKernel[e] : j > i /\ toKernel[e][j].kind = "finished"
        BY <2>1 DEF Cancelled
      <4>2. i # 1
        BY <2>3, <3>1, <4>1
      <4>3. i > 1
        BY <1>3, <4>1, <4>2
      <4> QED
        BY <4>1, <4>3 DEF Cancelled
    <3>3. Cancelled(e, 1 - 1, s)'
      BY <2>3, <3>2, CancelledKept
    <3> QED
      BY <3>3
  <2>4. fromBackup'[e] # <<>>
    BY <1>5, OneHolds
  <2> QED
    BY <1>5, <2>2, <2>3, <2>4
<1>6. ASSUME NEW e \in Device, NEW k \in DOMAIN toKernel'[e], toKernel'[e][k].kind = "list",
             toKernel'[e][k].s \notin mine'
      PROVE  Cancelled(e, k, toKernel[e][k].s)'
  <2>1. PICK s \in Sync : s = toKernel'[e][k].s
    BY <1>3, <1>6, MessageFields
  <2>2. CASE s \in G
    BY <1>6, <2>1, <2>2 DEF Cancelled
  <2>3. CASE s \notin G
    <3>1. Cancelled(e, k, s)'
      BY <1>4, <1>6, <2>1, <2>3
    <3> QED
      BY <2>1, <3>1 DEF Cancelled
  <2> QED
    BY <2>2, <2>3
<1>7. ASSUME NEW s \in Sync, NEW e \in Device, Holds(fromBackup'[e], News(s)), req'[s] # None,
             s \notin mine'
      PROVE  Cancelled(e, 0, s)'
  BY <1>5, <1>7
<1>8. Sync' = Sync /\ \A s \in Sync : News(s)' = News(s)
  BY DEF News, Sync, Wants, Entry, Label
<1> QED
  BY <1>1, <1>6, <1>7, <1>8

LEMMA BlockKept ==
    ASSUME TypeOK, BlockEnds,
           \A e \in Device :
              \/ ~ blocked'[e] \/ Others(e)' # {}
              \/ \E k \in DOMAIN toKernel'[e] : toKernel'[e][k].kind = "finished"
              \/ blocked[e] /\ Shifted(e, 0)
              \/ /\ blocked[e] /\ Shifted(e, 1) /\ toKernel[e] # <<>>
                 /\ Head(toKernel[e]).kind # "finished"
    PROVE  BlockEnds'
<1> SUFFICES ASSUME NEW e \in Device, blocked'[e]
             PROVE  \/ Others(e)' # {}
                    \/ \E k \in DOMAIN toKernel'[e] : toKernel'[e][k].kind = "finished"
  BY DEF BlockEnds, Others
<1>1. blocked[e] => \/ Others(e) # {}
                    \/ \E k \in DOMAIN toKernel[e] : toKernel[e][k].kind = "finished"
  BY DEF BlockEnds, Others
<1>2. \A k \in DOMAIN toKernel[e] : k \in Nat /\ k >= 1
  BY QueueTypes
<1>3. ASSUME blocked[e], NEW h \in {0, 1}, Shifted(e, h),
             h = 1 => toKernel[e] # <<>> /\ Head(toKernel[e]).kind # "finished"
      PROVE  \/ Others(e)' # {}
             \/ \E k \in DOMAIN toKernel'[e] : toKernel'[e][k].kind = "finished"
  <2>1. CASE Others(e) # {}
    BY <1>3, <2>1 DEF Shifted
  <2>2. ASSUME NEW k \in DOMAIN toKernel[e], toKernel[e][k].kind = "finished"
        PROVE  \E j \in DOMAIN toKernel'[e] : toKernel'[e][j].kind = "finished"
    <3>1. h = 1 => toKernel[e][1].kind # "finished"
      BY <1>3, QueueTypes, TailElements
    <3>2. k > h
      BY <1>2, <2>2, <3>1
    <3>3. k - h \in DOMAIN toKernel'[e] /\ toKernel'[e][k - h] = toKernel[e][k]
      BY <1>3, <3>2 DEF Shifted
    <3> QED
      BY <2>2, <3>3
  <2> QED
    BY <1>1, <1>3, <2>1, <2>2
<1> QED
  BY <1>3

LEMMA ShiftedSame ==
    ASSUME TypeOK, NEW e \in Device, toKernel'[e] = toKernel[e], Others(e) \subseteq Others(e)'
    PROVE  Shifted(e, 0)
<1>1. \A k \in DOMAIN toKernel[e] : k - 0 = k /\ k + 0 = k
  BY QueueTypes
<1> QED
  BY <1>1 DEF Shifted

\* Only the request, or nothing that matters, changes.
LEMMA CalmCancels ==
    ASSUME TypeOK, TypeOK', Cancels, BlockEnds, UNCHANGED <<toKernel, mine>>,
           \A e \in Device : blocked'[e] =>
              \/ blocked[e] \/ Others(e) # {}
              \/ \E k \in DOMAIN toKernel[e] : toKernel[e][k].kind = "finished",
           \A s \in Sync, e \in Device : Holds(fromBackup'[e], News(s)) =>
              Holds(fromBackup[e], News(s)) /\ (req'[s] # None => req[s] # None)
    PROVE  Cancels' /\ BlockEnds'
<1>1. \A e \in Device : Others(e)' = Others(e)
  BY DEF Others
<1>2. \A e \in Device : Shifted(e, 0)
  BY <1>1, ShiftedSame
<1> DEFINE G == {}
<1>3. \A s \in Sync : s \in G \/ s \in mine' \/ s \notin mine
  OBVIOUS
<1>4. \A s \in Sync, e \in Device : s \in G =>
         /\ \A k \in DOMAIN toKernel'[e] :
               toKernel'[e][k].kind = "list" /\ toKernel'[e][k].s = s => Cancelled(e, k, s)'
         /\ Holds(fromBackup'[e], News(s)) => req'[s] = None \/ Cancelled(e, 0, s)'
  OBVIOUS
<1> HIDE DEF G
<1>5. Cancels'
  BY <1>2, <1>3, <1>4, CancelsKept
<1>6. BlockEnds'
  BY <1>1, <1>2, BlockKept
<1> QED
  BY <1>5, <1>6

LEMMA HandledShifts ==
    ASSUME TypeOK, NEW d \in Device, toKernel[d] # <<>>,
           toKernel' = Handled(toKernel, d, <<>>), UNCHANGED mine
    PROVE  Shifted(d, 1) /\ \A e \in Device : e # d => Shifted(e, 0)
<1>1. \A e \in Device : Others(e)' = Others(e)
  BY DEF Others
<1>2. \A e \in Device : e # d => toKernel'[e] = toKernel[e]
  BY QueueTypes DEF Handled
<1>3. \A e \in Device : e # d => Shifted(e, 0)
  BY <1>1, <1>2, ShiftedSame
<1>4. Shifted(d, 1)
  <2> DEFINE ms == <<>>
             h == 1
  <2>1. ms \in Seq(Message) /\ h \in {0, 1}
        /\ \A k \in DOMAIN ms : ms[k].kind = "list" => ms[k].s \in mine'
    OBVIOUS
  <2>2. h = 1 /\ toKernel[d] # <<>> /\ toKernel'[d] = Tail(toKernel[d]) \o ms
    BY QueueTypes DEF Handled
  <2> HIDE DEF ms, h
  <2>3. Shifted(d, h)
    BY <1>1, <2>1, <2>2, ShiftedMade
  <2> QED
    BY <2>3 DEF h
<1> QED
  BY <1>3, <1>4

\* The kernel takes a message that changes no tender.
LEMMA HandledCancels ==
    ASSUME TypeOK, TypeOK', Cancels, BlockEnds, NEW d \in Device, toKernel[d] # <<>>,
           toKernel' = Handled(toKernel, d, <<>>), UNCHANGED mine,
           \A e \in Device : blocked'[e] => blocked[e],
           Head(toKernel[d]).kind = "finished" => ~ blocked'[d],
           Head(toKernel[d]).kind = "cancel" => req'[Head(toKernel[d]).s] = None
                 \/ \A e \in Device : ~ Holds(fromBackup'[e], News(Head(toKernel[d]).s)),
           \A s \in Sync, e \in Device : Holds(fromBackup'[e], News(s)) =>
              \/ Holds(fromBackup[e], News(s)) /\ (req'[s] # None => req[s] # None)
              \/ s \in mine' \/ Cancelled(e, 0, s)'
    PROVE  Cancels' /\ BlockEnds'
<1>3. \A e \in Device : e # d => Shifted(e, 0)
  BY HandledShifts
<1>4. Shifted(d, 1)
  BY HandledShifts
<1> DEFINE G == {}
<1>5. \A s \in Sync : s \in G \/ s \in mine' \/ s \notin mine
  OBVIOUS
<1>6. \A s \in Sync, e \in Device : s \in G =>
         /\ \A k \in DOMAIN toKernel'[e] :
               toKernel'[e][k].kind = "list" /\ toKernel'[e][k].s = s => Cancelled(e, k, s)'
         /\ Holds(fromBackup'[e], News(s)) => req'[s] = None \/ Cancelled(e, 0, s)'
  OBVIOUS
<1> HIDE DEF G
<1>7. \A e \in Device :
         \/ Shifted(e, 0)
         \/ /\ Shifted(e, 1) /\ toKernel[e] # <<>>
            /\ \A s \in Sync :
                  Head(toKernel[e]).kind = "cancel" /\ Head(toKernel[e]).s = s
                     => req'[s] = None \/ ~ Holds(fromBackup'[e], News(s))
  BY <1>3, <1>4
<1>8. Cancels'
  BY <1>5, <1>6, <1>7, CancelsKept
<1>9. BlockEnds'
  BY <1>3, <1>4, BlockKept
<1> QED
  BY <1>8, <1>9

LEMMA LastOfTells ==
    ASSUME NEW s \in mine, s.by \in Device, mine' = mine \ {s}
    PROVE  /\ Others(s.by)' = {} => LastOf(s) = <<[kind |-> "finished"]>>
           /\ Holds(<<[kind |-> "finished"]>>, {[kind |-> "finished"]})
           /\ \A e : e # s.by => Others(e)' = Others(e)
BY OneHolds DEF Others, LastOf

\* A synchronisation ends whose tender is there, or not any more.
LEMMA FinishCancels ==
    ASSUME TypeOK, TypeOK', Cancels, BlockEnds, NEW d \in Device, NEW r \in Sync, r.by = d,
           \/ toKernel[d] # <<>> /\ Finish(r, d, Tail(toKernel[d]))
              /\ Head(toKernel[d]).kind \notin {"cancel", "finished"}
           \/ Finish(r, d, toKernel[d]),
           \A e \in Device : blocked'[e] => blocked[e],
           NEW u, \A m \in Token(r, u), e \in Device : ~ Holds(toKernel'[e], {m}),
           \A e \in Device : ~ Holds(fromBackup'[e], News(r)),
           \A s \in Sync, e \in Device : Holds(fromBackup'[e], News(s)) =>
              Holds(fromBackup[e], News(s)) /\ (req'[s] # None => req[s] # None)
    PROVE  Cancels' /\ BlockEnds'
<1> DEFINE ms == IF r \in mine THEN LastOf(r) ELSE <<>>
<1>1. ms \in Seq(Message) /\ \A k \in DOMAIN ms : ms[k].kind # "list"
  <2>1. LastOf(r) \in Seq({[kind |-> "finished"]}) /\ LastOf(r) \in Seq(Message)
    BY LastOfType
  <2>2. \A k \in DOMAIN LastOf(r) : LastOf(r)[k].kind # "list"
    <3>1. \A k \in DOMAIN LastOf(r) : LastOf(r)[k] = [kind |-> "finished"]
      BY <2>1
    <3> QED
      BY <3>1
  <2> QED
    BY <2>1, <2>2
<1>2. /\ (r \in mine => mine' = mine \ {r}) /\ (r \notin mine => mine' = mine)
  BY DEF Finish, CleanUp
<1>3. \A e \in Device : e # d => toKernel'[e] = toKernel[e] /\ Others(e)' = Others(e)
  <2>1. \A e \in Device : e # d => toKernel'[e] = toKernel[e]
    BY QueueTypes DEF Finish
  <2>2. \A e \in Device : e # d => Others(e)' = Others(e)
    BY <1>2 DEF Others
  <2> QED
    BY <2>1, <2>2
<1>4. \A e \in Device : e # d => Shifted(e, 0)
  BY <1>3, ShiftedSame
<1>5. (Others(d) # {} /\ Others(d)' = {}) => Holds(ms, {[kind |-> "finished"]})
  <2>1. CASE r \in mine
    BY <1>2, <2>1, LastOfTells
  <2>2. CASE r \notin mine
    BY <1>2, <2>2 DEF Others
  <2> QED
    BY <2>1, <2>2
<1>6. \/ toKernel[d] # <<>> /\ toKernel'[d] = Tail(toKernel[d]) \o ms
         /\ Head(toKernel[d]).kind \notin {"cancel", "finished"}
      \/ toKernel'[d] = toKernel[d] \o ms
  <2>1. ASSUME NEW rest \in Seq(Message), Finish(r, d, rest) PROVE toKernel'[d] = rest \o ms
    <3>1. rest \o <<>> = rest
      OBVIOUS
    <3> QED
      BY <2>1, <3>1, QueueTypes DEF Finish
  <2>2. toKernel[d] # <<>> => Tail(toKernel[d]) \in Seq(Message)
    BY HeadType
  <2> QED
    BY <2>1, <2>2, QueueTypes
<1> HIDE DEF ms
<1>7. \/ Shifted(d, 0)
      \/ Shifted(d, 1) /\ toKernel[d] # <<>> /\ Head(toKernel[d]).kind \notin {"cancel", "finished"}
  <2>1. CASE toKernel[d] # <<>> /\ toKernel'[d] = Tail(toKernel[d]) \o ms
             /\ Head(toKernel[d]).kind \notin {"cancel", "finished"}
    <3> DEFINE h == 1
    <3>1. h \in {0, 1} /\ h = 1
      OBVIOUS
    <3> HIDE DEF h
    <3>2. Shifted(d, h)
      BY <1>1, <1>5, <2>1, <3>1, ShiftedMade
    <3> QED
      BY <2>1, <3>1, <3>2
  <2>2. CASE toKernel'[d] = toKernel[d] \o ms
    <3> DEFINE h == 0
    <3>1. h \in {0, 1} /\ h = 0
      OBVIOUS
    <3> HIDE DEF h
    <3>2. Shifted(d, h)
      BY <1>1, <1>5, <2>2, <3>1, ShiftedMade
    <3> QED
      BY <3>1, <3>2
  <2> QED
    BY <1>6, <2>1, <2>2
<1> DEFINE G == {r}
<1>8. \A s \in Sync : s \in G \/ s \in mine' \/ s \notin mine
  BY <1>2
<1>9. \A s \in Sync, e \in Device : s \in G =>
         /\ \A k \in DOMAIN toKernel'[e] :
               toKernel'[e][k].kind = "list" /\ toKernel'[e][k].s = s => Cancelled(e, k, s)'
         /\ Holds(fromBackup'[e], News(s)) => req'[s] = None \/ Cancelled(e, 0, s)'
  <2> SUFFICES ASSUME NEW e \in Device, NEW k \in DOMAIN toKernel'[e],
                      toKernel'[e][k].kind = "list", toKernel'[e][k].s = r
               PROVE  FALSE
    OBVIOUS
  <2>1. toKernel'[e][k] \in Message
    <3>1. toKernel'[e] \in Seq(Message)
      BY DEF TypeOK, Message, Sync, Label, Entry
    <3> QED
      BY <3>1, ElementOfSeq, LenProperties
  <2>2. toKernel'[e][k] \in Token(r, u)
    BY <2>1 DEF Token
  <2>3. Holds(toKernel'[e], {toKernel'[e][k]})
    BY DEF Holds
  <2> QED
    BY <2>2, <2>3
<1> HIDE DEF G
<1>10. \A e \in Device :
         \/ Shifted(e, 0)
         \/ /\ Shifted(e, 1) /\ toKernel[e] # <<>>
            /\ \A s \in Sync :
                  Head(toKernel[e]).kind = "cancel" /\ Head(toKernel[e]).s = s
                     => req'[s] = None \/ ~ Holds(fromBackup'[e], News(s))
  BY <1>4, <1>7
<1>11. Cancels'
  BY <1>8, <1>9, <1>10, CancelsKept
<1>12. BlockEnds'
  BY <1>4, <1>7, BlockKept
<1> QED
  BY <1>11, <1>12

LEMMA CalmSteps ==
    ASSUME TypeOK, TypeOK', Cancels, BlockEnds,
           \/ \E d \in Device : \/ StorageReads(d) \/ BackupStamps(d)
                                \/ Note(d) \/ Write(d) \/ Save(d)
           \/ \E d \in Device, u \in Uuid, deleted \in BOOLEAN : Change(d, u, deleted)
           \/ \E d \in Device, p \in Device : Disconnect(d, p)
           \/ \E r \in Sync : StorageLists(r) \/ ExpireTheirs(r)
           \/ UNCHANGED vars
    PROVE  Cancels' /\ BlockEnds'
<1>1. UNCHANGED <<toKernel, mine, fromBackup, blocked>>
  BY ZenonT(60) DEF StorageReads, BackupStamps, Note, Write, Save, Change, Disconnect, StorageLists,
         ExpireTheirs, vars, tenders
<1>2. \A s \in Sync : req'[s] = req[s] \/ req'[s] = None
  <2>1. CASE UNCHANGED req
    BY <2>1
  <2>2. CASE \E r \in Sync : req' = [req EXCEPT ![r] = None]
    BY <2>2 DEF TypeOK
  <2> QED
    BY <2>1, <2>2, ZenonT(60) DEF StorageReads, BackupStamps, Note, Write, Save, Change, Disconnect,
       StorageLists, ExpireTheirs, vars
<1> QED
  BY <1>1, <1>2, CalmCancels

LEMMA HandledSteps ==
    ASSUME TypeOK, TypeOK', Requests, Requests', Cancels, BlockEnds,
           NEW d \in Device, toKernel[d] # <<>>, NEW m, m = Head(toKernel[d]),
           \/ m.kind = "start" /\ KernelStart(d, m)
           \/ m.kind = "ask" /\ KernelAsk(d, m)
           \/ m.kind = "want" /\ KernelWant(d, m)
           \/ m.kind = "cancel" /\ KernelCancel(d, m)
           \/ m.kind = "finished" /\ KernelFinished(d)
           \/ m.kind = "change" /\ KernelChange(d, m)
    PROVE  Cancels' /\ BlockEnds'
<1>1. toKernel' = Handled(toKernel, d, <<>>) /\ UNCHANGED <<mine, fromBackup>>
  BY DEF KernelStart, KernelAsk, KernelWant, KernelCancel, KernelFinished, KernelChange, tenders
<1>2. m \in Message /\ (m.kind \in {"start", "cancel"} => m.s \in Sync)
  BY HeadType, MessageFields
<1>3. /\ \A e \in Device : blocked'[e] => blocked[e]
      /\ m.kind = "finished" => ~ blocked'[d]
  <2>1. CASE m.kind = "finished" /\ KernelFinished(d)
    BY <2>1 DEF KernelFinished, TypeOK
  <2>2. CASE m.kind # "finished"
    <3>1. UNCHANGED blocked
      BY <2>2 DEF KernelStart, KernelAsk, KernelWant, KernelCancel, KernelChange
    <3> QED
      BY <2>2, <3>1
  <2> QED
    BY <2>1, <2>2
<1>4. /\ \A s \in Sync : Fit(s)
      /\ \A s \in Sync : Fit(s)'
  BY FitParts, FitPartsNext
<1>5. \A s \in Sync : News(s)' = News(s)
  BY DEF News, Sync, Wants, Entry, Label
<1>6. m.kind = "cancel" => req'[m.s] = None \/ \A e \in Device : ~ Holds(fromBackup'[e], News(m.s))
  <2> SUFFICES ASSUME m.kind = "cancel"
               PROVE  req'[m.s] = None \/ \A e \in Device : ~ Holds(fromBackup'[e], News(m.s))
    OBVIOUS
  <2>1. req' = IF req[m.s] # None /\ req[m.s].st # "start" THEN [req EXCEPT ![m.s] = None] ELSE req
    BY DEF KernelCancel
  <2>2. req'[m.s] = None \/ (req[m.s] # None /\ req[m.s].st = "start")
    BY <1>2, <2>1 DEF TypeOK
  <2> QED
    BY <1>1, <1>2, <1>4, <2>2 DEF Fit
<1>7. \A s \in Sync, e \in Device : Holds(fromBackup'[e], News(s)) =>
         Holds(fromBackup[e], News(s)) /\ (req'[s] # None => req[s] # None)
  <2> SUFFICES ASSUME NEW s \in Sync, NEW e \in Device, Holds(fromBackup'[e], News(s)),
                      req'[s] # None
               PROVE  req[s] # None
    BY <1>1
  <2>1. CASE UNCHANGED req
    BY <2>1
  <2>2. CASE m.kind = "cancel" /\ KernelCancel(d, m)
    <3>1. req' = IF req[m.s] # None /\ req[m.s].st # "start" THEN [req EXCEPT ![m.s] = None] ELSE req
      BY <2>2 DEF KernelCancel
    <3> QED
      BY <1>2, <2>2, <3>1 DEF TypeOK
  <2>3. CASE m.kind = "start" /\ KernelStart(d, m)
    <3>1. req' = [req EXCEPT ![m.s] = [st |-> "start", since |-> m.since]]
      BY <2>3 DEF KernelStart
    <3>2. req'[s].st = "asked"
      BY <1>4, <1>5 DEF Fit
    <3>3. s # m.s
      BY <1>2, <2>3, <3>1, <3>2 DEF TypeOK
    <3> QED
      BY <3>1, <3>3 DEF TypeOK
  <2> QED
    BY <2>1, <2>2, <2>3 DEF KernelAsk, KernelWant, KernelFinished, KernelChange
<1> QED
  BY <1>1, <1>3, <1>6, <1>7, HandledCancels

LEMMA CancelledTells ==
    ASSUME NEW e, NEW k, NEW s, Cancelled(e, k, s)
    PROVE  Others(e) # {} \/ \E j \in DOMAIN toKernel[e] : toKernel[e][j].kind = "finished"
BY DEF Cancelled

LEMMA ListCancels ==
    ASSUME TypeOK, TypeOK', OneToken, Homeward, Cancels, BlockEnds,
           NEW d \in Device, toKernel[d] # <<>>, NEW m, m = Head(toKernel[d]),
           m.kind = "list", KernelList(d, m)
    PROVE  Cancels' /\ BlockEnds'
<1> DEFINE want == {l.u : l \in {k \in m.lines : Wanted(d, k)}}
           n == [s |-> m.s, want |-> Awaited(d, m.lines, want)]
<1>1. m \in Message /\ m.s \in Sync /\ Holds(toKernel[d], {m})
  BY HeadType, MessageFields, QueueTypes, TailHolds
<1>2. n \in [s : Sync, want : Wants] /\ n.s = m.s
  BY <1>1, AwaitedType, MessageFields
<1> HIDE DEF n
<1>3. UNCHANGED blocked
  BY DEF KernelList
<1>4. \/ Finish(m.s, d, Tail(toKernel[d])) /\ UNCHANGED <<req, fromBackup>>
      \/ /\ toKernel' = Handled(toKernel, d, <<>>) /\ UNCHANGED mine
         /\ fromBackup' = Posted(fromBackup, d, <<n>>)
         /\ req' = [req EXCEPT ![m.s] = [st |-> "asked"]]
  BY DEF KernelList, n, tenders
<1>5. m.s.by = d
  <2>1. \A o \in Message : o.kind \in {"list", "data"} =>
           \A e \in Device : Holds(toKernel[e], {o}) => o.s.by = e
    BY HomewardHolds
  <2> QED
    BY <1>1, <2>1
<1>6. \A e \in Device : ~ Holds(fromBackup[e], News(m.s))
  <2> DEFINE u == None
             a == "kernel"
             s == m.s
  <2>1. u \in Uuid \cup {None} /\ a \in Spot /\ d \in Site /\ a # "backup"
    BY DEF Spot, Site
  <2>2. At(a, d, s, u)
    <3>1. m \in Token(m.s, u)
      BY <1>1, IsToken
    <3> QED
      BY <1>1, <3>1 DEF At, Holds
  <2> HIDE DEF u, a, s
  <2>3. s \in Sync
    BY <1>1 DEF s
  <2>4. \A e \in Device : ~ Holds(fromBackup[e], News(s))
    BY <2>1, <2>2, <2>3, Elsewhere
  <2> QED
    BY <2>4 DEF s
<1>7. CASE Finish(m.s, d, Tail(toKernel[d])) /\ UNCHANGED <<req, fromBackup>>
  <2> DEFINE u == None
             c == "backup"
             s == m.s
  <2>1. u \in Uuid \cup {None} /\ c # "kernel" /\ s \in Sync /\ Only(c, d, s, u)'
    BY <1>1, ListTokens
  <2> HIDE DEF u, c, s
  <2>2. \A o \in Token(s, u), e \in Device : ~ Holds(toKernel'[e], {o})
    BY <2>1, OnlyHere
  <2>3. \A e \in Device : ~ Holds(fromBackup'[e], News(s))
    BY <1>6, <1>7 DEF s
  <2>4. s.by = d /\ Finish(s, d, Tail(toKernel[d]))
        /\ Head(toKernel[d]).kind \notin {"cancel", "finished"}
    BY <1>5, <1>7 DEF s
  <2>5. \A r \in Sync, e \in Device : Holds(fromBackup'[e], News(r)) =>
           Holds(fromBackup[e], News(r)) /\ (req'[r] # None => req[r] # None)
    BY <1>7
  <2>6. \A e \in Device : blocked'[e] => blocked[e]
    BY <1>3
  <2> QED
    BY <2>1, <2>2, <2>3, <2>4, <2>5, <2>6, FinishCancels
<1>8. CASE /\ toKernel' = Handled(toKernel, d, <<>>) /\ UNCHANGED mine
           /\ fromBackup' = Posted(fromBackup, d, <<n>>)
           /\ req' = [req EXCEPT ![m.s] = [st |-> "asked"]]
  <2>1. m.s \in mine' \/ Cancelled(d, 0, m.s)'
    <3>1. CASE m.s \in mine
      BY <1>8, <3>1
    <3>2. CASE m.s \notin mine
      <4> DEFINE h == 1
      <4>1. h \in DOMAIN toKernel[d] /\ m = toKernel[d][h] /\ h \in {0, 1} /\ h \in Nat /\ h >= h
            /\ h - h = 0
        BY QueueTypes, TailElements
      <4>2. Shifted(d, h)
        BY <1>8, HandledShifts
      <4> HIDE DEF h
      <4>3. Cancelled(d, h, m.s)
        BY <3>2, <4>1 DEF Cancels
      <4>4. Cancelled(d, h - h, m.s)'
        <5> DEFINE s == m.s
        <5>1. Cancelled(d, h, s)
          BY <4>3
        <5> HIDE DEF s
        <5>2. Cancelled(d, h - h, s)'
          BY <4>1, <4>2, <5>1, CancelledKept
        <5> QED
          BY <5>2 DEF s, Cancelled
      <4> QED
        BY <4>1, <4>4
    <3> QED
      BY <3>1, <3>2
  <2>2. ASSUME NEW s \in Sync, NEW e \in Device, Holds(fromBackup'[e], News(s))
        PROVE  \/ Holds(fromBackup[e], News(s)) /\ (req'[s] # None => req[s] # None)
               \/ s \in mine' \/ Cancelled(e, 0, s)'
    <3> DEFINE S == News(s)
    <3>1. n \in S => s = m.s
      BY <1>2 DEF News
    <3> HIDE DEF S
    <3>2. Holds(fromBackup'[e], S) => Holds(fromBackup[e], S) \/ (e = d /\ n \in S)
      BY <1>2, <1>8, BackupPosted
    <3>3. CASE s = m.s
      <4>1. e = d
        BY <1>6, <2>2, <3>2, <3>3 DEF S
      <4> QED
        BY <2>1, <3>3, <4>1 DEF Cancelled
    <3>4. CASE s # m.s
      <4>1. Holds(fromBackup[e], News(s))
        BY <2>2, <3>1, <3>2, <3>4 DEF S
      <4>2. req'[s] = req[s]
        BY <1>8, <3>4 DEF TypeOK
      <4> QED
        BY <4>1, <4>2
    <3> QED
      BY <3>3, <3>4
  <2>3. \A e \in Device : blocked'[e] => blocked[e]
    BY <1>3
  <2> QED
    BY <1>8, <2>2, <2>3, HandledCancels
<1> QED
  BY <1>4, <1>7, <1>8

LEMMA DataCancels ==
    ASSUME TypeOK, TypeOK', OneToken, Requests, Homeward, Cancels, BlockEnds,
           NEW d \in Device, toKernel[d] # <<>>, NEW m, m = Head(toKernel[d]),
           m.kind = "data", KernelData(d, m)
    PROVE  Cancels' /\ BlockEnds'
<1> DEFINE s == m.s
<1>1. /\ m \in Message /\ s \in Sync /\ m.u \in Uuid /\ Holds(toKernel[d], {m})
      /\ \A r \in Sync : Fit(r)
  BY HeadType, MessageFields, QueueTypes, TailHolds, FitParts
<1>2. UNCHANGED <<fromBackup, blocked>>
  BY DEF KernelData
<1>3. s.by = d
  <2>1. \A o \in Message : o.kind \in {"list", "data"} =>
           \A e \in Device : Holds(toKernel[e], {o}) => o.s.by = e
    BY HomewardHolds
  <2> QED
    BY <1>1, <2>1
<1>4. \/ toKernel' = Handled(toKernel, d, <<>>) /\ UNCHANGED <<req, mine>>
      \/ /\ req[s] # None /\ req[s].st = "getting" /\ req' = [req EXCEPT ![s] = None]
         /\ Finish(s, d, Tail(toKernel[d]))
      \/ /\ req[s] # None /\ UNCHANGED mine
         /\ req' = [req EXCEPT ![s].left = req[s].left \ {m.u}]
         /\ toKernel' = Handled(toKernel, d, <<>>)
  BY Zenon DEF KernelData, tenders
<1> HIDE DEF s
<1>5. \A r \in Sync : req'[r] # None => req[r] # None
  <2>1. CASE UNCHANGED req
    BY <2>1
  <2>2. CASE req' = [req EXCEPT ![s] = None]
    BY <1>1, <2>2 DEF TypeOK
  <2>3. CASE req[s] # None /\ req' = [req EXCEPT ![s].left = req[s].left \ {m.u}]
    <3>1. \A r \in Sync : r # s => req'[r] = req[r]
      BY <2>3 DEF TypeOK
    <3> QED
      BY <2>3, <3>1
  <2> QED
    BY <1>4, <2>1, <2>2, <2>3
<1>6. CASE toKernel' = Handled(toKernel, d, <<>>) /\ UNCHANGED mine
  <2>1. \A r \in Sync, e \in Device : Holds(fromBackup'[e], News(r)) =>
           \/ Holds(fromBackup[e], News(r)) /\ (req'[r] # None => req[r] # None)
           \/ r \in mine' \/ Cancelled(e, 0, r)'
    BY <1>2, <1>5
  <2>2. Head(toKernel[d]).kind = "data" /\ \A e \in Device : blocked'[e] => blocked[e]
    BY <1>2
  <2> QED
    BY <1>6, <2>1, <2>2, HandledCancels
<1>7. CASE /\ req[s] # None /\ req[s].st = "getting" /\ Finish(s, d, Tail(toKernel[d]))
  <2> DEFINE u == m.u
             c == "gone"
  <2>1. u \in Uuid \cup {None} /\ c # "kernel" /\ Only(c, d, s, u)'
    BY <1>1, DataTokens DEF s
  <2> HIDE DEF u, c
  <2>2. \A o \in Token(s, u), e \in Device : ~ Holds(toKernel'[e], {o})
    BY <1>1, <2>1, OnlyHere
  <2>3. \A e \in Device : ~ Holds(fromBackup'[e], News(s))
    BY <1>1, <1>2, <1>7 DEF Fit
  <2>4. Head(toKernel[d]).kind \notin {"cancel", "finished"}
    OBVIOUS
  <2>5. \A r \in Sync, e \in Device : Holds(fromBackup'[e], News(r)) =>
           Holds(fromBackup[e], News(r)) /\ (req'[r] # None => req[r] # None)
    BY <1>2, <1>5
  <2>6. \A e \in Device : blocked'[e] => blocked[e]
    BY <1>2
  <2> QED
    BY <1>1, <1>3, <1>7, <2>1, <2>2, <2>3, <2>4, <2>5, <2>6, FinishCancels
<1> QED
  BY <1>4, <1>6, <1>7

LEMMA WantsCancels ==
    ASSUME TypeOK, TypeOK', OneToken, Requests, Homeward, Cancels, BlockEnds,
           NEW d \in Device, KernelWants(d),
           NEW r, r = Head(fromBackup[d]).s, NEW want, want = Head(fromBackup[d]).want
    PROVE  Cancels' /\ BlockEnds'
<1>1. /\ fromBackup[d] # <<>> /\ r \in Sync
      /\ fromBackup' = Handled(fromBackup, d, <<>>) /\ Holds(fromBackup[d], News(r))
  <2>1. fromBackup[d] # <<>> /\ fromBackup' = Handled(fromBackup, d, <<>>)
    BY DEF KernelWants
  <2>2. Head(fromBackup[d]) \in [s : Sync, want : Wants]
    BY <2>1, QueueTypes, TailElements
  <2>3. r \in Sync /\ Head(fromBackup[d]) \in News(r)
    BY <2>2 DEF News
  <2> QED
    BY <2>1, <2>3, BackupTaken
<1>2. \/ UNCHANGED <<req, blocked, mine, toKernel>>
      \/ /\ req[r] # None
         /\ req' = [req EXCEPT ![r] = [st |-> "getting", want |-> want, left |-> DOMAIN want]]
         /\ \/ Finish(r, d, toKernel[d]) /\ UNCHANGED blocked
            \/ UNCHANGED <<mine, toKernel>> /\ blocked' = [blocked EXCEPT ![d] = TRUE]
  BY Zenon DEF KernelWants
<1>3. r.by = d
  <2>1. \A s \in Sync, e \in Device : Holds(fromBackup[e], News(s)) => s.by = e
    BY HomewardHolds
  <2> QED
    BY <1>1, <2>1
<1>4. \A s \in Sync, e \in Device : Holds(fromBackup'[e], News(s)) =>
         Holds(fromBackup[e], News(s)) /\ (req'[s] # None => req[s] # None)
  <2>1. \A s \in Sync, e \in Device : Holds(fromBackup'[e], News(s)) => Holds(fromBackup[e], News(s))
    BY <1>1, BackupTaken
  <2>2. \A s \in Sync : req'[s] # None => req[s] # None
    BY <1>2 DEF TypeOK
  <2> QED
    BY <2>1, <2>2
<1>5. CASE UNCHANGED <<req, blocked, mine, toKernel>>
  BY <1>4, <1>5, CalmCancels
<1>6. CASE req[r] # None /\ Finish(r, d, toKernel[d]) /\ UNCHANGED blocked
  <2> DEFINE u == None
             c == "wire"
             z == <<d, r.of>>
  <2>1. u \in Uuid \cup {None} /\ c # "kernel" /\ c # "backup" /\ Only(c, z, r, u)'
    BY <1>1, WantsTokens
  <2> HIDE DEF u, c, z
  <2>2. /\ \A o \in Token(r, u), e \in Device : ~ Holds(toKernel'[e], {o})
        /\ \A e \in Device : ~ Holds(fromBackup'[e], News(r))
    BY <1>1, <2>1, OnlyHere
  <2>3. \A e \in Device : blocked'[e] => blocked[e]
    BY <1>6
  <2> QED
    BY <1>1, <1>3, <1>4, <1>6, <2>2, <2>3, FinishCancels
<1>7. CASE req[r] # None /\ UNCHANGED <<mine, toKernel>> /\ blocked' = [blocked EXCEPT ![d] = TRUE]
  <2>1. \/ Others(d) # {}
        \/ \E k \in DOMAIN toKernel[d] : toKernel[d][k].kind = "finished"
    <3>1. CASE r \in mine
      BY <1>3, <3>1 DEF Others
    <3>2. CASE r \notin mine
      <4>1. Cancelled(d, 0, r)
        BY <1>1, <1>7, <3>2, CancelsHolds
      <4> QED
        BY <4>1, CancelledTells
    <3> QED
      BY <3>1, <3>2
  <2>2. \A e \in Device : blocked'[e] =>
           \/ blocked[e] \/ Others(e) # {}
           \/ \E k \in DOMAIN toKernel[e] : toKernel[e][k].kind = "finished"
    BY <1>7, <2>1 DEF TypeOK
  <2> QED
    BY <1>4, <1>7, <2>2, CalmCancels
<1> QED
  BY <1>2, <1>5, <1>6, <1>7

\* Tenders come, and messages after which a list has its tender.
LEMMA GrownCancels ==
    ASSUME TypeOK, TypeOK', Cancels, BlockEnds, mine \subseteq mine',
           UNCHANGED <<req, fromBackup, blocked>>,
           \A e \in Device : \E ms \in Seq(Message) :
              /\ toKernel'[e] = toKernel[e] \o ms
              /\ \A k \in DOMAIN ms : ms[k].kind = "list" => ms[k].s \in mine'
    PROVE  Cancels' /\ BlockEnds'
<1>1. ASSUME NEW e \in Device PROVE Shifted(e, 0)
  <2>1. PICK ms \in Seq(Message) :
           /\ toKernel'[e] = toKernel[e] \o ms
           /\ \A k \in DOMAIN ms : ms[k].kind = "list" => ms[k].s \in mine'
    OBVIOUS
  <2>2. Others(e) \subseteq Others(e)'
    BY DEF Others
  <2> DEFINE h == 0
  <2>3. h \in {0, 1} /\ h = 0
    OBVIOUS
  <2> HIDE DEF h
  <2>4. Shifted(e, h)
    BY <2>1, <2>2, <2>3, ShiftedMade
  <2> QED
    BY <2>3, <2>4
<1> DEFINE G == {}
<1>2. \A s \in Sync : s \in G \/ s \in mine' \/ s \notin mine
  OBVIOUS
<1>3. \A s \in Sync, e \in Device : s \in G =>
         /\ \A k \in DOMAIN toKernel'[e] :
               toKernel'[e][k].kind = "list" /\ toKernel'[e][k].s = s => Cancelled(e, k, s)'
         /\ Holds(fromBackup'[e], News(s)) => req'[s] = None \/ Cancelled(e, 0, s)'
  OBVIOUS
<1> HIDE DEF G
<1>4. Cancels'
  BY <1>1, <1>2, <1>3, CancelsKept
<1>5. BlockEnds'
  BY <1>1, BlockKept
<1> QED
  BY <1>4, <1>5

LEMMA ReceiveCancels ==
    ASSUME TypeOK, TypeOK', Cancels, BlockEnds, NEW p \in Device, NEW d \in Device, p # d,
           Receive(p, d)
    PROVE  Cancels' /\ BlockEnds'
<1> DEFINE m == Head(wire[<<p, d>>])
           a == <<m>>
           b == <<>>
<1>1. m \in Message
  BY ReceiveBrings
<1>2. /\ mine' = IF m.kind = "list" THEN mine \cup {m.s} ELSE mine
      /\ toKernel' = IF Passes(m) THEN Posted(toKernel, d, a) ELSE toKernel
      /\ UNCHANGED <<req, fromBackup, blocked>>
  BY Zenon DEF Receive
<1>3. /\ a \in Seq(Message) /\ b \in Seq(Message) /\ mine \subseteq mine'
      /\ \A k \in DOMAIN a : a[k].kind = "list" => a[k].s \in mine'
      /\ \A k \in DOMAIN b : b[k].kind = "list" => b[k].s \in mine'
      /\ \A e \in Device : toKernel[e] \o b = toKernel[e]
  <2>1. a \in Seq(Message) /\ b \in Seq(Message) /\ mine \subseteq mine'
    BY <1>1, <1>2
  <2>2. \A k \in DOMAIN a : a[k] = m
    OBVIOUS
  <2>3. m.kind = "list" => m.s \in mine'
    BY <1>2
  <2>4. \A e \in Device : toKernel[e] \o b = toKernel[e]
    BY QueueTypes
  <2> QED
    BY <2>1, <2>2, <2>3, <2>4
<1> HIDE DEF a, b, m
<1>4. \A e \in Device : toKernel'[e] = toKernel[e] \o a \/ toKernel'[e] = toKernel[e] \o b
  BY <1>2, <1>3, QueueTypes DEF Posted
<1>5. \A e \in Device : \E ms \in Seq(Message) :
         /\ toKernel'[e] = toKernel[e] \o ms
         /\ \A k \in DOMAIN ms : ms[k].kind = "list" => ms[k].s \in mine'
  BY <1>3, <1>4
<1> QED
  BY <1>2, <1>3, <1>5, GrownCancels

LEMMA ConnectCancels ==
    ASSUME TypeOK, TypeOK', Cancels, BlockEnds, NEW d \in Device, NEW p \in Device, d # p,
           Connect(d, p)
    PROVE  Cancels' /\ BlockEnds'
<1> DEFINE x(e) == IF e = d THEN <<d, p>> ELSE <<p, d>>
           s(y) == [by |-> y[1], of |-> y[2], n |-> connections']
           c(e) == [kind |-> "start", s |-> s(x(e)), since |-> seen[x(e)]]
           starts(y) == s(y) \in Asking /\ SyncClass[y[1]] = 0
           ms(e) == IF e \in {d, p} /\ starts(x(e)) THEN <<c(e)>> ELSE <<>>
<1>1. toKernel' = [e \in Device |-> toKernel[e] \o ms(e)]
      /\ UNCHANGED <<req, fromBackup, blocked>> /\ mine \subseteq mine'
  BY DEF Connect
<1>2. ASSUME NEW e \in Device
      PROVE  ms(e) \in Seq(Message) /\ \A k \in DOMAIN ms(e) : ms(e)[k].kind # "list"
  <2>1. CASE e \in {d, p}
    <3>1. x(e) \in Pair /\ s(x(e)) \in Sync
      <4>1. x(e) \in Pair
        BY <2>1, PairBack
      <4>2. connections' \in 1 .. MaxConnections
        <5>1. connections < MaxConnections /\ connections' = connections + 1
          BY Zenon DEF Connect
        <5>2. connections \in 0 .. MaxConnections /\ MaxConnections \in Nat
          BY JournalAssumption DEF TypeOK
        <5> QED
          BY <5>1, <5>2
      <4> QED
        BY <4>1, <4>2, PairBack DEF Sync
    <3>2. seen[x(e)] \in 0 .. MaxNow
      BY <3>1 DEF TypeOK
    <3>3. c(e) \in Message /\ c(e).kind = "start"
      BY <3>1, <3>2, MessagesMade
    <3> HIDE DEF c, x, s
    <3> QED
      BY <3>3
  <2>2. CASE e \notin {d, p}
    BY <2>2
  <2> QED
    BY <2>1, <2>2
<1> HIDE DEF ms
<1>3. \A e \in Device : toKernel'[e] = toKernel[e] \o ms(e)
  BY <1>1
<1>4. \A e \in Device : \E q \in Seq(Message) :
         /\ toKernel'[e] = toKernel[e] \o q
         /\ \A k \in DOMAIN q : q[k].kind = "list" => q[k].s \in mine'
  BY <1>2, <1>3
<1> QED
  BY <1>1, <1>4, GrownCancels

LEMMA RestartCancels ==
    ASSUME TypeOK, TypeOK', Homeward', Cancels, BlockEnds, NEW d \in Device, NEW clean \in BOOLEAN,
           Restart(d, clean)
    PROVE  Cancels' /\ BlockEnds'
<1>1. /\ mine' = {s \in mine : s.by # d}
      /\ toKernel' = [toKernel EXCEPT ![d] = <<>>]
      /\ fromBackup' = [fromBackup EXCEPT ![d] = <<>>]
      /\ req' = [s \in Sync |-> IF s.by = d THEN None ELSE req[s]]
      /\ blocked' = [blocked EXCEPT ![d] = FALSE]
  BY Zenon DEF Restart
<1>2. /\ \A e \in Device : toKernel'[e] = IF e = d THEN <<>> ELSE toKernel[e]
      /\ \A e \in Device : fromBackup'[e] = IF e = d THEN <<>> ELSE fromBackup[e]
      /\ \A e \in Device : blocked'[e] => blocked[e] /\ e # d
      /\ \A s \in Sync : req'[s] # None => req'[s] = req[s]
      /\ \A e \in Device : e # d => Others(e)' = Others(e)
  BY <1>1 DEF TypeOK, Others
<1>3. \A e \in Device : e # d => Shifted(e, 0)
  BY <1>2, ShiftedSame
<1> DEFINE G == {s \in Sync : s.by = d}
<1>4. \A s \in Sync : s \in G \/ s \in mine' \/ s \notin mine
  BY <1>1
<1>5. \A s \in Sync, e \in Device : s \in G =>
         /\ \A k \in DOMAIN toKernel'[e] :
               toKernel'[e][k].kind = "list" /\ toKernel'[e][k].s = s => Cancelled(e, k, s)'
         /\ Holds(fromBackup'[e], News(s)) => req'[s] = None \/ Cancelled(e, 0, s)'
  <2>1. ASSUME NEW s \in G, NEW e \in Device, NEW k \in DOMAIN toKernel'[e],
               toKernel'[e][k].kind = "list", toKernel'[e][k].s = s
        PROVE  FALSE
    <3>1. e = d
      BY <2>1 DEF Homeward
    <3> QED
      BY <1>2, <2>1, <3>1
  <2>2. \A s \in G : req'[s] = None
    BY <1>1
  <2> QED
    BY <2>1, <2>2
<1> HIDE DEF G
<1>6. \A s \in Sync, e \in Device :
         Holds(fromBackup'[e], News(s)) =>
            Holds(fromBackup[e], News(s)) /\ (req'[s] # None => req[s] # None)
  BY <1>2, OneHolds
<1>7. \A e \in Device : (toKernel'[e] = <<>> /\ fromBackup'[e] = <<>>) \/ Shifted(e, 0)
  BY <1>2, <1>3
<1>8. Cancels'
  BY <1>4, <1>5, <1>6, <1>7, CancelsKept
<1>9. BlockEnds'
  BY <1>2, <1>3, BlockKept
<1> QED
  BY <1>8, <1>9

LEMMA NewsHomeward ==
    ASSUME TypeOK', Homeward'
    PROVE  \A s \in Sync, d \in Device : Holds(fromBackup'[d], News(s)) => s.by = d
<1>1. (TypeOK =>
       (Homeward <=>
          /\ \A m \in Message : m.kind \in {"list", "data"} =>
                /\ \A x \in Pair : Holds(wire[x], {m}) => m.s.by = x[2]
                /\ \A d \in Device : Holds(toKernel[d], {m}) => m.s.by = d
          /\ \A s \in Sync, d \in Device : Holds(fromBackup[d], News(s)) => s.by = d))'
  BY HomewardHolds, PTL
<1>2. Sync' = Sync /\ \A s \in Sync : News(s)' = News(s)
  BY DEF News, Sync, Wants, Entry, Label
<1> QED
  BY <1>1, <1>2

LEMMA ExpireCancels ==
    ASSUME TypeOK, TypeOK', Homeward', Cancels, BlockEnds, NEW r \in Sync, Expire(r)
    PROVE  Cancels' /\ BlockEnds'
<1> DEFINE d == r.by
           c == [kind |-> "cancel", s |-> r]
           a == <<c>>
           b == LastOf(r)
           ms == a \o b
           q == toKernel[r.by]
<1>1. /\ r \in mine /\ mine' = mine \ {r} /\ toKernel' = Posted(toKernel, d, ms)
      /\ UNCHANGED <<fromBackup, req, blocked>>
  BY DEF Expire, CleanUp
<1>2. d \in Device /\ q \in Seq(Message)
  BY QueueTypes DEF Sync
<1>3. /\ c \in Message /\ a \in Seq(Message) /\ b \in Seq(Message)
      /\ b \in Seq({[kind |-> "finished"]})
      /\ ms \in Seq(Message)
  <2>1. c \in Message
    BY MessagesMade
  <2>2. b \in Seq(Message) /\ b \in Seq({[kind |-> "finished"]})
    BY LastOfType
  <2> HIDE DEF b, c
  <2>3. a \in Seq(Message)
    BY <2>1
  <2> HIDE DEF a
  <2> QED
    BY <2>1, <2>2, <2>3, JoinElements
<1>4. /\ Others(d)' = {} => b = <<[kind |-> "finished"]>>
      /\ \A e \in Device : e # d => Others(e)' = Others(e)
  <2>1. r.by \in Device
    BY <1>2
  <2> QED
    BY <1>1, <2>1, LastOfTells
<1>5. \A e \in Device : toKernel'[e] = IF e = d THEN q \o ms ELSE toKernel[e]
  BY <1>1, <1>2, QueueTypes DEF Posted
<1>6. /\ 1 \in DOMAIN ms /\ ms[1] = c
      /\ \A k \in DOMAIN ms : ms[k].kind # "list"
      /\ b = <<[kind |-> "finished"]>> => 2 \in DOMAIN ms /\ ms[2].kind = "finished"
  <2>1. \A k \in DOMAIN a : k \in DOMAIN ms /\ ms[k] = a[k]
    BY <1>3, JoinElements
  <2>2. \A k \in DOMAIN b : Len(a) + k \in DOMAIN ms /\ ms[Len(a) + k] = b[k]
    BY <1>3, JoinElements
  <2>3. \A k \in DOMAIN ms : \/ k \in DOMAIN a /\ ms[k] = a[k]
                             \/ k - Len(a) \in DOMAIN b /\ ms[k] = b[k - Len(a)]
    BY <1>3, JoinElements
  <2>4. Len(a) = 1 /\ 1 \in DOMAIN a /\ \A k \in DOMAIN a : a[k] = c /\ k = 1
    OBVIOUS
  <2>5. \A k \in DOMAIN b : b[k] = [kind |-> "finished"]
    <3> HIDE DEF b
    <3> QED
      BY <1>3
  <2>6. b = <<[kind |-> "finished"]>> => 1 \in DOMAIN b
    <3> HIDE DEF b
    <3> QED
      OBVIOUS
  <2>7. c.kind # "list"
    OBVIOUS
  <2> HIDE DEF ms, a, b, c
  <2> QED
    BY <2>1, <2>2, <2>3, <2>4, <2>5, <2>6, <2>7
<1> HIDE DEF a, b, ms, d, q
<1>7. /\ \A k \in DOMAIN ms : Len(q) + k \in DOMAIN (q \o ms) /\ (q \o ms)[Len(q) + k] = ms[k]
      /\ \A k \in DOMAIN (q \o ms) :
            \/ k \in DOMAIN q /\ (q \o ms)[k] = q[k]
            \/ /\ k \in Nat /\ k > Len(q) /\ k - Len(q) \in DOMAIN ms
               /\ (q \o ms)[k] = ms[k - Len(q)]
  BY <1>2, <1>3, JoinElements, SMTT(40)
<1>8. Len(q) \in Nat /\ \A k \in DOMAIN q : k \in Nat /\ k <= Len(q)
  BY <1>2
<1>9. ASSUME NEW k \in 0 .. Len(q) PROVE Cancelled(d, k, r)'
  <2> DEFINE i == Len(q) + 1
  <2>1. i \in DOMAIN (q \o ms) /\ (q \o ms)[i] = c /\ i > k
    BY <1>6, <1>7, <1>8
  <2>2. \/ Others(d)' # {}
        \/ \E j \in DOMAIN (q \o ms) : j > i /\ (q \o ms)[j].kind = "finished"
    <3>1. CASE Others(d)' = {}
      <4>1. Len(q) + 2 \in DOMAIN (q \o ms) /\ (q \o ms)[Len(q) + 2].kind = "finished"
        BY <1>4, <1>6, <1>7, <3>1
      <4> QED
        BY <1>8, <4>1
    <3> QED
      BY <3>1
  <2>3. c.kind = "cancel" /\ c.s = r
    OBVIOUS
  <2>4. toKernel'[d] = q \o ms
    BY <1>2, <1>5
  <2> HIDE DEF i, c
  <2> QED
    BY <2>1, <2>2, <2>3, <2>4 DEF Cancelled
<1>10. \A e \in Device : e # d => Shifted(e, 0)
  BY <1>4, <1>5, ShiftedSame
<1>11. Shifted(d, 0)
  <2> DEFINE h == 0
  <2>1. h \in {0, 1} /\ h = 0
    OBVIOUS
  <2>2. toKernel'[d] = toKernel[d] \o ms
    BY <1>2, <1>5 DEF q, d
  <2>3. Others(d)' = {} => Holds(ms, {[kind |-> "finished"]})
    <3>1. Others(d)' = {} => Holds(b, {[kind |-> "finished"]})
      BY <1>4, OneHolds
    <3> DEFINE T == {[kind |-> "finished"]}
    <3> HIDE DEF T
    <3>2. Holds(a \o b, T) <=> Holds(a, T) \/ Holds(b, T)
      BY <1>3, JoinHolds
    <3> QED
      BY <3>1, <3>2 DEF ms, T
  <2>4. \A k \in DOMAIN ms : ms[k].kind = "list" => ms[k].s \in mine'
    BY <1>6
  <2> HIDE DEF h
  <2>5. Shifted(d, h)
    BY <1>2, <1>3, <2>1, <2>2, <2>3, <2>4, ShiftedMade
  <2> QED
    BY <2>1, <2>5
<1> DEFINE G == {r}
<1>12. \A s \in Sync : s \in G \/ s \in mine' \/ s \notin mine
  BY <1>1
<1>13. \A s \in Sync, e \in Device : s \in G =>
         /\ \A k \in DOMAIN toKernel'[e] :
               toKernel'[e][k].kind = "list" /\ toKernel'[e][k].s = s => Cancelled(e, k, s)'
         /\ Holds(fromBackup'[e], News(s)) => req'[s] = None \/ Cancelled(e, 0, s)'
  <2>1. ASSUME NEW e \in Device, NEW k \in DOMAIN toKernel'[e],
               toKernel'[e][k].kind = "list", toKernel'[e][k].s = r
        PROVE  Cancelled(e, k, r)'
    <3>1. e = d
      BY <2>1 DEF Homeward, d
    <3>2. toKernel'[d] = q \o ms
      BY <1>2, <1>5
    <3>3. k \in DOMAIN q
      BY <1>6, <1>7, <2>1, <3>1, <3>2
    <3>4. k \in 0 .. Len(q)
      BY <1>8, <3>3
    <3> QED
      BY <1>9, <3>1, <3>4 DEF Cancelled
  <2>2. ASSUME NEW e \in Device, Holds(fromBackup'[e], News(r)) PROVE Cancelled(e, 0, r)'
    <3>1. \A s \in Sync, x \in Device : Holds(fromBackup'[x], News(s)) => s.by = x
      BY NewsHomeward
    <3>2. e = d
      BY <2>2, <3>1 DEF d
    <3>3. 0 \in 0 .. Len(q)
      BY <1>8
    <3> QED
      BY <1>9, <3>2, <3>3 DEF Cancelled
  <2> QED
    BY <2>1, <2>2 DEF Cancelled
<1> HIDE DEF G
<1>14. \A e \in Device : Shifted(e, 0)
  BY <1>10, <1>11
<1>15. \A s \in Sync, e \in Device :
         Holds(fromBackup'[e], News(s)) =>
            Holds(fromBackup[e], News(s)) /\ (req'[s] # None => req[s] # None)
  BY <1>1
<1>16. Cancels'
  BY <1>12, <1>13, <1>14, <1>15, CancelsKept
<1>17. BlockEnds'
  <2>1. \A e \in Device : ~ blocked'[e] \/ (blocked[e] /\ Shifted(e, 0))
    BY <1>1, <1>14
  <2> QED
    BY <2>1, BlockKept
<1> QED
  BY <1>16, <1>17

-----------------------------------------------------------------------------
(* What the links know *)

Told(s) ==
    (conn[<<s.by, s.of>>] = s.n /\ s \in mine /\ req[s] # None
       /\ req[s].st = "getting" /\ req[s].left # {}) => ~ finished[<<s.by, s.of>>]

LEMMA SyncPair ==
    ASSUME NEW s \in Sync
    PROVE  /\ <<s.by, s.of>> \in Pair /\ s.by \in Device /\ s.of \in Device
           /\ s.n \in Nat /\ s.n >= 1 /\ s.n <= MaxConnections
           /\ s = [by |-> s.by, of |-> s.of, n |-> s.n]
<1>1. MaxConnections \in Nat
  BY JournalAssumption
<1> QED
  BY <1>1 DEF Sync, Pair

LEMMA ToldKept ==
    ASSUME LinkTold, NEW s \in Sync, s \in mine' => s \in mine,
           conn'[<<s.by, s.of>>] \in {0, conn[<<s.by, s.of>>]},
           \/ req'[s] \in {None, req[s]}
           \/ req'[s].st # "getting"
           \/ req[s] # None /\ req[s].st = "getting" /\ req'[s].left \subseteq req[s].left,
           finished'[<<s.by, s.of>>] => finished[<<s.by, s.of>>]
    PROVE  Told(s)'
<1>1. s.n # 0
  BY SyncPair
<1>2. (conn[<<s.by, s.of>>] = s.n /\ s \in mine /\ req[s] # None
         /\ req[s].st = "getting" /\ req[s].left # {}) => ~ finished[<<s.by, s.of>>]
  BY DEF LinkTold
<1> QED
  BY <1>1, <1>2 DEF Told

\* Nothing changes for the link, or the connection ends.
LEMMA CalmTold ==
    ASSUME TypeOK, TypeOK', LinkTold,
           \/ \E d \in Device : \/ StorageReads(d) \/ BackupStamps(d)
                                \/ Note(d) \/ Write(d) \/ Save(d)
           \/ \E d \in Device, u \in Uuid, deleted \in BOOLEAN : Change(d, u, deleted)
           \/ \E d \in Device, p \in Device : Disconnect(d, p)
           \/ \E d \in Device, clean \in BOOLEAN : Restart(d, clean)
           \/ \E r \in Sync : StorageLists(r) \/ ExpireTheirs(r)
           \/ \E d \in Device : /\ toKernel[d] # <<>>
                                /\ LET m == Head(toKernel[d])
                                   IN \/ m.kind = "start" /\ KernelStart(d, m)
                                      \/ KernelAsk(d, m) \/ KernelWant(d, m) \/ KernelCancel(d, m)
                                      \/ KernelFinished(d) \/ KernelChange(d, m)
           \/ UNCHANGED vars
    PROVE  LinkTold'
<1>1. UNCHANGED finished /\ mine' \subseteq mine
  BY ZenonT(60) DEF StorageReads, BackupStamps, Note, Write, Save, Change, Disconnect, Restart,
         StorageLists, ExpireTheirs, KernelStart, KernelAsk, KernelWant, KernelCancel,
         KernelFinished, KernelChange, vars, link, tenders
<1>2. \A x \in Pair : conn'[x] \in {0, conn[x]}
  <2>1. CASE \E d \in Device, p \in Device : Disconnect(d, p)
    <3>1. PICK d \in Device, p \in Device : Disconnect(d, p)
      BY <2>1
    <3>2. conn' = [x \in Pair |-> IF x \in {<<d, p>>, <<p, d>>} THEN 0 ELSE conn[x]]
      BY <3>1, Zenon DEF Disconnect
    <3> QED
      BY <3>2
  <2>2. CASE \E d \in Device, clean \in BOOLEAN : Restart(d, clean)
    <3>1. PICK d \in Device : \E clean \in BOOLEAN : Restart(d, clean)
      BY <2>2
    <3>2. conn' = [x \in Pair |-> IF x \in {z \in Pair : d \in {z[1], z[2]}} THEN 0 ELSE conn[x]]
      BY <3>1, Zenon DEF Restart
    <3> QED
      BY <3>2
  <2>3. CASE UNCHANGED conn
    BY <2>3
  <2> QED
    BY <2>1, <2>2, <2>3, ZenonT(60) DEF StorageReads, BackupStamps, Note, Write, Save, Change,
       StorageLists, ExpireTheirs, KernelStart, KernelAsk, KernelWant, KernelCancel,
       KernelFinished, KernelChange, vars, link
<1>3. \A s \in Sync : req'[s] \in {None, req[s]} \/ req'[s].st # "getting"
  <2>1. CASE UNCHANGED req
    BY <2>1
  <2>2. CASE \E d \in Device, clean \in BOOLEAN : Restart(d, clean)
    <3>1. PICK d \in Device : \E clean \in BOOLEAN : Restart(d, clean)
      BY <2>2
    <3>2. req' = [s \in Sync |-> IF s.by = d THEN None ELSE req[s]]
      BY <3>1, Zenon DEF Restart
    <3> QED
      BY <3>2
  <2>3. CASE \E r \in Sync : StorageLists(r)
    BY <2>3 DEF StorageLists, TypeOK
  <2>4. CASE \E d \in Device : toKernel[d] # <<>> /\ KernelCancel(d, Head(toKernel[d]))
    <3>1. PICK d \in Device : toKernel[d] # <<>> /\ KernelCancel(d, Head(toKernel[d]))
      BY <2>4
    <3> DEFINE r == Head(toKernel[d]).s
    <3>2. req' = IF req[r] # None /\ req[r].st # "start" THEN [req EXCEPT ![r] = None] ELSE req
      BY <3>1, Zenon DEF KernelCancel
    <3> HIDE DEF r
    <3> QED
      BY <3>2 DEF TypeOK
  <2>5. CASE \E d \in Device : /\ toKernel[d] # <<>> /\ Head(toKernel[d]).kind = "start"
                               /\ KernelStart(d, Head(toKernel[d]))
    <3>1. PICK d \in Device : /\ toKernel[d] # <<>> /\ Head(toKernel[d]).kind = "start"
                              /\ KernelStart(d, Head(toKernel[d]))
      BY <2>5
    <3>2. PICK r, q : req' = [req EXCEPT ![r] = [st |-> "start", since |-> q]]
      BY <3>1, Zenon DEF KernelStart
    <3>3. \A s \in Sync : req'[s] = req[s] \/ req'[s] = [st |-> "start", since |-> q]
      BY <3>2 DEF TypeOK
    <3> QED
      BY <3>3
  <2> QED
    BY <2>1, <2>2, <2>3, <2>4, <2>5, ZenonT(60) DEF StorageReads, BackupStamps, Note, Write, Save, Change,
       Disconnect, ExpireTheirs, KernelAsk, KernelWant, KernelFinished, KernelChange, vars
<1>4. \A s \in Sync : Told(s)'
  BY <1>1, <1>2, <1>3, SyncPair, ToldKept
<1> QED
  BY <1>4 DEF LinkTold, Told

\* A tender is cleaned up: the link hears of it on its connection only.
LEMMA CleanUpTold ==
    ASSUME TypeOK, LinkTold, NEW r \in Sync, CleanUp(r), UNCHANGED conn,
           \A s \in Sync : s # r => req'[s] = req[s]
    PROVE  LinkTold'
<1>1. ASSUME NEW s \in Sync PROVE Told(s)'
  <2>1. CASE s = r
    BY <2>1 DEF CleanUp, Told
  <2>2. CASE s # r /\ conn[<<s.by, s.of>>] # s.n
    BY <2>2 DEF Told
  <2>3. CASE s # r /\ conn[<<s.by, s.of>>] = s.n
    <3>1. finished'[<<s.by, s.of>>] = finished[<<s.by, s.of>>]
      <4>1. CASE <<s.by, s.of>> = <<r.by, r.of>>
        <5>1. s.n # r.n
          BY <2>3, <4>1, SyncPair
        <5> QED
          BY <2>3, <4>1, <5>1 DEF CleanUp
      <4>2. CASE <<s.by, s.of>> # <<r.by, r.of>>
        BY <4>2, SyncPair DEF CleanUp, TypeOK
      <4> QED
        BY <4>1, <4>2
    <3>2. mine' \subseteq mine
      BY DEF CleanUp
    <3> QED
      BY <2>3, <3>1, <3>2, ToldKept
  <2> QED
    BY <2>1, <2>2, <2>3
<1> QED
  BY <1>1 DEF LinkTold, Told

LEMMA FinishTold ==
    ASSUME TypeOK, LinkTold, NEW r \in Sync, NEW d, NEW rest, Finish(r, d, rest), UNCHANGED conn,
           \A s \in Sync : s # r => req'[s] = req[s],
           \/ req'[r] \in {None, req[r]}
           \/ req'[r].left = {}
    PROVE  LinkTold'
<1>1. CASE r \in mine
  BY <1>1, CleanUpTold DEF Finish
<1>2. CASE r \notin mine
  <2>1. UNCHANGED <<mine, finished>>
    BY <1>2 DEF Finish
  <2>2. ASSUME NEW s \in Sync, s # r PROVE Told(s)'
    BY <2>1, <2>2, ToldKept
  <2>3. Told(r)'
    BY <1>2, <2>1 DEF Told
  <2> QED
    BY <2>2, <2>3 DEF LinkTold, Told
<1> QED
  BY <1>1, <1>2

LEMMA ListTold ==
    ASSUME TypeOK, LinkTold, NEW d \in Device, toKernel[d] # <<>>, NEW m,
           m = Head(toKernel[d]), m.kind = "list", KernelList(d, m)
    PROVE  LinkTold'
<1>1. m.s \in Sync
  BY HeadType, MessageFields
<1>2. CASE Finish(m.s, d, Tail(toKernel[d])) /\ UNCHANGED <<req, conn>>
  BY <1>1, <1>2, FinishTold
<1>3. CASE req' = [req EXCEPT ![m.s] = [st |-> "asked"]] /\ UNCHANGED <<mine, finished, conn>>
  <2>1. \A s \in Sync : req'[s] = req[s] \/ req'[s] = [st |-> "asked"]
    BY <1>3 DEF TypeOK
  <2>2. ASSUME NEW s \in Sync PROVE Told(s)'
    <3>1. req'[s] \in {None, req[s]} \/ req'[s].st # "getting"
      BY <2>1
    <3>2. conn'[<<s.by, s.of>>] \in {0, conn[<<s.by, s.of>>]}
      BY <1>3
    <3>3. (s \in mine' => s \in mine)
          /\ (finished'[<<s.by, s.of>>] => finished[<<s.by, s.of>>])
      BY <1>3
    <3> QED
      BY <3>1, <3>2, <3>3, ToldKept
  <2> QED
    BY <2>2 DEF LinkTold, Told
<1> QED
  BY <1>2, <1>3 DEF KernelList, link, tenders

LEMMA DataTold ==
    ASSUME TypeOK, LinkTold, NEW d \in Device, toKernel[d] # <<>>, NEW m,
           m = Head(toKernel[d]), m.kind = "data", KernelData(d, m)
    PROVE  LinkTold'
<1>1. m.s \in Sync
  BY HeadType, MessageFields
<1> DEFINE r == m.s
           left == req[r].left \ {m.u}
<1>2. CASE UNCHANGED <<req, mine, finished, conn>>
  <2>1. \A s \in Sync : Told(s)'
    BY <1>2, ToldKept
  <2> QED
    BY <2>1 DEF LinkTold, Told
<1>3. CASE req' = [req EXCEPT ![r] = None] /\ Finish(r, d, Tail(toKernel[d])) /\ UNCHANGED conn
  <2>1. req'[r] = None /\ \A s \in Sync : s # r => req'[s] = req[s]
    BY <1>1, <1>3 DEF TypeOK
  <2> QED
    BY <1>1, <1>3, <2>1, FinishTold
<1>4. CASE /\ req[r] # None /\ req[r].st = "getting" /\ req' = [req EXCEPT ![r].left = left]
           /\ UNCHANGED <<mine, finished, conn>>
  <2>1. \A s \in Sync : s # r => req'[s] = req[s]
    BY <1>1, <1>4 DEF TypeOK
  <2>2. req'[r].left \subseteq req[r].left
    <3>1. req[r] \in Request
      BY <1>1, <1>4 DEF TypeOK
    <3>2. req[r] = [st |-> req[r].st, want |-> req[r].want, left |-> req[r].left]
      BY <1>4, <3>1 DEF Request
    <3>3. req'[r] = [req[r] EXCEPT !.left = left]
      BY <1>1, <1>4 DEF TypeOK
    <3> QED
      BY <3>2, <3>3
  <2>3. \A s \in Sync : s # r => Told(s)'
    BY <1>4, <2>1, ToldKept
  <2>4. Told(r)'
    <3> DEFINE s == m.s
    <3>1. /\ s \in Sync /\ req[s] # None /\ req[s].st = "getting"
          /\ req'[s].left \subseteq req[s].left
      BY <1>1, <1>4, <2>2
    <3> HIDE DEF s
    <3>2. s \in mine' => s \in mine
      BY <1>4
    <3>3. conn'[<<s.by, s.of>>] \in {0, conn[<<s.by, s.of>>]}
      BY <1>4
    <3>4. finished'[<<s.by, s.of>>] => finished[<<s.by, s.of>>]
      BY <1>4
    <3>5. Told(s)'
      BY <3>1, <3>2, <3>3, <3>4, ToldKept
    <3> QED
      BY <3>5 DEF s, Told
  <2> QED
    BY <2>3, <2>4 DEF LinkTold, Told
<1> HIDE DEF r
<1> QED
  BY <1>2, <1>3, <1>4 DEF KernelData, link, tenders, r

LEMMA WantsTold ==
    ASSUME TypeOK, TypeOK', LinkTold, NEW d \in Device, KernelWants(d),
           NEW r, r = Head(fromBackup[d]).s, NEW want, want = Head(fromBackup[d]).want
    PROVE  LinkTold'
<1>1. r \in Sync
  BY NewsType DEF KernelWants
<1>2. UNCHANGED conn
  BY DEF KernelWants
<1>3. \/ UNCHANGED <<req, mine, finished>>
      \/ /\ req' = [req EXCEPT ![r] = [st |-> "getting", want |-> want, left |-> DOMAIN want]]
         /\ \/ DOMAIN want = {} /\ Finish(r, d, toKernel[d])
            \/ UNCHANGED mine /\ finished' = Started(r)
  BY Zenon DEF KernelWants
<1>4. CASE UNCHANGED <<req, mine, finished>>
  <2>1. \A s \in Sync : Told(s)'
    BY <1>2, <1>4, ToldKept
  <2> QED
    BY <2>1 DEF LinkTold, Told
<1>5. CASE /\ req' = [req EXCEPT ![r] = [st |-> "getting", want |-> want, left |-> DOMAIN want]]
           /\ DOMAIN want = {} /\ Finish(r, d, toKernel[d])
  <2>1. req'[r].left = {} /\ \A s \in Sync : s # r => req'[s] = req[s]
    BY <1>1, <1>5 DEF TypeOK
  <2> QED
    BY <1>1, <1>2, <1>5, <2>1, FinishTold
<1>6. CASE /\ req' = [req EXCEPT ![r] = [st |-> "getting", want |-> want, left |-> DOMAIN want]]
           /\ UNCHANGED mine /\ finished' = Started(r)
  <2>1. ASSUME NEW s \in Sync, s # r PROVE Told(s)'
    <3>1. finished'[<<s.by, s.of>>] => finished[<<s.by, s.of>>]
      BY <1>1, <1>6, SyncPair DEF Started, TypeOK
    <3>2. req'[s] = req[s]
      BY <1>6, <2>1 DEF TypeOK
    <3> QED
      BY <1>2, <1>6, <3>1, <3>2, ToldKept
  <2>2. Told(r)'
    BY <1>1, <1>2, <1>6, SyncPair DEF Told, Started, TypeOK
  <2> QED
    BY <2>1, <2>2 DEF LinkTold, Told
<1> QED
  BY <1>3, <1>4, <1>5, <1>6

LEMMA ReceiveTold ==
    ASSUME TypeOK, Requests, LinkTold, NEW p \in Device, NEW d \in Device, p # d, Receive(p, d)
    PROVE  LinkTold'
<1> DEFINE m == Head(wire[<<p, d>>])
<1>1. m \in Message /\ <<p, d>> \in Pair /\ Holds(wire[<<p, d>>], {m})
  BY ReceiveBrings
<1>2. mine' = (IF m.kind = "list" THEN mine \cup {m.s} ELSE mine)
      /\ UNCHANGED <<req, finished, conn>>
  BY Zenon DEF Receive
<1> HIDE DEF m
<1>3. m.kind = "list" => NotYet(m.s)
  <2>1. m.kind = "list" => m.s \in Sync /\ Fit(m.s)
    BY <1>1, MessageFields, FitParts
  <2> QED
    BY <1>1, <2>1 DEF Fit, Plain, Suits
<1>4. ASSUME NEW s \in Sync PROVE Told(s)'
  <2>1. CASE s \in mine
    BY <1>2, <2>1, ToldKept
  <2>2. CASE s \notin mine /\ s \in mine'
    BY <1>2, <1>3, <2>2 DEF Told, NotYet
  <2>3. CASE s \notin mine'
    BY <2>3 DEF Told
  <2> QED
    BY <2>1, <2>2, <2>3
<1> QED
  BY <1>4 DEF LinkTold, Told

\* There is no request yet on a connection that comes.
LEMMA ConnectTold ==
    ASSUME TypeOK, TypeOK', Requests, LinkTold, NEW d \in Device, NEW p \in Device, d # p,
           Connect(d, p)
    PROVE  LinkTold'
<1> DEFINE both == {<<d, p>>, <<p, d>>}
           t(x) == [by |-> x[1], of |-> x[2], n |-> connections']
<1>1. /\ connections' = connections + 1 /\ UNCHANGED req
      /\ conn' = [x \in Pair |-> IF x \in both THEN connections' ELSE conn[x]]
      /\ finished' = [x \in Pair |-> IF x \in both THEN TRUE ELSE finished[x]]
      /\ \E xs \in SUBSET both : mine' = mine \cup {t(x) : x \in xs}
  <2>1. /\ connections' = connections + 1 /\ UNCHANGED req
        /\ conn' = [x \in Pair |-> IF x \in both THEN connections' ELSE conn[x]]
        /\ finished' = [x \in Pair |-> IF x \in both THEN TRUE ELSE finished[x]]
        /\ mine' = mine \cup {t(x) : x \in {y \in both : t(y) \in Asking /\ SyncClass[y[1]] = 0}}
    BY DEF Connect
  <2>2. {y \in both : t(y) \in Asking /\ SyncClass[y[1]] = 0} \in SUBSET both
    OBVIOUS
  <2> HIDE DEF both, t
  <2> QED
    BY <2>1, <2>2
<1>2. connections \in Nat
  BY DEF TypeOK
<1>3. \A s \in Sync : s.n = connections + 1 => req[s] = None
  BY <1>2, SyncPair DEF Requests
<1>4. \A s \in mine' : s \in mine \/ s.n = connections + 1
  BY <1>1
<1> HIDE DEF both, t
<1>5. ASSUME NEW s \in Sync PROVE Told(s)'
  <2>1. CASE s.n = connections + 1
    BY <1>1, <1>3, <2>1 DEF Told
  <2>2. CASE s.n # connections + 1 /\ <<s.by, s.of>> \in both
    BY <1>1, <2>2, SyncPair DEF Told
  <2>3. CASE s.n # connections + 1 /\ <<s.by, s.of>> \notin both
    <3>1. /\ conn'[<<s.by, s.of>>] = conn[<<s.by, s.of>>]
          /\ finished'[<<s.by, s.of>>] = finished[<<s.by, s.of>>]
      BY <1>1, <2>3, SyncPair
    <3> QED
      BY <1>1, <1>4, <2>3, <3>1, ToldKept
  <2> QED
    BY <2>1, <2>2, <2>3
<1> QED
  BY <1>5 DEF LinkTold, Told

LEMMA ExpireTold ==
    ASSUME TypeOK, LinkTold, NEW r \in Sync, Expire(r)
    PROVE  LinkTold'
BY CleanUpTold DEF Expire

-----------------------------------------------------------------------------
(* The invariant holds at first and is kept by every step. *)

LEMMA InitSync == Init => SyncInv
<1> SUFFICES ASSUME Init PROVE SyncInv
  OBVIOUS
<1>1. /\ wire = [x \in Pair |-> <<>>] /\ toKernel = [d \in Device |-> <<>>]
      /\ fromBackup = [d \in Device |-> <<>>] /\ req = [s \in Sync |-> None]
      /\ blocked = [d \in Device |-> FALSE] /\ toList = {}
      /\ toSend = [d \in Device |-> {}] /\ toStamp = [d \in Device |-> {}]
      /\ mine = {} /\ theirs = {} /\ ~ aborted
  BY DEF Init
<1>2. TypeOK
  <2>1. Past \in 0 .. MaxNow /\ MaxNow \in Nat /\ MaxConnections \in Nat /\ MaxRestarts \in Nat
        /\ MaxHasty \in Nat
    BY JournalAssumption
  <2>2. /\ json \in [Device -> [Uuid -> Entry \cup {None}]]
        /\ file \in [Device -> [Uuid -> Entry \cup {None}]]
    BY DEF Init
  <2>3. store \in [Device -> [Uuid -> Label \cup {None}]]
    <3>1. store = [d \in Device |-> [u \in Uuid |->
                     IF json[d][u] = None \/ json[d][u].deleted THEN None ELSE json[d][u].label]]
      BY DEF Init
    <3>2. \A d \in Device, u \in Uuid : json[d][u] = None \/ json[d][u].label \in Label
      BY <2>2 DEF Entry
    <3> QED
      BY <3>1, <3>2
  <2>4. /\ writing \in [Device -> SUBSET [u : Uuid, content : Label \cup {None}]]
        /\ noting \in [Device -> SUBSET [u : Uuid, entry : Entry]]
    BY DEF Init
  <2>5. /\ seen \in [Pair -> 0 .. MaxNow] /\ heard \in [Pair -> 0 .. MaxNow]
        /\ finished \in [Pair -> BOOLEAN] /\ conn \in [Pair -> 0 .. MaxConnections]
        /\ \A x \in Pair : conn[x] = conn[<<x[2], x[1]>>]
    <3>1. /\ seen = [x \in Pair |-> 0] /\ heard = [x \in Pair |-> 0]
          /\ finished = [x \in Pair |-> TRUE] /\ conn = [x \in Pair |-> 0]
      BY DEF Init
    <3>2. \A x \in Pair : <<x[2], x[1]>> \in Pair
      BY PairBack
    <3> QED
      BY <2>1, <3>1, <3>2
  <2>6. wire \in [Pair -> Seq(Message)] /\ toKernel \in [Device -> Seq(Message)]
    BY <1>1
  <2>7. fromBackup \in [Device -> Seq([s : Sync, want : Wants])]
    BY <1>1
  <2>8. /\ req \in [Sync -> Request \cup {None}]
        /\ mine \subseteq Sync /\ theirs \subseteq Sync /\ toList \subseteq Sync
        /\ toSend \in [Device -> SUBSET [s : Sync, u : Uuid]]
        /\ toStamp \in [Device -> SUBSET [s : Sync, u : Uuid, content : Label]]
        /\ blocked \in [Device -> BOOLEAN] /\ aborted \in BOOLEAN
    BY <1>1 DEF Init
  <2>9. /\ now \in 0 .. MaxNow /\ connections \in 0 .. MaxConnections
        /\ restarts \in 0 .. MaxRestarts /\ hasty \in 0 .. MaxHasty
    BY <2>1 DEF Init
  <2> QED
    BY <2>2, <2>3, <2>4, <2>5, <2>6, <2>7, <2>8, <2>9 DEF TypeOK
<1>3. \A S : /\ \A x \in Pair : Few(wire[x], S) /\ ~ Holds(wire[x], S)
             /\ \A d \in Device : /\ Few(toKernel[d], S) /\ ~ Holds(toKernel[d], S)
                                  /\ Few(fromBackup[d], S) /\ ~ Holds(fromBackup[d], S)
  BY <1>1, OneHolds
<1>4. \A c \in Spot, x \in Site, s \in Sync, u \in Uuid \cup {None} : ~ At(c, x, s, u)
  BY <1>1, <1>3 DEF At
<1>5. OneToken
  BY <1>1, <1>3, <1>4 DEF OneToken, Alone, Once
<1>6. Requests /\ Homeward /\ Cancels /\ BlockEnds /\ LinkTold
  BY <1>1 DEF Requests, Homeward, Cancels, BlockEnds, LinkTold
<1> QED
  BY <1>1, <1>2, <1>5, <1>6 DEF SyncInv

LEMMA KernelSync ==
    ASSUME SyncInv, NEW d \in Device, KernelHandles(d)
    PROVE  SyncInv'
<1> DEFINE m == Head(toKernel[d])
<1>1. /\ TypeOK /\ ~ aborted /\ OneToken /\ Requests /\ Homeward /\ Cancels /\ BlockEnds
      /\ LinkTold /\ toKernel[d] # <<>> /\ m = Head(toKernel[d])
  BY DEF SyncInv, KernelHandles
<1> HIDE DEF m
<1>2. CASE m.kind = "start" /\ KernelStart(d, m)
  <2>1. TypeOK'
    BY <1>1, <1>2, StartType
  <2>2. OneToken'
    BY <1>1, <1>2, <2>1, StartTokens
  <2>3. Requests' /\ ~ aborted' /\ Homeward'
    BY <1>1, <1>2, <2>1, StartRequests
  <2>4. Cancels' /\ BlockEnds'
    BY <1>1, <1>2, <2>1, <2>3, HandledSteps
  <2>5. LinkTold'
    BY <1>1, <1>2, <2>1, CalmTold
  <2> QED
    BY <2>1, <2>2, <2>3, <2>4, <2>5 DEF SyncInv
<1>3. CASE m.kind = "ask" /\ KernelAsk(d, m)
  <2>1. TypeOK' /\ ~ aborted'
    <3>1. TypeOK'
      BY <1>1, <1>3, AskType
    <3>2. UNCHANGED aborted
      BY <1>3 DEF KernelAsk
    <3> QED
      BY <1>1, <3>1, <3>2
  <2>2. OneToken'
    BY <1>1, <1>3, <2>1, AskTokens
  <2>3. Requests' /\ Homeward'
    BY <1>1, <1>3, <2>1, AskRequests
  <2>4. Cancels' /\ BlockEnds'
    BY <1>1, <1>3, <2>1, <2>3, HandledSteps
  <2>5. LinkTold'
    BY <1>1, <1>3, <2>1, CalmTold
  <2> QED
    BY <2>1, <2>2, <2>3, <2>4, <2>5 DEF SyncInv
<1>4. CASE m.kind = "list" /\ KernelList(d, m)
  <2>1. TypeOK' /\ ~ aborted'
    <3>1. TypeOK'
      BY <1>1, <1>4, ListType
    <3>2. UNCHANGED aborted
      BY <1>4 DEF KernelList
    <3> QED
      BY <1>1, <3>1, <3>2
  <2>2. OneToken'
    BY <1>1, <1>4, <2>1, ListTokens
  <2>3. Requests' /\ Homeward'
    BY <1>1, <1>4, <2>1, ListRequests
  <2>4. Cancels' /\ BlockEnds'
    BY <1>1, <1>4, <2>1, ListCancels
  <2>5. LinkTold'
    BY <1>1, <1>4, ListTold
  <2> QED
    BY <2>1, <2>2, <2>3, <2>4, <2>5 DEF SyncInv
<1>5. CASE m.kind = "want" /\ KernelWant(d, m)
  <2>1. TypeOK' /\ ~ aborted'
    <3>1. TypeOK'
      BY <1>1, <1>5, WantType
    <3>2. UNCHANGED aborted
      BY <1>5 DEF KernelWant
    <3> QED
      BY <1>1, <3>1, <3>2
  <2>2. OneToken'
    BY <1>1, <1>5, <2>1, WantTokens
  <2>3. Requests' /\ Homeward'
    BY <1>1, <1>5, <2>1, WantRequests
  <2>4. Cancels' /\ BlockEnds'
    BY <1>1, <1>5, <2>1, <2>3, HandledSteps
  <2>5. LinkTold'
    BY <1>1, <1>5, <2>1, CalmTold
  <2> QED
    BY <2>1, <2>2, <2>3, <2>4, <2>5 DEF SyncInv
<1>6. CASE m.kind = "data" /\ KernelData(d, m)
  <2>1. TypeOK'
    BY <1>1, <1>6, DataType
  <2>2. OneToken'
    BY <1>1, <1>6, <2>1, DataTokens
  <2>3. Requests' /\ ~ aborted' /\ Homeward'
    BY <1>1, <1>6, <2>1, DataRequests
  <2>4. Cancels' /\ BlockEnds'
    BY <1>1, <1>6, <2>1, DataCancels
  <2>5. LinkTold'
    BY <1>1, <1>6, DataTold
  <2> QED
    BY <2>1, <2>2, <2>3, <2>4, <2>5 DEF SyncInv
<1>7. CASE \/ m.kind = "cancel" /\ KernelCancel(d, m)
           \/ m.kind = "finished" /\ KernelFinished(d)
           \/ m.kind = "change" /\ KernelChange(d, m)
  <2>1. TypeOK'
    BY <1>1, <1>7, PlainMessageType
  <2>2. OneToken'
    BY <1>1, <1>7, <2>1, QuietTokens
  <2>3. Requests' /\ ~ aborted' /\ Homeward'
    BY <1>1, <1>7, <2>1, QuietRequests
  <2>4. Cancels' /\ BlockEnds'
    BY <1>1, <1>7, <2>1, <2>3, HandledSteps
  <2>5. LinkTold'
    BY <1>1, <1>7, <2>1, CalmTold
  <2> QED
    BY <2>1, <2>2, <2>3, <2>4, <2>5 DEF SyncInv
<1> QED
  BY <1>2, <1>3, <1>4, <1>5, <1>6, <1>7 DEF KernelHandles, m

LEMMA ServingSync ==
    ASSUME SyncInv, NEW d \in Device, KernelWants(d) \/ StorageReads(d) \/ BackupStamps(d)
    PROVE  SyncInv'
<1>1. /\ TypeOK /\ ~ aborted /\ OneToken /\ Requests /\ Homeward /\ Cancels /\ BlockEnds
      /\ LinkTold
  BY DEF SyncInv
<1>2. CASE KernelWants(d)
  <2> DEFINE r == Head(fromBackup[d]).s
             want == Head(fromBackup[d]).want
  <2>1. TypeOK' /\ ~ aborted'
    <3>1. TypeOK'
      BY <1>1, <1>2, WantsType
    <3>2. UNCHANGED aborted
      BY <1>2 DEF KernelWants
    <3> QED
      BY <1>1, <3>1, <3>2
  <2>2. r = Head(fromBackup[d]).s /\ want = Head(fromBackup[d]).want
    OBVIOUS
  <2> HIDE DEF r, want
  <2>3. OneToken'
    BY <1>1, <1>2, <2>1, <2>2, WantsTokens
  <2>4. Requests' /\ Homeward'
    BY <1>1, <1>2, <2>1, <2>2, WantsRequests
  <2>5. Cancels' /\ BlockEnds'
    BY <1>1, <1>2, <2>1, <2>2, WantsCancels
  <2>6. LinkTold'
    BY <1>1, <1>2, <2>1, <2>2, WantsTold
  <2> QED
    BY <2>1, <2>3, <2>4, <2>5, <2>6 DEF SyncInv
<1>3. CASE StorageReads(d)
  <2>1. TypeOK' /\ ~ aborted'
    <3>1. TypeOK'
      BY <1>1, <1>3, ServeType
    <3>2. UNCHANGED aborted
      BY <1>3 DEF StorageReads
    <3> QED
      BY <1>1, <3>1, <3>2
  <2>2. OneToken'
    BY <1>1, <1>3, <2>1, ReadsTokens
  <2>3. Requests' /\ Homeward'
    BY <1>1, <1>3, <2>1, ReadsRequests
  <2>4. Cancels' /\ BlockEnds'
    BY <1>1, <1>3, <2>1, CalmSteps
  <2>5. LinkTold'
    BY <1>1, <1>3, <2>1, CalmTold
  <2> QED
    BY <2>1, <2>2, <2>3, <2>4, <2>5 DEF SyncInv
<1>4. CASE BackupStamps(d)
  <2>1. TypeOK' /\ ~ aborted'
    <3>1. TypeOK'
      BY <1>1, <1>4, ServeType
    <3>2. UNCHANGED aborted
      BY <1>4 DEF BackupStamps
    <3> QED
      BY <1>1, <3>1, <3>2
  <2>2. OneToken'
    BY <1>1, <1>4, <2>1, StampsTokens
  <2>3. Requests' /\ Homeward'
    BY <1>1, <1>4, <2>1, StampsRequests
  <2>4. Cancels' /\ BlockEnds'
    BY <1>1, <1>4, <2>1, CalmSteps
  <2>5. LinkTold'
    BY <1>1, <1>4, <2>1, CalmTold
  <2> QED
    BY <2>1, <2>2, <2>3, <2>4, <2>5 DEF SyncInv
<1> QED
  BY <1>2, <1>3, <1>4

LEMMA TenderSync ==
    ASSUME SyncInv, NEW r \in Sync, StorageLists(r) \/ Expire(r) \/ ExpireTheirs(r)
    PROVE  SyncInv'
<1>1. /\ TypeOK /\ ~ aborted /\ OneToken /\ Requests /\ Homeward /\ Cancels /\ BlockEnds
      /\ LinkTold
  BY DEF SyncInv
<1>2. CASE StorageLists(r)
  <2>1. TypeOK'
    <3>1. r \in toList => req[r] # None /\ req[r].st = "start"
      BY <1>1 DEF Requests
    <3> QED
      BY <1>1, <1>2, <3>1, ListsType
  <2>2. Requests' /\ ~ aborted' /\ Homeward' /\ r \in toList /\ req[r] # None /\ req[r].st = "start"
    BY <1>1, <1>2, <2>1, ListsRequests
  <2>3. OneToken'
    BY <1>1, <1>2, <2>1, <2>2, ListsTokens
  <2>4. Cancels' /\ BlockEnds'
    BY <1>1, <1>2, <2>1, CalmSteps
  <2>5. LinkTold'
    BY <1>1, <1>2, <2>1, CalmTold
  <2> QED
    BY <2>1, <2>2, <2>3, <2>4, <2>5 DEF SyncInv
<1>3. CASE Expire(r) \/ ExpireTheirs(r)
  <2>1. TypeOK'
    BY <1>1, <1>3, ExpireType
  <2>2. OneToken'
    BY <1>1, <1>3, <2>1, QuietTokens
  <2>3. Requests' /\ ~ aborted' /\ Homeward'
    BY <1>1, <1>3, <2>1, QuietRequests
  <2>4. Cancels' /\ BlockEnds'
    <3>1. CASE Expire(r)
      BY <1>1, <2>1, <2>3, <3>1, ExpireCancels
    <3>2. CASE ExpireTheirs(r)
      BY <1>1, <2>1, <3>2, CalmSteps
    <3> QED
      BY <1>3, <3>1, <3>2
  <2>5. LinkTold'
    <3>1. CASE Expire(r)
      BY <1>1, <3>1, ExpireTold
    <3>2. CASE ExpireTheirs(r)
      BY <1>1, <2>1, <3>2, CalmTold
    <3> QED
      BY <1>3, <3>1, <3>2
  <2> QED
    BY <2>1, <2>2, <2>3, <2>4, <2>5 DEF SyncInv
<1> QED
  BY <1>2, <1>3

LEMMA LinkSync ==
    ASSUME SyncInv, NEW d \in Device, NEW p \in Device, d # p,
           Receive(d, p) \/ Connect(d, p) \/ Disconnect(d, p)
    PROVE  SyncInv'
<1>1. /\ TypeOK /\ ~ aborted /\ OneToken /\ Requests /\ Homeward /\ Cancels /\ BlockEnds
      /\ LinkTold
  BY DEF SyncInv
<1>2. CASE Receive(d, p)
  <2>1. TypeOK' /\ ~ aborted'
    <3>1. TypeOK'
      BY <1>1, <1>2, ReceiveType
    <3>2. UNCHANGED aborted
      BY <1>2 DEF Receive
    <3> QED
      BY <1>1, <3>1, <3>2
  <2>2. OneToken'
    BY <1>1, <1>2, <2>1, ReceiveTokens
  <2>3. Requests' /\ Homeward'
    BY <1>1, <1>2, <2>1, ReceiveRequests
  <2>4. Cancels' /\ BlockEnds'
    BY <1>1, <1>2, <2>1, ReceiveCancels
  <2>5. LinkTold'
    BY <1>1, <1>2, ReceiveTold
  <2> QED
    BY <2>1, <2>2, <2>3, <2>4, <2>5 DEF SyncInv
<1>3. CASE Connect(d, p)
  <2>1. TypeOK' /\ ~ aborted'
    <3>1. TypeOK'
      BY <1>1, <1>3, ConnectType
    <3>2. UNCHANGED aborted
      BY <1>3 DEF Connect
    <3> QED
      BY <1>1, <3>1, <3>2
  <2>2. OneToken'
    BY <1>1, <1>3, <2>1, ConnectTokens
  <2>3. Requests' /\ Homeward'
    BY <1>1, <1>3, <2>1, ConnectRequests
  <2>4. Cancels' /\ BlockEnds'
    BY <1>1, <1>3, <2>1, ConnectCancels
  <2>5. LinkTold'
    BY <1>1, <1>3, <2>1, ConnectTold
  <2> QED
    BY <2>1, <2>2, <2>3, <2>4, <2>5 DEF SyncInv
<1>4. CASE Disconnect(d, p)
  <2>1. TypeOK'
    BY <1>1, <1>4, DisconnectType
  <2>2. OneToken'
    BY <1>1, <1>4, <2>1, QuietTokens
  <2>3. Requests' /\ ~ aborted' /\ Homeward'
    BY <1>1, <1>4, <2>1, QuietRequests
  <2>4. Cancels' /\ BlockEnds'
    BY <1>1, <1>4, <2>1, CalmSteps
  <2>5. LinkTold'
    BY <1>1, <1>4, <2>1, CalmTold
  <2> QED
    BY <2>1, <2>2, <2>3, <2>4, <2>5 DEF SyncInv
<1> QED
  BY <1>2, <1>3, <1>4

LEMMA BookSync ==
    ASSUME SyncInv,
           \/ \E d \in Device : Note(d) \/ Write(d) \/ Save(d)
           \/ \E d \in Device, u \in Uuid, deleted \in BOOLEAN : Change(d, u, deleted)
           \/ \E d \in Device, clean \in BOOLEAN : Restart(d, clean)
           \/ UNCHANGED vars
    PROVE  SyncInv'
<1>1. /\ TypeOK /\ ~ aborted /\ OneToken /\ Requests /\ Homeward /\ Cancels /\ BlockEnds
      /\ LinkTold
  BY DEF SyncInv
<1>2. TypeOK'
  <2>1. CASE UNCHANGED vars
    <3>1. UNCHANGED <<books, link, tenders, serving, bounds, wire, toKernel, fromBackup, req,
                      blocked, aborted>>
      BY <2>1 DEF vars
    <3> QED
      BY <1>1, <3>1, TypeParts, PartsUnchanged DEF tenders, serving
  <2> QED
    BY <1>1, <2>1, JournalStepTypes, ChangeType, RestartType
<1>3. OneToken'
  BY <1>1, <1>2, QuietTokens
<1>4. Requests' /\ ~ aborted' /\ Homeward'
  BY <1>1, <1>2, QuietRequests
<1>5. Cancels' /\ BlockEnds'
  <2>1. CASE \E d \in Device, clean \in BOOLEAN : Restart(d, clean)
    BY <1>1, <1>2, <1>4, <2>1, RestartCancels
  <2>2. CASE \/ \E d \in Device : Note(d) \/ Write(d) \/ Save(d)
             \/ \E d \in Device, u \in Uuid, deleted \in BOOLEAN : Change(d, u, deleted)
             \/ UNCHANGED vars
    BY <1>1, <1>2, <2>2, CalmSteps
  <2> QED
    BY <2>1, <2>2
<1>6. LinkTold'
  BY <1>1, <1>2, CalmTold
<1> QED
  BY <1>2, <1>3, <1>4, <1>5, <1>6 DEF SyncInv

LEMMA SyncStep == SyncInv /\ [Next]_vars => SyncInv'
<1> SUFFICES ASSUME SyncInv, [Next]_vars PROVE SyncInv'
  OBVIOUS
<1>1. ASSUME NEW d \in Device, KernelHandles(d) PROVE SyncInv'
  BY <1>1, KernelSync
<1>2. ASSUME NEW d \in Device, KernelWants(d) \/ StorageReads(d) \/ BackupStamps(d) PROVE SyncInv'
  BY <1>2, ServingSync
<1>3. ASSUME NEW s \in Sync, StorageLists(s) \/ Expire(s) \/ ExpireTheirs(s) PROVE SyncInv'
  BY <1>3, TenderSync
<1>4. ASSUME NEW x \in Pair,
             Receive(x[1], x[2]) \/ Connect(x[1], x[2]) \/ Disconnect(x[1], x[2])
      PROVE  SyncInv'
  BY <1>4, PairBack, LinkSync
<1>5. ASSUME \/ \E d \in Device : Note(d) \/ Write(d) \/ Save(d)
             \/ \E d \in Device, u \in Uuid, deleted \in BOOLEAN : Change(d, u, deleted)
             \/ \E d \in Device, clean \in BOOLEAN : Restart(d, clean)
             \/ UNCHANGED vars
      PROVE  SyncInv'
  BY <1>5, BookSync
<1> QED
  BY <1>1, <1>2, <1>3, <1>4, <1>5 DEF Next, Work

\* Only a connection that ends, or a device that stops, changes when a peer was
\* last seen; and then nothing of a synchronisation of it is to come.
LEMMA SeenKept ==
    ASSUME SyncInv, Next, NEW s \in Sync, seen'[<<s.by, s.of>>] > seen[<<s.by, s.of>>]
    PROVE  finished[<<s.by, s.of>>]
<1> DEFINE x == <<s.by, s.of>>
<1>1. x \in Pair /\ seen[x] \in Nat /\ ~ (seen[x] > seen[x]) /\ ~ (0 > seen[x])
  BY SyncPair DEF SyncInv, TypeOK
<1> HIDE DEF x
<1>2. ASSUME NEW ds, NEW xs, seen' = LastSeen(ds, xs) PROVE seen'[x] = seen[x] \/ finished[x]
  BY <1>1, <1>2 DEF LastSeen
<1>3. seen'[x] = seen[x] \/ seen'[x] = 0 \/ finished[x]
  <2>1. CASE UNCHANGED seen
    BY <2>1
  <2>2. CASE \E y \in Pair : Disconnect(y[1], y[2])
    BY <1>2, <2>2 DEF Disconnect
  <2>3. ASSUME NEW d \in Device, NEW clean \in BOOLEAN, Restart(d, clean)
        PROVE  seen'[x] = seen[x] \/ seen'[x] = 0 \/ finished[x]
    <3> DEFINE its == {z \in Pair : d \in {z[1], z[2]}}
               ds == IF clean THEN Device ELSE Device \ {d}
               last == LastSeen(ds, its)
    <3>1. \/ seen' = last
          \/ seen' = [z \in Pair |-> IF z[1] = d THEN 0 ELSE last[z]]
      BY <2>3, Zenon DEF Restart
    <3>2. last[x] = seen[x] \/ finished[x]
      BY <1>1 DEF LastSeen
    <3> HIDE DEF last
    <3> QED
      BY <1>1, <3>1, <3>2
  <2>4. ASSUME NEW d \in Device, KernelHandles(d) PROVE UNCHANGED seen
    BY <2>4 DEF KernelHandles, KernelStart, KernelAsk, KernelList, KernelWant, KernelData,
                KernelCancel, KernelFinished, KernelChange, link
  <2>5. ASSUME \/ \E d \in Device : \/ KernelWants(d) \/ StorageReads(d) \/ BackupStamps(d)
                                    \/ Note(d) \/ Write(d) \/ Save(d)
               \/ \E r \in Sync : StorageLists(r) \/ Expire(r) \/ ExpireTheirs(r)
               \/ \E y \in Pair : Receive(y[1], y[2]) \/ Connect(y[1], y[2])
               \/ \E d \in Device, u \in Uuid, deleted \in BOOLEAN : Change(d, u, deleted)
        PROVE  UNCHANGED seen
    BY <2>5, ZenonT(60) DEF KernelWants, StorageReads, BackupStamps, Note, Write, Save, StorageLists,
                Expire, ExpireTheirs, Receive, Connect, Change, link
  <2> QED
    BY <2>1, <2>2, <2>3, <2>4, <2>5 DEF Next, Work
<1> QED
  BY <1>1, <1>3 DEF x

-----------------------------------------------------------------------------
(* The theorems *)

\* The invariant of the synchronisation: what is on the way for it is at one place
\* and suits its request, so that every message, list and object that comes is one
\* the kernels and links expect.
THEOREM SyncInvariant == Spec => []SyncInv
BY InitSync, SyncStep, PTL DEF Spec

\* No assertion of the kernel about the request of a synchronisation fails
\* (kernel.cpp:1185, 2111, 2127, 2129 and 2145).
THEOREM SyncNoAbort == Spec => []NoAbort
<1>1. SyncInv => NoAbort
  BY DEF SyncInv, NoAbort
<1> QED
  BY <1>1, SyncInvariant, PTL

\* A kernel that answers no get has a synchronisation that goes on, or is to be told
\* that none does (kernel.cpp:2065, clean_up_sync_tender_info of the router).
THEOREM SyncBlockEnds == Spec => []BlockEnds
<1>1. SyncInv => BlockEnds
  BY DEF SyncInv
<1> QED
  BY <1>1, SyncInvariant, PTL

\* While objects that were asked for are still to come, the time a peer was last
\* seen does not go on (update_peer_last_seen of the link).
THEOREM SyncSeenAfter == Spec => SeenAfterSync
<1>1. SyncInv /\ [Next]_vars =>
         [\A s \in Sync :
            LET x == <<s.by, s.of>>
            IN (seen'[x] > seen[x] /\ conn[x] = s.n /\ s \in mine /\ req[s] # None)
                  => req[s].st # "getting" \/ req[s].left = {}]_vars
  <2> SUFFICES ASSUME SyncInv, Next, NEW s \in Sync, NEW x, x = <<s.by, s.of>>,
                      seen'[x] > seen[x], conn[x] = s.n, s \in mine, req[s] # None
               PROVE  req[s].st # "getting" \/ req[s].left = {}
    OBVIOUS
  <2>1. finished[x]
    BY SeenKept
  <2> QED
    BY <2>1 DEF SyncInv, LinkTold
<1> QED
  BY <1>1, SyncInvariant, PTL DEF Spec, SeenAfterSync
=============================================================================
