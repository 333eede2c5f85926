--------------------------- MODULE KernelGetProofs ---------------------------
(***************************************************************************)
(* Proofs about KernelGet, for any requests, objects, ranges and limits.   *)
(***************************************************************************)
EXTENDS KernelGet, ListProofs

-----------------------------------------------------------------------------
(* Chunks and ranges *)

\* The number of the chunks of o.
Number(o) == IF o \in Cut THEN Count(o) ELSE 1

\* Rounding up.
LEMMA RoundedUp ==
    ASSUME NEW a \in Nat \ {0}, NEW b \in Nat \ {0}
    PROVE  LET q == (a + b - 1) \div b
           IN /\ q \in Nat \ {0} /\ q <= a
              /\ (q - 1) * b < a /\ a <= q * b
<1> DEFINE q == (a + b - 1) \div b
<1>1. q \in Int /\ b * q <= a + b - 1 /\ a + b - 1 < b * q + b
  OBVIOUS
<1> QED BY <1>1

\* The chunks of an object are numbered from 0, follow each other, and end with the
\* object.
LEMMA ChunksOf ==
    ASSUME NEW o \in Object
    PROVE  /\ Number(o) \in Nat \ {0} /\ Number(o) <= Size[o] /\ Size[o] \in Nat \ {0}
           /\ Chunks(o) = 0 .. Number(o) - 1
           /\ PiecesOf(o) \subseteq Chunks(o) /\ (o \in Cut => PiecesOf(o) = Chunks(o))
<1>1. Size[o] \in Nat \ {0} /\ ChunkSize \in Nat \ {0}
  BY GetAssumption
<1>2. Count(o) \in Nat \ {0} /\ Count(o) <= Size[o]
  BY <1>1, RoundedUp DEF Count
<1>3. CASE o \in Cut
  BY <1>1, <1>2, <1>3 DEF Number, Chunks, PiecesOf
<1>4. CASE o \notin Cut
  <2>1. Number(o) = 1 /\ Chunks(o) = {0} /\ PiecesOf(o) = {}
    BY <1>4 DEF Number, Chunks, PiecesOf
  <2> QED
    BY <1>1, <1>4, <2>1
<1> QED
  BY <1>3, <1>4

LEMMA ChunkEnds ==
    ASSUME NEW o \in Object, NEW i \in Chunks(o)
    PROVE  /\ Start(o, i) \in Nat /\ End(o, i) \in Nat
           /\ Start(o, i) < End(o, i) /\ End(o, i) <= Size[o]
           /\ Start(o, 0) = 0
           /\ i + 1 \in Chunks(o) => End(o, i) = Start(o, i + 1)
           /\ i + 1 \notin Chunks(o) => End(o, i) = Size[o]
<1>1. Size[o] \in Nat \ {0} /\ ChunkSize \in Nat \ {0}
  BY GetAssumption
<1>2. CASE o \notin Cut
  BY <1>1, <1>2 DEF Start, End, Chunks
<1>3. CASE o \in Cut
  <2> DEFINE n == Count(o)
  <2>1. n \in Nat \ {0} /\ (n - 1) * ChunkSize < Size[o] /\ Size[o] <= n * ChunkSize
    BY <1>1, RoundedUp DEF Count
  <2>2. Chunks(o) = 0 .. n - 1
    BY <1>3 DEF Chunks, PiecesOf
  <2> HIDE DEF n
  <2>3. i \in Nat /\ i <= n - 1
    BY <2>1, <2>2
  <2>4. (i + 1) * ChunkSize = i * ChunkSize + ChunkSize /\ i * ChunkSize \in Nat
    BY <1>1, <2>3
  <2>5. i < n - 1 => (i + 1) * ChunkSize <= (n - 1) * ChunkSize
    BY <1>1, <2>1, <2>3
  <2>6. (n - 1) * ChunkSize \in Nat /\ 0 * ChunkSize = 0
    BY <1>1, <2>1
  <2>7. Start(o, i) = i * ChunkSize /\ Start(o, 0) = 0 /\ Start(o, i + 1) = (i + 1) * ChunkSize
    BY <1>3, <2>6 DEF Start
  <2>8. End(o, i) = IF i < n - 1 THEN (i + 1) * ChunkSize ELSE Size[o]
    BY <1>3 DEF End, n
  <2>9. i = n - 1 \/ i < n - 1
    BY <2>1, <2>3
  <2>10. i + 1 \in Chunks(o) <=> i < n - 1
    BY <2>1, <2>2, <2>3
  <2>11. CASE i = n - 1
    BY <1>1, <2>1, <2>3, <2>4, <2>6, <2>7, <2>8, <2>10, <2>11
  <2>12. CASE i < n - 1
    BY <1>1, <2>1, <2>3, <2>4, <2>5, <2>6, <2>7, <2>8, <2>10, <2>12
  <2> QED
    BY <2>9, <2>11, <2>12
<1> QED
  BY <1>2, <1>3

\* A set of numbers up to n has a greatest and a least one.
LEMMA MaxIs ==
    ASSUME NEW n \in Nat, NEW S \in SUBSET (0 .. n), S # {}
    PROVE  Max(S) \in S /\ \A x \in S : x <= Max(S)
<1> DEFINE A == {n - x : x \in S}
<1>1. PICK a \in A : \A b \in A : a <= b
  <2>1. A \in SUBSET Nat /\ A # {}
    OBVIOUS
  <2> HIDE DEF A
  <2> QED
    BY <2>1, LeastNat
<1>2. PICK m \in S : a = n - m
  OBVIOUS
<1>3. \A x \in S : m >= x
  <2> SUFFICES ASSUME NEW x \in S PROVE m >= x
    OBVIOUS
  <2>1. n - x \in A
    OBVIOUS
  <2> HIDE DEF A
  <2>2. n - m <= n - x
    BY <1>1, <1>2, <2>1
  <2> QED
    BY <2>2
<1> HIDE DEF A
<1>4. \E x \in S : \A y \in S : x >= y
  BY <1>3
<1>5. Max(S) \in S /\ \A y \in S : Max(S) >= y
  BY <1>4 DEF Max
<1> QED
  BY <1>5

LEMMA MinIs ==
    ASSUME NEW S \in SUBSET Nat, S # {}
    PROVE  Min(S) \in S /\ \A x \in S : Min(S) <= x
<1>1. \E x \in S : \A y \in S : x <= y
  BY LeastNat
<1> QED
  BY <1>1 DEF Min

\* The chunks a range begins and ends in.
LEMMA ChunkRange ==
    ASSUME NEW o \in Object, NEW r \in Int \X Int
    PROVE  /\ FirstChunk(o, r) \in Chunks(o)
           /\ LastChunk(o, r) \in 0 .. Number(o)
           /\ r[1] >= 0 => Start(o, FirstChunk(o, r)) <= r[1]
           /\ Inside(o, r[2]) # {} =>
                 /\ LastChunk(o, r) - 1 \in Chunks(o)
                 /\ Start(o, LastChunk(o, r) - 1) < r[2] /\ r[2] < End(o, LastChunk(o, r) - 1)
<1>1. Number(o) \in Nat \ {0} /\ Chunks(o) = 0 .. Number(o) - 1
  BY ChunksOf
<1>2. \A b : Inside(o, b) \in SUBSET Chunks(o)
  BY DEF Inside
<1>3. \A b : Inside(o, b) # {} => Max(Inside(o, b)) \in Inside(o, b)
  <2> SUFFICES ASSUME NEW b, Inside(o, b) # {} PROVE Max(Inside(o, b)) \in Inside(o, b)
    OBVIOUS
  <2>1. Number(o) - 1 \in Nat /\ Inside(o, b) \in SUBSET (0 .. Number(o) - 1)
    BY <1>1, <1>2
  <2> QED
    BY <2>1, MaxIs
<1>4. Start(o, 0) = 0
  BY <1>1, ChunkEnds
<1>5. FirstChunk(o, r) \in Chunks(o) /\ (r[1] >= 0 => Start(o, FirstChunk(o, r)) <= r[1])
  <2>1. CASE Inside(o, r[1]) = {}
    BY <1>1, <1>4, <2>1 DEF FirstChunk
  <2>2. CASE Inside(o, r[1]) # {}
    <3> DEFINE i == FirstChunk(o, r)
    <3>1. i \in Inside(o, r[1])
      BY <1>3, <2>2 DEF FirstChunk
    <3>2. i \in Chunks(o) /\ Start(o, i) < r[1]
      BY <3>1 DEF Inside
    <3>3. Start(o, i) \in Nat
      BY <3>2, ChunkEnds
    <3> QED
      BY <3>2, <3>3
  <2> QED
    BY <2>1, <2>2
<1>6. CASE Inside(o, r[2]) = {}
  BY <1>1, <1>5, <1>6 DEF LastChunk
<1>7. CASE Inside(o, r[2]) # {}
  <2> DEFINE i == Max(Inside(o, r[2]))
  <2>1. i \in Inside(o, r[2])
    BY <1>3, <1>7
  <2>2. i \in Chunks(o) /\ Start(o, i) < r[2] /\ r[2] < End(o, i)
    BY <2>1 DEF Inside
  <2>3. LastChunk(o, r) = i + 1
    BY <1>7 DEF LastChunk
  <2> HIDE DEF i
  <2>4. LastChunk(o, r) - 1 = i
    BY <1>1, <2>2, <2>3
  <2> QED
    BY <1>1, <1>5, <2>2, <2>3, <2>4
<1> QED
  BY <1>6, <1>7

\* Ranges as the clients may give them, and as the kernel makes them.
AskedRange == (Nat \cup {-1}) \X (Nat \cup {-1})
Regular(o, r) == r \in (0 .. Size[o]) \X (0 .. Size[o]) /\ r[1] <= r[2] + 1

LEMMA NormalizedIs ==
    ASSUME NEW o \in Object, NEW r \in AskedRange
    PROVE  Regular(o, Normalized(r, Size[o]))
<1>1. Size[o] \in Nat \ {0}
  BY GetAssumption
<1> DEFINE l == Size[o]
           first == IF r[1] # -1 THEN r[1] ELSE IF r[2] = -1 THEN 0 ELSE l - r[2]
           second == IF r[1] = -1 \/ r[2] = -1 THEN l - 1 ELSE r[1] + r[2] - 1
           p == IF first \in 0 .. l THEN first ELSE 0
           q == IF second \in 0 .. l THEN second ELSE l - 1
<1>2. r[1] \in Nat \cup {-1} /\ r[2] \in Nat \cup {-1}
  BY DEF AskedRange
<1> HIDE DEF l
<1>3. l \in Nat \ {0}
  BY <1>1 DEF l
<1>4. first \in Int /\ second \in Int
  BY <1>2, <1>3
<1>5. p \in 0 .. l /\ q \in 0 .. l
  BY <1>3, <1>4
<1>6. p <= q + 1
  <2>1. CASE r[1] = -1
    BY <1>2, <1>3, <2>1
  <2>2. CASE r[1] # -1
    BY <1>2, <1>3, <2>2
  <2> QED
    BY <2>1, <2>2
<1>7. Normalized(r, l) = <<p, q>>
  BY DEF Normalized
<1> HIDE DEF p, q
<1> QED
  BY <1>5, <1>6, <1>7 DEF l, Regular

\* What is sent of a chunk.
LEMMA PartIs ==
    ASSUME NEW o \in Object, NEW i \in Chunks(o), NEW r \in Int \X Int
    PROVE  \E from, to \in Nat :
              /\ PartOf(o, i, r) = Part(from, to)
              /\ from = IF Start(o, i) < r[1] THEN r[1] ELSE Start(o, i)
              /\ from < to => to = IF End(o, i) - 1 > r[2] THEN r[2] + 1 ELSE End(o, i)
              /\ from <= (IF End(o, i) - 1 > r[2] THEN r[2] + 1 ELSE End(o, i)) =>
                   to = IF End(o, i) - 1 > r[2] THEN r[2] + 1 ELSE End(o, i)
<1>1. Start(o, i) \in Nat /\ End(o, i) \in Nat
  BY ChunkEnds
<1>2. r[1] \in Int /\ r[2] \in Int
  OBVIOUS
<1> DEFINE from == IF Start(o, i) < r[1] THEN r[1] ELSE Start(o, i)
           end == IF End(o, i) - 1 > r[2] THEN r[2] + 1 ELSE End(o, i)
           to == IF end < from THEN from ELSE end
<1>3. from \in Nat /\ end \in Int
  BY <1>1, <1>2
<1>4. PartOf(o, i, r) = Part(from, to)
  BY DEF PartOf
<1> HIDE DEF from, end
<1>5. to \in Nat /\ (from < to => to = end) /\ (from <= end => to = end)
  BY <1>3
<1> HIDE DEF to
<1> QED
  BY <1>3, <1>4, <1>5 DEF from, end

LEMMA PartTypes ==
    ASSUME NEW o \in Object, NEW i \in Chunks(o), NEW r \in Int \X Int
    PROVE  PartOf(o, i, r) \in Message /\ PartOf(o, i, r).cmd = "chunk"
<1>1. PICK from \in Nat, to \in Nat : PartOf(o, i, r) = Part(from, to)
  BY PartIs
<1> QED
  BY <1>1 DEF Part, Message

\* A part with bytes begins where the one before ends, if that has bytes, too, or
\* with the range.
LEMMA PartsFollow ==
    ASSUME NEW o \in Object, NEW r, Regular(o, r), NEW i \in Chunks(o),
           HasBytes(PartOf(o, i, r))
    PROVE  /\ PartOf(o, i, r).to <= r[2] + 1
           /\ Start(o, i) <= r[1] => PartOf(o, i, r).from = r[1]
           /\ i - 1 \in Chunks(o) =>
                IF HasBytes(PartOf(o, i - 1, r)) THEN PartOf(o, i, r).from = PartOf(o, i - 1, r).to
                                                 ELSE PartOf(o, i, r).from = r[1]
<1>1. r \in Int \X Int /\ r[1] \in Nat /\ r[2] \in Nat
  BY GetAssumption DEF Regular
<1>2. PICK from \in Nat, to \in Nat :
              /\ PartOf(o, i, r) = Part(from, to)
              /\ from = IF Start(o, i) < r[1] THEN r[1] ELSE Start(o, i)
              /\ from < to => to = IF End(o, i) - 1 > r[2] THEN r[2] + 1 ELSE End(o, i)
  BY <1>1, PartIs
<1>3. from < to /\ PartOf(o, i, r).from = from /\ PartOf(o, i, r).to = to
  BY <1>2 DEF HasBytes, Part
<1>4. Start(o, i) \in Nat /\ End(o, i) \in Nat /\ Start(o, i) < End(o, i)
  BY ChunkEnds
<1>5. to <= r[2] + 1 /\ (Start(o, i) <= r[1] => from = r[1])
  BY <1>1, <1>2, <1>3, <1>4
<1>6. ASSUME i - 1 \in Chunks(o)
      PROVE  IF HasBytes(PartOf(o, i - 1, r)) THEN from = PartOf(o, i - 1, r).to
                                              ELSE from = r[1]
  <2> DEFINE j == i - 1
  <2>0. j \in Chunks(o) /\ j + 1 = i
    BY <1>6, ChunksOf
  <2> HIDE DEF j
  <2>1. PICK f \in Nat, t \in Nat :
              /\ PartOf(o, j, r) = Part(f, t)
              /\ f = IF Start(o, j) < r[1] THEN r[1] ELSE Start(o, j)
              /\ f < t => t = IF End(o, j) - 1 > r[2] THEN r[2] + 1 ELSE End(o, j)
              /\ f <= (IF End(o, j) - 1 > r[2] THEN r[2] + 1 ELSE End(o, j)) =>
                   t = IF End(o, j) - 1 > r[2] THEN r[2] + 1 ELSE End(o, j)
    BY <1>1, <2>0, PartIs
  <2>2. /\ Start(o, j) \in Nat /\ End(o, j) \in Nat /\ Start(o, j) < End(o, j)
        /\ End(o, j) = Start(o, i)
    BY <2>0, ChunkEnds
  <2>3. /\ HasBytes(PartOf(o, j, r)) <=> f < t
        /\ PartOf(o, j, r).to = t
    BY <2>1 DEF HasBytes, Part
  <2>4. IF f < t THEN from = t ELSE from = r[1]
    BY <1>1, <1>2, <1>3, <1>4, <2>1, <2>2
  <2> QED
    BY <2>3, <2>4 DEF j
<1> QED
  BY <1>3, <1>5, <1>6

-----------------------------------------------------------------------------
(* The inductive invariant. *)

\* A request of the storage that has not been answered.
Job(what, id) == [job |-> what, id |-> id]
AtStorage(s, id) == \E what \in {"look_up", "get"} : Job(what, id) \in ElementsOf(s.storage)
Waits(s, id) == id \in ElementsOf(s.pendingRouter)
AtKey(s, id) == id \in ElementsOf(s.key)

UnderWay(s, id) == AtStorage(s, id) \/ Waits(s, id) \/ id \in s.tenders \/ AtKey(s, id)

\* Not in two places.
PlaceOf(s, id) ==
    /\ Job("look_up", id) \in ElementsOf(s.storage) => Job("get", id) \notin ElementsOf(s.storage)
    /\ AtStorage(s, id) => ~ Waits(s, id) /\ id \notin s.tenders /\ ~ AtKey(s, id)
    /\ Waits(s, id) => id \notin s.tenders /\ ~ AtKey(s, id)
    /\ id \in s.tenders => ~ AtKey(s, id)

\* What is asked for is asked for in one place and once, and its request is there
\* when the answer comes.
OnePlace(s) ==
    /\ Once(s.storage) /\ Once(s.pendingRouter) /\ Once(s.key)
    /\ \A id \in Id : PlaceOf(s, id) /\ (UnderWay(s, id) => Known(s, id))

Listed(s, g) == g \in ElementsOf(s.waiting[s.uuid[g]])
Leads(s, g) == s.waiting[s.uuid[g]] # <<>> /\ g = s.waiting[s.uuid[g]][1]
ListOf(s, g) == s.chunk[s.uuid[g]]

\* The lists of requests hold those whose clients wait, and these only; a list of
\* chunks belongs to a list of requests, and what is not a piece is there.
Lists(s) ==
    /\ \A o \in Object :
        /\ Once(s.waiting[o])
        /\ \A g \in ElementsOf(s.waiting[o]) : s.uuid[g] = o /\ g \in s.ims /\ Known(s, Root(g))
        /\ s.chunk[o] # None =>
              /\ s.chunk[o] \in [Chunks(o) -> {"no", "requested", "available"}]
              /\ \A i \in Chunks(o) \ PiecesOf(o) : s.chunk[o][i] = "available"
              /\ o \in Media /\ s.waiting[o] # <<>>
    /\ \A g \in Get : Known(s, Root(g)) => Listed(s, g)

\* While the master is looked for, nothing else is, and nobody has a list.
Masters(s) ==
    \A g \in Get : UnderWay(s, Root(g)) =>
        /\ Leads(s, g) /\ ListOf(s, g) = None
        /\ \A id \in s.requests : IsPiece(id) => Parent(id) # g

\* The request of a piece belongs to a request that was made, and as long as this
\* waits, the piece is not asked for again: it is marked in the list of chunks, or
\* the leader of the object has asked for it.
Pieces(s) ==
    \A id \in s.requests : IsPiece(id) =>
        LET g == Parent(id)
        IN /\ id[2] \in PiecesOf(s.uuid[g])
           /\ g \in s.ims \/ s.told[g] # <<>>
           /\ Known(s, Root(g)) =>
                 IF s.uuid[g] \in Media THEN ListOf(s, g) # None /\ ListOf(s, g)[id[2]] # "no"
                                        ELSE Leads(s, g)

\* The pieces that are left to ask for have their requests.
Units(s) ==
    \A g \in Get : \A i \in s.units[g] :
        s.uuid[g] \notin Media /\ Known(s, <<g, i>>) /\ ~ UnderWay(s, <<g, i>>)

\* q is what a client is told that has got the chunks before curr.
IsStream(s, g, q) ==
    LET o == s.uuid[g]
        r == s.range[g]
        first == FirstChunk(o, r)
    IN /\ o \in Media /\ Regular(o, r)
       /\ s.last[g] = LastChunk(o, r)
       /\ first <= s.curr[g] /\ (s.curr[g] <= s.last[g] \/ s.curr[g] = first)
       /\ q = <<Prepare((s.last[g] - first) % Word)>>
              \o [n \in 1 .. s.curr[g] - first |-> PartOf(o, first + n - 1, r)]

\* What the clients have been told.
ToldOf(s, g) ==
    /\ \/ s.told[g] \in {<<>>, <<Data>>, <<Fail>>}
       \/ \E q \in Seq(Message) : IsStream(s, g, q) /\ s.told[g] \in {q, Append(q, Fail)}
    /\ Listed(s, g) => IF ListOf(s, g) = None THEN s.told[g] = <<>>
                                              ELSE IsStream(s, g, s.told[g])
    /\ s.told[g] = <<>> => s.range[g] \in AskedRange
Told(s) == \A g \in Get : ToldOf(s, g)

\* A stream that has an entry in m_ims_req_ids is in the list of its object until it
\* is cleaned, and never again.
Streams(s) ==
    \A g \in Get :
        /\ g \in s.ims => g \in s.cleaned \/ Listed(s, g)
        /\ g \in s.cleaned => s.told[g] # <<>> /\ ~ Listed(s, g)

PiecesAsked(s) == {id \in s.tenders : IsPiece(id)}
Counted(s) == s.routerSize <= Cardinality(PiecesAsked(s))
Settled(s) == s.pendingRouter # <<>> => s.routerSize >= MaxRouter

\* What every handler keeps, at each of the calls it is made of.
Good(s) ==
    /\ OnePlace(s) /\ Lists(s) /\ Masters(s) /\ Pieces(s) /\ Units(s) /\ Told(s)
    /\ Streams(s) /\ ~ s.aborted

IInv ==
    /\ k \in Kernel /\ stored \subseteq File /\ lost \in 0 .. MaxLost
    /\ Good(k) /\ Counted(k) /\ Settled(k)

-----------------------------------------------------------------------------
(* Ids, and the types of the kernel's fields *)

LEMMA RootFacts ==
    ASSUME NEW g \in Get
    PROVE  Root(g) \in Id /\ ~ IsPiece(Root(g)) /\ Parent(Root(g)) = g
BY DEF Root, Id, IsPiece, Parent

LEMMA PieceFacts ==
    ASSUME NEW g \in Get, NEW o \in Object, NEW i \in PiecesOf(o)
    PROVE  /\ <<g, i>> \in PieceId /\ <<g, i>> \in Id /\ i \in Nat
           /\ IsPiece(<<g, i>>) /\ Parent(<<g, i>>) = g /\ <<g, i>>[2] = i
<1>1. i \in Nat
  BY ChunksOf
<1> QED
  BY <1>1 DEF PieceId, Id, IsPiece, Parent

LEMMA IdFacts ==
    ASSUME NEW id \in Id
    PROVE  /\ Parent(id) \in Get /\ id = <<Parent(id), id[2]>>
           /\ IsPiece(id) => id \in PieceId /\ id[2] \in Nat
           /\ ~ IsPiece(id) => id = Root(Parent(id))
<1>1. CASE id \in {<<g, -1>> : g \in Get}
  BY <1>1 DEF IsPiece, Parent, Root
<1>2. CASE id \in PieceId
  <2>1. PICK g \in Get, o \in Object : id[1] = g /\ id[2] \in PiecesOf(o) /\ id = <<g, id[2]>>
    BY <1>2 DEF PieceId
  <2>2. id[2] \in Nat
    BY <2>1, ChunksOf
  <2> QED
    BY <1>2, <2>1, <2>2 DEF IsPiece, Parent
<1> QED
  BY <1>1, <1>2 DEF Id

\* There are finitely many ids.
LEMMA IdFinite == IsFiniteSet(Id)
<1> DEFINE f == [o \in Object |-> PiecesOf(o)]
           All == {PiecesOf(o) : o \in Object}
           Roots == {<<g, -1>> : g \in Get}
           h == [g \in Get |-> <<g, -1>>]
<1>1. f \in Surjection(Object, All)
  BY DEF Surjection
<1>2. IsFiniteSet(All)
  <2> HIDE DEF f, All
  <2> QED BY <1>1, FS_Surjection, GetAssumption
<1>3. ASSUME NEW o \in Object PROVE IsFiniteSet(PiecesOf(o))
  <2>1. Number(o) - 1 \in Int /\ PiecesOf(o) \subseteq 0 .. Number(o) - 1
    BY ChunksOf
  <2>2. IsFiniteSet(0 .. Number(o) - 1)
    BY <2>1, FS_Interval
  <2> QED BY <2>1, <2>2, FS_Subset
<1>4. \A P \in All : IsFiniteSet(P)
  BY <1>3
<1>5. IsFiniteSet(UNION {PiecesOf(o) : o \in Object})
  <2>1. IsFiniteSet(UNION All)
    <3> HIDE DEF All
    <3> QED BY <1>2, <1>4, FS_UNION
  <2> QED BY <2>1
<1>6. IsFiniteSet(PieceId)
  BY <1>5, FS_Product, GetAssumption DEF PieceId
<1>7. h \in Surjection(Get, Roots)
  BY DEF Surjection
<1>8. IsFiniteSet(Roots)
  <2> HIDE DEF h, Roots
  <2> QED BY <1>7, FS_Surjection, GetAssumption
<1>9. Id = Roots \cup PieceId
  BY DEF Id
<1> HIDE DEF Roots
<1> QED
  BY <1>6, <1>8, <1>9, FS_Union

JobType == [job : {"look_up", "get"}, id : Id]

LEMMA KernelTypes ==
    ASSUME NEW s \in Kernel
    PROVE  /\ s.uuid \in [Get -> Object] /\ s.requests \subseteq Id /\ s.ims \subseteq Get
           /\ s.cleaned \subseteq Get
           /\ s.waiting \in [Object -> Seq(Get)]
           /\ s.units \in [Get -> SUBSET Nat] /\ s.missing \in [Get -> SUBSET Nat]
           /\ DOMAIN s.chunk = Object
           /\ s.range \in [Get -> Int \X Int]
           /\ s.curr \in [Get -> Nat] /\ s.last \in [Get -> Nat]
           /\ s.pendingRouter \in Seq(PieceId) /\ s.routerSize \in Nat
           /\ s.blocked \in BOOLEAN
           /\ s.storage \in Seq(JobType) /\ s.cache \subseteq File
           /\ s.key \in Seq(Id) /\ s.tenders \subseteq Id
           /\ s.told \in [Get -> Seq(Message)] /\ s.aborted \in BOOLEAN
BY DEF Kernel, JobType

\* The fields of the kernel; t differs from s in the fields F only.
Fields == {"uuid", "requests", "ims", "cleaned", "waiting", "units", "missing", "chunk",
           "range", "curr", "last", "pendingRouter", "routerSize", "blocked", "storage", "cache", "key",
           "tenders", "told", "aborted"}
Only(s, t, F) == \A f \in Fields \ F : t[f] = s[f]

\* poco_assert does nothing when its condition holds.
LEMMA RequireIs ==
    ASSUME NEW s \in Kernel, NEW holds \in BOOLEAN, holds
    PROVE  Require(holds, s) = s
BY DEF Require, Kernel

-----------------------------------------------------------------------------
(* What is asked for *)

\* The answer for id has come, and what it needs is still so.
Ready(s, id) ==
    /\ Known(s, id) /\ ~ UnderWay(s, id)
    /\ IsPiece(id) => id[2] \notin s.units[Parent(id)]
    /\ ~ IsPiece(id) =>
          /\ Leads(s, Parent(id)) /\ ListOf(s, Parent(id)) = None
          /\ \A x \in s.requests : IsPiece(x) => Parent(x) # Parent(id)

LEMMA IsStreamSame ==
    ASSUME NEW s, NEW t, NEW g, NEW q, t.uuid[g] = s.uuid[g], t.range[g] = s.range[g],
           t.curr[g] = s.curr[g], t.last[g] = s.last[g]
    PROVE  IsStream(t, g, q) <=> IsStream(s, g, q)
BY ZenonT(30) DEF IsStream

\* A client is told more, and what it was told stays; of a stream that was cleaned
\* it is told nothing.
Longer(a, b) == Len(a) <= Len(b) /\ \A i \in 1 .. Len(a) : b[i] = a[i]
Grows(s, t) ==
    /\ s.cleaned \subseteq t.cleaned
    /\ \A g \in Get : /\ Longer(s.told[g], t.told[g])
                      /\ g \in s.cleaned => t.told[g] = s.told[g]

\* The same lists, and nobody told less.
LEMMA StreamsSame ==
    ASSUME NEW s, NEW t, Streams(s), t.uuid = s.uuid, t.waiting = s.waiting, t.ims = s.ims,
           t.cleaned = s.cleaned, \A g \in Get : s.told[g] # <<>> => t.told[g] # <<>>
    PROVE  Streams(t)
BY DEF Streams, Listed

\* A client that is told more has been told something.
LEMMA StreamsGrow ==
    ASSUME NEW s \in Kernel, NEW t \in Kernel, Streams(s), t.uuid = s.uuid,
           t.waiting = s.waiting, t.ims = s.ims, t.cleaned = s.cleaned, Grows(s, t)
    PROVE  Streams(t)
<1> SUFFICES ASSUME NEW g \in Get, s.told[g] # <<>> PROVE t.told[g] # <<>>
  BY StreamsSame
<1>1. s.told[g] \in Seq(Message) /\ t.told[g] \in Seq(Message) /\ Longer(s.told[g], t.told[g])
  BY KernelTypes DEF Grows
<1> QED
  BY <1>1 DEF Longer

\* Questions and answers: only what is ready is asked for.
LEMMA AskingGood ==
    ASSUME NEW s \in Kernel, Good(s), NEW t \in Kernel,
           Only(s, t, {"storage", "pendingRouter", "key", "tenders", "routerSize", "cache"}),
           OnePlace(t),
           \A x \in Id : UnderWay(t, x) => UnderWay(s, x) \/ Ready(s, x)
    PROVE  Good(t)
<1>1. /\ t.uuid = s.uuid /\ t.requests = s.requests /\ t.ims = s.ims
      /\ t.waiting = s.waiting /\ t.units = s.units /\ t.chunk = s.chunk
      /\ t.range = s.range /\ t.curr = s.curr /\ t.last = s.last /\ t.told = s.told
      /\ t.aborted = s.aborted /\ t.cleaned = s.cleaned
  BY DEF Only, Fields
<1>2. Lists(t)
  BY <1>1 DEF Good, Lists, Listed, Known
<1>3. Pieces(t)
  BY <1>1 DEF Good, Pieces, Known, ListOf, Leads
<1>4. Told(t)
  <2>1. \A g, q : IsStream(t, g, q) <=> IsStream(s, g, q)
    BY <1>1, IsStreamSame
  <2> QED
    BY <1>1, <2>1 DEF Good, Told, ToldOf, Listed, ListOf
<1>5. Masters(t)
  <2> SUFFICES ASSUME NEW g \in Get, UnderWay(t, Root(g))
               PROVE  /\ Leads(s, g) /\ ListOf(s, g) = None
                      /\ \A id \in s.requests : IsPiece(id) => Parent(id) # g
    BY <1>1 DEF Masters, Leads, ListOf
  <2>1. Root(g) \in Id /\ ~ IsPiece(Root(g)) /\ Parent(Root(g)) = g
    BY RootFacts
  <2>2. UnderWay(s, Root(g)) \/ Ready(s, Root(g))
    BY <2>1
  <2> QED
    BY <2>1, <2>2 DEF Good, Masters, Ready
<1>6. Units(t)
  <2> SUFFICES ASSUME NEW g \in Get, NEW i \in s.units[g]
               PROVE  /\ s.uuid[g] \notin Media /\ Known(s, <<g, i>>)
                      /\ ~ UnderWay(t, <<g, i>>)
    BY <1>1 DEF Units, Known
  <2>1. s.uuid[g] \notin Media /\ Known(s, <<g, i>>) /\ ~ UnderWay(s, <<g, i>>)
    BY DEF Good, Units
  <2>2. <<g, i>> \in Id /\ i \in Nat
    BY <2>1, KernelTypes DEF Known
  <2>3. IsPiece(<<g, i>>) /\ Parent(<<g, i>>) = g
    BY <2>2 DEF IsPiece, Parent
  <2>4. ~ Ready(s, <<g, i>>)
    BY <2>3 DEF Ready
  <2> QED
    BY <2>1, <2>2, <2>4
<1>7. Streams(t)
  BY <1>1, StreamsSame DEF Good
<1> QED
  BY <1>1, <1>2, <1>3, <1>4, <1>5, <1>6, <1>7 DEF Good

\* The account of the router's places is untouched, and nobody is told anything.
SameAccount(s, t) ==
    /\ t.routerSize = s.routerSize /\ t.pendingRouter = s.pendingRouter /\ t.tenders = s.tenders

\* x is in no place in t that it was not in.
LessThere(s, t, x) ==
    /\ \A w \in {"look_up", "get"} :
          Job(w, x) \in ElementsOf(t.storage) => Job(w, x) \in ElementsOf(s.storage)
    /\ Waits(t, x) => Waits(s, x)
    /\ x \in t.tenders => x \in s.tenders
    /\ AtKey(t, x) => AtKey(s, x)

LEMMA StillPlaced ==
    ASSUME NEW s, NEW t, OnePlace(s), Once(t.storage), Once(t.pendingRouter), Once(t.key),
           \A x \in Id : LessThere(s, t, x) \/ (PlaceOf(t, x) /\ Known(t, x)),
           \A x \in Id : UnderWay(s, x) /\ Known(s, x) => Known(t, x)
    PROVE  OnePlace(t)
<1>1. ASSUME NEW x \in Id, LessThere(s, t, x) PROVE PlaceOf(t, x) /\ (UnderWay(t, x) => Known(t, x))
  <2>1. PlaceOf(s, x) /\ (UnderWay(s, x) => Known(s, x))
    BY DEF OnePlace
  <2>2. AtStorage(t, x) => AtStorage(s, x)
    BY <1>1 DEF LessThere, AtStorage
  <2>3. PlaceOf(t, x)
    BY <1>1, <2>1, <2>2 DEF PlaceOf, LessThere
  <2>4. UnderWay(t, x) => UnderWay(s, x)
    BY <1>1, <2>2 DEF UnderWay, LessThere
  <2> QED
    BY <2>1, <2>3, <2>4
<1> QED
  BY <1>1 DEF OnePlace

\* The storage is asked.
LEMMA AskGood ==
    ASSUME NEW s \in Kernel, Good(s), NEW what \in {"look_up", "get"}, NEW id \in Id, Ready(s, id)
    PROVE  /\ Ask(s, what, id) \in Kernel /\ Good(Ask(s, what, id))
           /\ Only(s, Ask(s, what, id), {"storage"})
           /\ \A x \in Id : UnderWay(Ask(s, what, id), x) <=> UnderWay(s, x) \/ x = id
<1> DEFINE q == Append(s.storage, Job(what, id))
           t == [s EXCEPT !.storage = q]
<1>1. s.storage \in Seq(JobType) /\ Job(what, id) \in JobType
  BY KernelTypes DEF Job, JobType
<1>2. /\ q \in Seq(JobType) /\ ElementsOf(q) = ElementsOf(s.storage) \cup {Job(what, id)}
      /\ Once(q) <=> Once(s.storage) /\ Job(what, id) \notin ElementsOf(s.storage)
  BY <1>1, AppendedElements
<1>3. Ask(s, what, id) = t
  BY DEF Ask, Job
<1> HIDE DEF q
<1>4. t \in Kernel /\ Only(s, t, {"storage"}) /\ t.storage = q
  BY <1>2 DEF Kernel, Only, Fields, JobType
<1> HIDE DEF t
<1>5. \A x : AtStorage(t, x) <=> AtStorage(s, x) \/ x = id
  BY <1>2, <1>4 DEF AtStorage, Job
<1>6. /\ t.pendingRouter = s.pendingRouter /\ t.tenders = s.tenders /\ t.key = s.key
      /\ t.requests = s.requests
  BY <1>4 DEF Only, Fields
<1>7. \A x : UnderWay(t, x) <=> UnderWay(s, x) \/ x = id
  BY <1>5, <1>6 DEF UnderWay, Waits, AtKey
<1>8. OnePlace(t)
  <2>1. Once(t.storage) /\ Once(t.pendingRouter) /\ Once(t.key)
    BY <1>2, <1>4, <1>6 DEF Good, OnePlace, Ready, UnderWay, AtStorage
  <2>2. PlaceOf(t, id) /\ Known(t, id)
    <3>1. \A w \in {"look_up", "get"} : Job(w, id) \in ElementsOf(t.storage) <=> w = what
      BY <1>2, <1>4 DEF Job, Ready, UnderWay, AtStorage
    <3>2. ~ Waits(s, id) /\ id \notin s.tenders /\ ~ AtKey(s, id) /\ Known(s, id)
      BY DEF Ready, UnderWay
    <3> QED
      BY <1>6, <3>1, <3>2 DEF PlaceOf, Waits, AtKey, Known
  <2>3. ASSUME NEW x \in Id, x # id PROVE LessThere(s, t, x)
    BY <1>2, <1>4, <1>6, <2>3 DEF LessThere, Waits, AtKey, Job
  <2>11. \A x \in Id : LessThere(s, t, x) \/ (PlaceOf(t, x) /\ Known(t, x))
    BY <2>2, <2>3
  <2>12. OnePlace(s) /\ \A x \in Id : UnderWay(s, x) /\ Known(s, x) => Known(t, x)
    BY <1>6 DEF Good, Known
  <2> QED
    BY <2>1, <2>11, <2>12, StillPlaced
<1>9. Good(t)
  <2>1. Only(s, t, {"storage", "pendingRouter", "key", "tenders", "routerSize", "cache"})
    BY <1>4 DEF Only
  <2> QED
    BY <1>4, <1>7, <1>8, <2>1, AskingGood
<1> QED
  BY <1>3, <1>4, <1>7, <1>9

\* The key manager is asked.
LEMMA ToKeyGood ==
    ASSUME NEW s \in Kernel, Good(s), NEW id \in Id, Ready(s, id),
           NEW t, t = [s EXCEPT !.key = Append(@, id)]
    PROVE  t \in Kernel /\ Good(t) /\ Only(s, t, {"key"})
<1> DEFINE q == Append(s.key, id)
<1>1. /\ q \in Seq(Id) /\ ElementsOf(q) = ElementsOf(s.key) \cup {id}
      /\ Once(q) <=> Once(s.key) /\ id \notin ElementsOf(s.key)
  BY KernelTypes, AppendedElements
<1>2. t = [s EXCEPT !.key = q]
  OBVIOUS
<1> HIDE DEF q
<1>3. t \in Kernel /\ Only(s, t, {"key"}) /\ t.key = q
  BY <1>1, <1>2 DEF Kernel, Only, Fields
<1>4. /\ t.pendingRouter = s.pendingRouter /\ t.tenders = s.tenders /\ t.storage = s.storage
      /\ t.requests = s.requests
  BY <1>3 DEF Only, Fields
<1>5. Once(t.storage) /\ Once(t.pendingRouter) /\ Once(t.key)
  BY <1>1, <1>3, <1>4 DEF Good, OnePlace, Ready, UnderWay, AtKey
<1>6. PlaceOf(t, id) /\ Known(t, id)
  BY <1>1, <1>3, <1>4 DEF Ready, UnderWay, PlaceOf, Waits, AtKey, Known, AtStorage
<1>7. ASSUME NEW x \in Id, x # id PROVE LessThere(s, t, x) /\ (UnderWay(t, x) => UnderWay(s, x))
  BY <1>1, <1>3, <1>4, <1>7 DEF LessThere, Waits, AtKey, UnderWay, AtStorage
<1>8. OnePlace(t)
  <2>11. \A x \in Id : LessThere(s, t, x) \/ (PlaceOf(t, x) /\ Known(t, x))
    BY <1>6, <1>7
  <2>12. OnePlace(s) /\ \A x \in Id : UnderWay(s, x) /\ Known(s, x) => Known(t, x)
    BY <1>4 DEF Good, Known
  <2> QED
    BY <1>5, <2>11, <2>12, StillPlaced
<1>9. Good(t)
  <2>1. Only(s, t, {"storage", "pendingRouter", "key", "tenders", "routerSize", "cache"})
    BY <1>3 DEF Only
  <2> QED
    BY <1>3, <1>7, <1>8, <2>1, AskingGood
<1> QED
  BY <1>3, <1>9

\* The router is asked for a master.
LEMMA ToTenderGood ==
    ASSUME NEW s \in Kernel, Good(s), NEW id \in Id, Ready(s, id),
           NEW t, t = [s EXCEPT !.tenders = @ \cup {id}]
    PROVE  t \in Kernel /\ Good(t) /\ Only(s, t, {"tenders"})
<1>1. s.tenders \cup {id} \subseteq Id
  BY KernelTypes
<1>2. t \in Kernel /\ Only(s, t, {"tenders"}) /\ t.tenders = s.tenders \cup {id}
  BY <1>1 DEF Kernel, Only, Fields
<1>3. /\ t.pendingRouter = s.pendingRouter /\ t.key = s.key /\ t.storage = s.storage
      /\ t.requests = s.requests
  BY <1>2 DEF Only, Fields
<1>4. Once(t.storage) /\ Once(t.pendingRouter) /\ Once(t.key)
  BY <1>3 DEF Good, OnePlace
<1>5. PlaceOf(t, id) /\ Known(t, id)
  BY <1>2, <1>3 DEF Ready, UnderWay, PlaceOf, Waits, AtKey, Known, AtStorage
<1>6. ASSUME NEW x \in Id, x # id PROVE LessThere(s, t, x) /\ (UnderWay(t, x) => UnderWay(s, x))
  BY <1>2, <1>3, <1>6 DEF LessThere, Waits, AtKey, UnderWay, AtStorage
<1>7. OnePlace(t)
  <2>11. \A x \in Id : LessThere(s, t, x) \/ (PlaceOf(t, x) /\ Known(t, x))
    BY <1>5, <1>6
  <2>12. OnePlace(s) /\ \A x \in Id : UnderWay(s, x) /\ Known(s, x) => Known(t, x)
    BY <1>3 DEF Good, Known
  <2> QED
    BY <1>4, <2>11, <2>12, StillPlaced
<1>8. Good(t)
  <2>1. Only(s, t, {"storage", "pendingRouter", "key", "tenders", "routerSize", "cache"})
    BY <1>2 DEF Only
  <2> QED
    BY <1>2, <1>6, <1>7, <2>1, AskingGood
<1> QED
  BY <1>2, <1>8

\* A piece waits for the router.
LEMMA ToPendingGood ==
    ASSUME NEW s \in Kernel, Good(s), NEW id \in PieceId, id \in Id, Ready(s, id),
           NEW t, t = [s EXCEPT !.pendingRouter = Append(@, id)]
    PROVE  t \in Kernel /\ Good(t) /\ Only(s, t, {"pendingRouter"})
<1> DEFINE q == Append(s.pendingRouter, id)
<1>1. /\ q \in Seq(PieceId) /\ ElementsOf(q) = ElementsOf(s.pendingRouter) \cup {id}
      /\ Once(q) <=> Once(s.pendingRouter) /\ id \notin ElementsOf(s.pendingRouter)
  BY KernelTypes, AppendedElements
<1>2. t = [s EXCEPT !.pendingRouter = q]
  OBVIOUS
<1> HIDE DEF q
<1>3. t \in Kernel /\ Only(s, t, {"pendingRouter"}) /\ t.pendingRouter = q
  BY <1>1, <1>2 DEF Kernel, Only, Fields
<1>4. /\ t.key = s.key /\ t.tenders = s.tenders /\ t.storage = s.storage
      /\ t.requests = s.requests
  BY <1>3 DEF Only, Fields
<1>5. Once(t.storage) /\ Once(t.pendingRouter) /\ Once(t.key)
  BY <1>1, <1>3, <1>4 DEF Good, OnePlace, Ready, UnderWay, Waits
<1>6. PlaceOf(t, id) /\ Known(t, id)
  BY <1>1, <1>3, <1>4 DEF Ready, UnderWay, PlaceOf, Waits, AtKey, Known, AtStorage
<1>7. ASSUME NEW x \in Id, x # id PROVE LessThere(s, t, x) /\ (UnderWay(t, x) => UnderWay(s, x))
  BY <1>1, <1>3, <1>4, <1>7 DEF LessThere, Waits, AtKey, UnderWay, AtStorage
<1>8. OnePlace(t)
  <2>11. \A x \in Id : LessThere(s, t, x) \/ (PlaceOf(t, x) /\ Known(t, x))
    BY <1>6, <1>7
  <2>12. OnePlace(s) /\ \A x \in Id : UnderWay(s, x) /\ Known(s, x) => Known(t, x)
    BY <1>4 DEF Good, Known
  <2> QED
    BY <1>5, <2>11, <2>12, StillPlaced
<1>9. Good(t)
  <2>1. Only(s, t, {"storage", "pendingRouter", "key", "tenders", "routerSize", "cache"})
    BY <1>3 DEF Only
  <2> QED
    BY <1>3, <1>7, <1>8, <2>1, AskingGood
<1> QED
  BY <1>3, <1>9

\* What passes to the router from the pieces that wait.
LEMMA PassingIs ==
    ASSUME NEW s \in Kernel
    PROVE  /\ Passing(s) \in 0 .. Len(s.pendingRouter)
           /\ Passing(s) < Len(s.pendingRouter) => s.routerSize + Passing(s) >= MaxRouter
<1>1. s.routerSize \in Nat /\ MaxRouter \in Nat /\ Len(s.pendingRouter) \in Nat
  BY KernelTypes, GetLimits
<1> DEFINE free == IF s.routerSize < MaxRouter THEN MaxRouter - s.routerSize ELSE 0
<1>2. free \in Nat /\ s.routerSize + free >= MaxRouter
  BY <1>1
<1>3. Passing(s) = IF free < Len(s.pendingRouter) THEN free ELSE Len(s.pendingRouter)
  BY DEF Passing
<1> HIDE DEF free
<1> QED
  BY <1>1, <1>2, <1>3

LEMMA PiecesAskedFinite ==
    ASSUME NEW s \in Kernel
    PROVE  IsFiniteSet(PiecesAsked(s)) /\ Cardinality(PiecesAsked(s)) \in Nat
<1>1. PiecesAsked(s) \subseteq Id
  BY KernelTypes DEF PiecesAsked
<1> QED
  BY <1>1, IdFinite, FS_Subset, FS_CardinalityType

\* process_router_pending_get_requests: pieces move from one place to another, and
\* each of them is counted.
LEMMA ProcessGood ==
    ASSUME NEW s \in Kernel, Good(s), NEW t, t = ProcessRouterPending(s)
    PROVE  /\ t \in Kernel /\ Good(t) /\ Only(s, t, {"tenders", "pendingRouter", "routerSize"})
           /\ Counted(s) => Counted(t)
           /\ Settled(t)
           /\ \A x \in Id : UnderWay(t, x) <=> UnderWay(s, x)
<1> DEFINE us == s.pendingRouter
           n == Passing(s)
           now == Front(us, n)
           later == Behind(us, n)
           v == [s EXCEPT !.routerSize = @ + n, !.tenders = @ \cup ElementsOf(now),
                          !.pendingRouter = later]
<1>1. us \in Seq(PieceId) /\ s.routerSize \in Nat /\ s.tenders \subseteq Id
  BY KernelTypes
<1>2. n \in 0 .. Len(us) /\ (n < Len(us) => s.routerSize + n >= MaxRouter)
  BY PassingIs
<1> HIDE DEF n
<1>3. Once(us) /\ \A x \in ElementsOf(us) : x \in Id /\ IsPiece(x) /\ Known(s, x)
  <2>1. \A x \in ElementsOf(us) : x \in PieceId
    BY <1>1 DEF ElementsOf
  <2>2. \A x \in PieceId : x \in Id /\ IsPiece(x)
    <3> SUFFICES ASSUME NEW x \in PieceId PROVE x \in Id /\ IsPiece(x)
      OBVIOUS
    <3>1. PICK o \in Object : x[1] \in Get /\ x[2] \in PiecesOf(o) /\ x = <<x[1], x[2]>>
      BY DEF PieceId
    <3> QED
      BY <3>1, PieceFacts
  <2>3. \A x \in Id : Waits(s, x) => Known(s, x)
    BY DEF Good, OnePlace, UnderWay
  <2> QED
    BY <2>1, <2>2, <2>3 DEF Good, OnePlace, Waits
<1>4. /\ now \in Seq(PieceId) /\ later \in Seq(PieceId) /\ Len(now) = n
      /\ ElementsOf(us) = ElementsOf(now) \cup ElementsOf(later)
      /\ Once(now) /\ Once(later) /\ ElementsOf(now) \cap ElementsOf(later) = {}
  BY <1>1, <1>2, <1>3, CutElements
<1>5. later # <<>> => n < Len(us)
  BY <1>1, <1>2 DEF Behind
<1>6. t = v /\ v \in Kernel
  <2>1. us = s.pendingRouter /\ ElementsOf(us) \subseteq s.requests
    BY <1>3 DEF Known
  <2>2. t = Require(ElementsOf(us) \subseteq s.requests, v)
    BY DEF ProcessRouterPending, n
  <2>3. v \in Kernel
    <3>1. s.routerSize + n \in Nat /\ s.tenders \cup ElementsOf(now) \subseteq Id
      BY <1>1, <1>2, <1>3, <1>4
    <3> HIDE DEF now, later
    <3> QED
      BY <1>4, <3>1 DEF Kernel
  <2> HIDE DEF v
  <2> QED
    BY <2>1, <2>2, <2>3, RequireIs
<1>7. /\ t \in Kernel /\ Only(s, t, {"tenders", "pendingRouter", "routerSize"})
      /\ t.tenders = s.tenders \cup ElementsOf(now) /\ t.pendingRouter = later
      /\ t.routerSize = s.routerSize + n
  <2> HIDE DEF now, later
  <2>1. Only(s, t, {"tenders", "pendingRouter", "routerSize"})
    BY <1>6 DEF Kernel, Only, Fields
  <2>2. /\ t.tenders = s.tenders \cup ElementsOf(now) /\ t.pendingRouter = later
        /\ t.routerSize = s.routerSize + n
    BY <1>6 DEF Kernel
  <2> QED
    BY <1>6, <2>1, <2>2
<1> HIDE DEF v, now, later
<1>8. t.key = s.key /\ t.storage = s.storage /\ t.requests = s.requests
  BY <1>7 DEF Only, Fields
<1>9. ASSUME NEW x \in Id
      PROVE  /\ UnderWay(t, x) <=> UnderWay(s, x)
             /\ PlaceOf(t, x)
  <2>1. PlaceOf(s, x)
    BY DEF Good, OnePlace
  <2>2. Waits(s, x) <=> x \in ElementsOf(now) \/ x \in ElementsOf(later)
    BY <1>4 DEF Waits
  <2>3. /\ AtStorage(t, x) <=> AtStorage(s, x)
        /\ AtKey(t, x) <=> AtKey(s, x)
        /\ Waits(t, x) <=> x \in ElementsOf(later)
        /\ x \in t.tenders <=> x \in s.tenders \/ x \in ElementsOf(now)
    BY <1>7, <1>8 DEF AtStorage, AtKey, Waits
  <2>4. x \in ElementsOf(now) => x \notin ElementsOf(later)
    BY <1>4
  <2>5. UnderWay(t, x) <=> UnderWay(s, x)
    BY <2>2, <2>3 DEF UnderWay
  <2>6. PlaceOf(t, x)
    BY <1>8, <2>1, <2>2, <2>3, <2>4 DEF PlaceOf
  <2> QED
    BY <2>5, <2>6
<1>10. OnePlace(t)
  BY <1>4, <1>7, <1>8, <1>9 DEF Good, OnePlace, Known
<1>11. Good(t)
  <2>1. Only(s, t, {"storage", "pendingRouter", "key", "tenders", "routerSize", "cache"})
    BY <1>7 DEF Only
  <2> QED
    BY <1>7, <1>9, <1>10, <2>1, AskingGood
<1>12. ASSUME Counted(s) PROVE Counted(t)
  <2>1. ElementsOf(now) \cap PiecesAsked(s) = {}
    <3>1. \A x \in ElementsOf(now) : Waits(s, x) /\ x \in Id
      BY <1>3, <1>4 DEF Waits
    <3>2. \A x \in Id : Waits(s, x) => x \notin s.tenders
      BY DEF Good, OnePlace, PlaceOf
    <3> QED
      BY <3>1, <3>2 DEF PiecesAsked
  <2>2. PiecesAsked(t) = PiecesAsked(s) \cup ElementsOf(now)
    BY <1>3, <1>4, <1>7 DEF PiecesAsked
  <2>3. IsFiniteSet(ElementsOf(now)) /\ Cardinality(ElementsOf(now)) = n
    BY <1>4, FiniteElements
  <2>4. Cardinality(PiecesAsked(t)) = Cardinality(PiecesAsked(s)) + n
    <3>1. PiecesAsked(s) \cap ElementsOf(now) = {}
      BY <2>1
    <3>2. Cardinality(PiecesAsked(s) \cap ElementsOf(now)) = 0
      BY <3>1, FS_EmptySet
    <3> QED
      BY <1>2, <2>2, <2>3, <3>2, PiecesAskedFinite, FS_Union
  <2> QED
    BY <1>1, <1>2, <1>7, <1>12, <2>4, PiecesAskedFinite DEF Counted
<1>13. Settled(t)
  BY <1>2, <1>5, <1>7 DEF Settled
<1> QED
  BY <1>7, <1>9, <1>11, <1>12, <1>13

\* reduce_router_get_input_size
LEMMA ReduceGood ==
    ASSUME NEW s \in Kernel, Good(s), NEW t, t = ReduceRouterSize(s)
    PROVE  /\ t \in Kernel /\ Good(t) /\ Only(s, t, {"routerSize"})
           /\ s.routerSize <= Cardinality(PiecesAsked(s)) + 1 => Counted(t)
           /\ \A x \in Id : UnderWay(t, x) <=> UnderWay(s, x)
<1> DEFINE n == IF s.routerSize > 0 THEN s.routerSize - 1 ELSE 0
<1>1. s.routerSize \in Nat /\ n \in Nat /\ (n = 0 \/ n = s.routerSize - 1)
  BY KernelTypes
<1>2. t = [s EXCEPT !.routerSize = n]
  BY DEF ReduceRouterSize
<1> HIDE DEF n
<1>3. t \in Kernel /\ Only(s, t, {"routerSize"}) /\ t.routerSize = n
  BY <1>1, <1>2 DEF Kernel, Only, Fields
<1>4. /\ t.key = s.key /\ t.storage = s.storage /\ t.requests = s.requests
      /\ t.pendingRouter = s.pendingRouter /\ t.tenders = s.tenders
  BY <1>3 DEF Only, Fields
<1>5. \A x : UnderWay(t, x) <=> UnderWay(s, x)
  BY <1>4 DEF UnderWay, AtStorage, Waits, AtKey
<1>6. OnePlace(t)
  BY <1>4 DEF Good, OnePlace, PlaceOf, UnderWay, AtStorage, Waits, AtKey, Known
<1>7. Good(t)
  <2>1. Only(s, t, {"storage", "pendingRouter", "key", "tenders", "routerSize", "cache"})
    BY <1>3 DEF Only
  <2> QED
    BY <1>3, <1>5, <1>6, <2>1, AskingGood
<1>8. ASSUME s.routerSize <= Cardinality(PiecesAsked(s)) + 1 PROVE Counted(t)
  <2>1. PiecesAsked(t) = PiecesAsked(s)
    BY <1>4 DEF PiecesAsked
  <2> QED
    BY <1>1, <1>3, <1>8, <2>1, PiecesAskedFinite DEF Counted
<1> QED
  BY <1>3, <1>5, <1>7, <1>8

\* What comes back is ready.
LEMMA TakenReady ==
    ASSUME NEW s \in Kernel, Good(s), NEW t,
           Only(s, t, {"storage", "pendingRouter", "key", "tenders", "routerSize", "cache"}),
           NEW id \in Id, UnderWay(s, id), ~ UnderWay(t, id)
    PROVE  Ready(t, id)
<1>1. /\ t.requests = s.requests /\ t.units = s.units /\ t.waiting = s.waiting
      /\ t.uuid = s.uuid /\ t.chunk = s.chunk
  BY DEF Only, Fields
<1>2. Known(t, id)
  BY <1>1 DEF Good, OnePlace, Known
<1>3. ASSUME IsPiece(id) PROVE id[2] \notin s.units[Parent(id)]
  <2>1. Parent(id) \in Get /\ id = <<Parent(id), id[2]>>
    BY IdFacts
  <2> QED
    BY <2>1 DEF Good, Units
<1>4. ASSUME ~ IsPiece(id)
      PROVE  /\ Leads(s, Parent(id)) /\ ListOf(s, Parent(id)) = None
             /\ \A x \in s.requests : IsPiece(x) => Parent(x) # Parent(id)
  <2>1. Parent(id) \in Get /\ id = Root(Parent(id))
    BY <1>4, IdFacts
  <2> QED
    BY <2>1 DEF Good, Masters
<1> QED
  BY <1>1, <1>2, <1>3, <1>4 DEF Ready, Leads, ListOf

\* The storage has answered.
LEMMA StorageTaken ==
    ASSUME NEW s \in Kernel, Good(s), s.storage # <<>>, NEW t, t = [s EXCEPT !.storage = Tail(@)]
    PROVE  /\ Head(s.storage) \in JobType
           /\ t \in Kernel /\ Good(t) /\ Only(s, t, {"storage"}) /\ Ready(t, Head(s.storage).id)
<1>1. /\ Head(s.storage) \in JobType /\ Tail(s.storage) \in Seq(JobType)
      /\ ElementsOf(s.storage) = ElementsOf(Tail(s.storage)) \cup {Head(s.storage)}
      /\ Once(s.storage) <=> Once(Tail(s.storage))
                             /\ Head(s.storage) \notin ElementsOf(Tail(s.storage))
  BY KernelTypes, TailElements
<1> DEFINE q == Tail(s.storage)
           h == Head(s.storage)
           id == h.id
<1>2. t = [s EXCEPT !.storage = q]
  OBVIOUS
<1>3. id \in Id /\ h.job \in {"look_up", "get"} /\ h = Job(h.job, id)
  BY <1>1 DEF JobType, Job
<1> HIDE DEF q, h
<1>4. t \in Kernel /\ Only(s, t, {"storage"}) /\ t.storage = q
  BY <1>1, <1>2 DEF Kernel, Only, Fields, JobType, q
<1>5. /\ t.pendingRouter = s.pendingRouter /\ t.tenders = s.tenders /\ t.key = s.key
      /\ t.requests = s.requests
  BY <1>4 DEF Only, Fields
<1>6. Only(s, t, {"storage", "pendingRouter", "key", "tenders", "routerSize", "cache"})
  BY <1>4 DEF Only
<1>7. ASSUME NEW x \in Id PROVE LessThere(s, t, x)
  BY <1>1, <1>4, <1>5 DEF LessThere, Waits, AtKey, q
<1>8. \A x \in Id : UnderWay(t, x) => UnderWay(s, x)
  BY <1>7 DEF LessThere, UnderWay, AtStorage
<1>9. Once(t.storage) /\ Once(t.pendingRouter) /\ Once(t.key)
  BY <1>1, <1>4, <1>5 DEF Good, OnePlace, q
<1>10. OnePlace(t)
  <2>1. OnePlace(s) /\ \A x \in Id : UnderWay(s, x) /\ Known(s, x) => Known(t, x)
    BY <1>5 DEF Good, Known
  <2> QED
    BY <1>7, <1>9, <2>1, StillPlaced
<1>11. Good(t)
  BY <1>4, <1>6, <1>8, <1>10, AskingGood
<1>12. UnderWay(s, id) /\ ~ UnderWay(t, id)
  <2>1. Job(h.job, id) \in ElementsOf(s.storage) /\ Job(h.job, id) \notin ElementsOf(t.storage)
    BY <1>1, <1>3, <1>4 DEF q, h, Good, OnePlace
  <2>2. PlaceOf(s, id)
    BY <1>3 DEF Good, OnePlace
  <2>3. AtStorage(s, id)
    BY <1>3, <2>1 DEF AtStorage
  <2>4. ~ Waits(t, id) /\ id \notin t.tenders /\ ~ AtKey(t, id)
    BY <1>5, <2>2, <2>3 DEF PlaceOf, Waits, AtKey
  <2>5. ~ AtStorage(t, id)
    <3> SUFFICES ASSUME NEW w \in {"look_up", "get"}, Job(w, id) \in ElementsOf(t.storage)
                 PROVE FALSE
      BY DEF AtStorage
    <3>1. w # h.job /\ Job(w, id) \in ElementsOf(s.storage)
      BY <1>1, <1>4, <2>1 DEF q
    <3> QED
      BY <1>3, <2>1, <2>2, <3>1 DEF PlaceOf
  <2> QED
    BY <2>3, <2>4, <2>5 DEF UnderWay
<1>13. Ready(t, id)
  BY <1>3, <1>6, <1>12, TakenReady
<1> QED
  BY <1>1, <1>4, <1>11, <1>13 DEF h

\* The key manager has answered.
LEMMA KeyTaken ==
    ASSUME NEW s \in Kernel, Good(s), s.key # <<>>, NEW t, t = [s EXCEPT !.key = Tail(@)]
    PROVE  /\ Head(s.key) \in Id /\ Known(s, Head(s.key))
           /\ t \in Kernel /\ Good(t) /\ Only(s, t, {"key"}) /\ Ready(t, Head(s.key))
<1>1. /\ Head(s.key) \in Id /\ Tail(s.key) \in Seq(Id)
      /\ ElementsOf(s.key) = ElementsOf(Tail(s.key)) \cup {Head(s.key)}
      /\ Once(s.key) <=> Once(Tail(s.key)) /\ Head(s.key) \notin ElementsOf(Tail(s.key))
  BY KernelTypes, TailElements
<1> DEFINE q == Tail(s.key)
           id == Head(s.key)
<1>2. t = [s EXCEPT !.key = q]
  OBVIOUS
<1> HIDE DEF q, id
<1>4. t \in Kernel /\ Only(s, t, {"key"}) /\ t.key = q
  BY <1>1, <1>2 DEF Kernel, Only, Fields, q
<1>5. /\ t.pendingRouter = s.pendingRouter /\ t.tenders = s.tenders /\ t.storage = s.storage
      /\ t.requests = s.requests
  BY <1>4 DEF Only, Fields
<1>6. Only(s, t, {"storage", "pendingRouter", "key", "tenders", "routerSize", "cache"})
  BY <1>4 DEF Only
<1>7. ASSUME NEW x \in Id PROVE LessThere(s, t, x)
  BY <1>1, <1>4, <1>5 DEF LessThere, Waits, AtKey, q
<1>8. \A x \in Id : UnderWay(t, x) => UnderWay(s, x)
  BY <1>7 DEF LessThere, UnderWay, AtStorage
<1>9. Once(t.storage) /\ Once(t.pendingRouter) /\ Once(t.key)
  BY <1>1, <1>4, <1>5 DEF Good, OnePlace, q
<1>10. OnePlace(t)
  <2>1. OnePlace(s) /\ \A x \in Id : UnderWay(s, x) /\ Known(s, x) => Known(t, x)
    BY <1>5 DEF Good, Known
  <2> QED
    BY <1>7, <1>9, <2>1, StillPlaced
<1>11. Good(t)
  BY <1>4, <1>6, <1>8, <1>10, AskingGood
<1>12. UnderWay(s, id) /\ ~ UnderWay(t, id) /\ Known(s, id)
  <2>1. id \in Id /\ AtKey(s, id) /\ ~ AtKey(t, id)
    BY <1>1, <1>4 DEF q, id, Good, OnePlace, AtKey
  <2>2. PlaceOf(s, id) /\ (UnderWay(s, id) => Known(s, id))
    BY <2>1 DEF Good, OnePlace
  <2>3. ~ Waits(t, id) /\ id \notin t.tenders /\ ~ AtStorage(t, id)
    BY <1>5, <2>1, <2>2 DEF PlaceOf, Waits, AtStorage
  <2> QED
    BY <2>1, <2>2, <2>3 DEF UnderWay
<1>13. Ready(t, id)
  <2>1. id \in Id
    BY <1>1 DEF id
  <2> QED
    BY <1>6, <1>12, <2>1, TakenReady
<1> QED
  BY <1>1, <1>4, <1>11, <1>12, <1>13 DEF id

\* A tender has ended; the place of a piece is not yet given back.
LEMMA TenderTaken ==
    ASSUME NEW s \in Kernel, Good(s), NEW id \in s.tenders, NEW t, t = [s EXCEPT !.tenders = @ \ {id}]
    PROVE  /\ id \in Id /\ Known(s, id)
           /\ t \in Kernel /\ Good(t) /\ Only(s, t, {"tenders"}) /\ Ready(t, id)
           /\ Counted(s) => IF IsPiece(id) THEN t.routerSize <= Cardinality(PiecesAsked(t)) + 1
                                           ELSE Counted(t)
<1>1. id \in Id /\ s.tenders \ {id} \subseteq Id
  BY KernelTypes
<1>2. t \in Kernel /\ Only(s, t, {"tenders"}) /\ t.tenders = s.tenders \ {id}
  BY <1>1 DEF Kernel, Only, Fields
<1>3. /\ t.pendingRouter = s.pendingRouter /\ t.key = s.key /\ t.storage = s.storage
      /\ t.requests = s.requests /\ t.routerSize = s.routerSize
  BY <1>2 DEF Only, Fields
<1>4. Only(s, t, {"storage", "pendingRouter", "key", "tenders", "routerSize", "cache"})
  BY <1>2 DEF Only
<1>5. ASSUME NEW x \in Id PROVE LessThere(s, t, x)
  BY <1>2, <1>3 DEF LessThere, Waits, AtKey
<1>6. \A x \in Id : UnderWay(t, x) => UnderWay(s, x)
  BY <1>5 DEF LessThere, UnderWay, AtStorage
<1>7. OnePlace(t)
  <2>1. OnePlace(s) /\ \A x \in Id : UnderWay(s, x) /\ Known(s, x) => Known(t, x)
    BY <1>3 DEF Good, Known
  <2>2. Once(t.storage) /\ Once(t.pendingRouter) /\ Once(t.key)
    BY <1>3 DEF Good, OnePlace
  <2> QED
    BY <1>5, <2>1, <2>2, StillPlaced
<1>8. Good(t)
  BY <1>2, <1>4, <1>6, <1>7, AskingGood
<1>9. UnderWay(s, id) /\ ~ UnderWay(t, id) /\ Known(s, id)
  <2>1. PlaceOf(s, id) /\ (UnderWay(s, id) => Known(s, id))
    BY <1>1 DEF Good, OnePlace
  <2>2. ~ Waits(t, id) /\ id \notin t.tenders /\ ~ AtStorage(t, id) /\ ~ AtKey(t, id)
    BY <1>2, <1>3, <2>1 DEF PlaceOf, Waits, AtStorage, AtKey
  <2> QED
    BY <2>1, <2>2 DEF UnderWay
<1>10. Ready(t, id)
  BY <1>1, <1>4, <1>9, TakenReady
<1>11. ASSUME Counted(s) PROVE IF IsPiece(id) THEN t.routerSize <= Cardinality(PiecesAsked(t)) + 1
                                              ELSE Counted(t)
  <2>1. CASE ~ IsPiece(id)
    <3>1. PiecesAsked(t) = PiecesAsked(s)
      BY <1>2, <2>1 DEF PiecesAsked
    <3> QED
      BY <1>3, <1>11, <2>1, <3>1 DEF Counted
  <2>2. CASE IsPiece(id)
    <3>1. id \in PiecesAsked(s) /\ PiecesAsked(t) = PiecesAsked(s) \ {id}
      BY <1>2, <2>2 DEF PiecesAsked
    <3>2. Cardinality(PiecesAsked(t)) = Cardinality(PiecesAsked(s)) - 1
      BY <3>1, PiecesAskedFinite, FS_RemoveElement
    <3>3. s.routerSize \in Nat
      BY KernelTypes
    <3> QED
      BY <1>3, <1>11, <2>2, <3>2, <3>3, PiecesAskedFinite DEF Counted
  <2> QED
    BY <2>1, <2>2
<1> QED
  BY <1>1, <1>2, <1>8, <1>9, <1>10, <1>11

-----------------------------------------------------------------------------
(* Answers to the clients *)

LEMMA LongerAppend ==
    ASSUME NEW a \in Seq(Message), NEW m \in Message
    PROVE  Longer(a, a) /\ Longer(a, Append(a, m)) /\ Append(a, m) # <<>>
BY DEF Longer

LEMMA LongerConcat ==
    ASSUME NEW a \in Seq(Message), NEW b \in Seq(Message)
    PROVE  /\ Longer(a, a \o b) /\ a \o b \in Seq(Message)
           /\ a # <<>> => a \o b # <<>>
<1>1. /\ a \o b \in Seq(Message) /\ Len(a \o b) = Len(a) + Len(b) /\ Len(a) \in Nat /\ Len(b) \in Nat
      /\ \A i \in 1 .. Len(a) : (a \o b)[i] = a[i]
  OBVIOUS
<1>2. a # <<>> => Len(a) > 0
  OBVIOUS
<1>3. a # <<>> => Len(a \o b) > 0
  BY <1>1, <1>2
<1>4. a # <<>> => a \o b # <<>>
  <2> SUFFICES ASSUME a # <<>>, a \o b = <<>> PROVE FALSE
    OBVIOUS
  <2>1. Len(<<>>) = 0
    OBVIOUS
  <2> QED
    BY <1>3, <2>1
<1> QED
  BY <1>1, <1>4 DEF Longer

LEMMA LongerTwice ==
    ASSUME NEW a \in Seq(Message), NEW b \in Seq(Message), NEW c \in Seq(Message),
           Longer(a, b), Longer(b, c)
    PROVE  Longer(a, c)
<1>1. Len(a) \in Nat /\ Len(b) \in Nat /\ Len(c) \in Nat
  OBVIOUS
<1> QED
  BY <1>1 DEF Longer

LEMMA GrowsTwice ==
    ASSUME NEW s \in Kernel, NEW t \in Kernel, NEW u \in Kernel, Grows(s, t), Grows(t, u)
    PROVE  Grows(s, u)
<1>1. \A g \in Get : s.told[g] \in Seq(Message) /\ t.told[g] \in Seq(Message)
                     /\ u.told[g] \in Seq(Message)
  BY KernelTypes
<1> QED
  BY <1>1, LongerTwice DEF Grows

LEMMA GrowsSame ==
    ASSUME NEW s \in Kernel, NEW t, t.told = s.told, s.cleaned \subseteq t.cleaned
    PROVE  Grows(s, t)
<1>1. \A g \in Get : s.told[g] \in Seq(Message)
  BY KernelTypes
<1> QED
  BY <1>1 DEF Grows, Longer

\* send_ims_response: everybody who waits for the object is told, and forgotten.
LEMMA AnswerAllGood ==
    ASSUME NEW s \in Kernel, Good(s), NEW o \in Object, s.waiting[o] # <<>>,
           NEW m \in {Data, Fail}, s.chunk[o] # None => m = Fail,
           \A g \in ElementsOf(s.waiting[o]) : ~ UnderWay(s, Root(g)),
           NEW t, t = AnswerAll(s, o, m)
    PROVE  /\ t \in Kernel /\ Good(t) /\ Grows(s, t)
           /\ Only(s, t, {"told", "ims", "requests", "waiting", "chunk"})
           /\ \A id \in s.requests : IsPiece(id) => id \in t.requests
<1> DEFINE gs == ElementsOf(s.waiting[o])
           told == [g \in Get |-> IF g \in gs THEN Append(s.told[g], m) ELSE s.told[g]]
           roots == {Root(g) : g \in gs}
           v == [s EXCEPT !.told = told, !.ims = @ \ gs, !.requests = @ \ roots,
                          !.waiting[o] = <<>>, !.chunk[o] = None]
<1>1. gs \subseteq s.ims /\ gs \subseteq Get
  BY KernelTypes DEF Good, Lists
<1>2. told \in [Get -> Seq(Message)]
  <2>1. s.told \in [Get -> Seq(Message)] /\ m \in Message
    BY KernelTypes DEF Message
  <2> QED
    BY <2>1
<1>3. v \in Kernel
  <2>1. <<>> \in Seq(Get)
    OBVIOUS
  <2> HIDE DEF told, gs, roots
  <2> QED
    BY <1>2, <2>1 DEF Kernel
<1>4. t = v
  <2>1. gs \cap s.ims = gs
    BY <1>1
  <2>2. t = Require(s.waiting[o] # <<>>, v)
    BY <2>1 DEF AnswerAll
  <2> HIDE DEF v
  <2> QED
    BY <1>3, <2>2, RequireIs
<1>5. /\ t \in Kernel /\ Only(s, t, {"told", "ims", "requests", "waiting", "chunk"})
      /\ t.told = told /\ t.ims = s.ims \ gs /\ t.requests = s.requests \ roots
      /\ t.waiting = [s.waiting EXCEPT ![o] = <<>>]
      /\ t.chunk = [s.chunk EXCEPT ![o] = None]
  <2> HIDE DEF told, gs, roots
  <2>1. Only(s, t, {"told", "ims", "requests", "waiting", "chunk"})
    BY <1>4 DEF Kernel, Only, Fields
  <2>2. /\ t.told = told /\ t.ims = s.ims \ gs /\ t.requests = s.requests \ roots
        /\ t.waiting = [s.waiting EXCEPT ![o] = <<>>]
        /\ t.chunk = [s.chunk EXCEPT ![o] = None]
    BY <1>4 DEF Kernel
  <2> QED
    BY <1>3, <1>4, <2>1, <2>2
<1> HIDE DEF v
<1>6. /\ t.uuid = s.uuid /\ t.units = s.units /\ t.range = s.range /\ t.curr = s.curr
      /\ t.last = s.last /\ t.aborted = s.aborted /\ t.cleaned = s.cleaned
      /\ t.storage = s.storage /\ t.pendingRouter = s.pendingRouter /\ t.key = s.key
      /\ t.tenders = s.tenders
  BY <1>5 DEF Only, Fields
<1>7. \A x : UnderWay(t, x) <=> UnderWay(s, x)
  BY <1>6 DEF UnderWay, AtStorage, Waits, AtKey
<1>8. \A q \in Object : q # o => t.waiting[q] = s.waiting[q] /\ t.chunk[q] = s.chunk[q]
  BY <1>5, KernelTypes
<1>9. t.waiting[o] = <<>> /\ t.chunk[o] = None
  BY <1>5, KernelTypes
<1>10. \A g \in Get : g \in gs <=> s.uuid[g] = o /\ Listed(s, g)
  BY DEF Good, Lists, Listed
<1>11. \A g \in Get : Known(t, Root(g)) <=> Known(s, Root(g)) /\ g \notin gs
  <2>1. \A g, h : Root(g) = Root(h) => g = h
    BY DEF Root
  <2> QED
    BY <1>5, <2>1 DEF Known
<1>12. \A id : IsPiece(id) => (id \in t.requests <=> id \in s.requests)
  <2>1. \A g : ~ IsPiece(Root(g))
    BY DEF Root, IsPiece
  <2> QED
    BY <1>5, <2>1
<1>13. ASSUME NEW g \in Get, s.uuid[g] # o
       PROVE  /\ Leads(t, g) <=> Leads(s, g)
              /\ Listed(t, g) <=> Listed(s, g)
              /\ ListOf(t, g) = ListOf(s, g)
  <2>1. s.uuid[g] \in Object
    BY KernelTypes
  <2>2. t.waiting[s.uuid[g]] = s.waiting[s.uuid[g]] /\ t.chunk[s.uuid[g]] = s.chunk[s.uuid[g]]
    BY <1>8, <1>13, <2>1
  <2> QED
    BY <1>6, <2>2 DEF Leads, ListOf, Listed
<1>14. \A g \in Get : s.uuid[g] = o => ~ Listed(t, g) /\ ~ Known(t, Root(g))
  <2>1. ElementsOf(<<>>) = {}
    BY NoElements
  <2>2. \A g \in Get : Known(s, Root(g)) => Listed(s, g)
    BY DEF Good, Lists
  <2> QED
    BY <1>6, <1>9, <1>10, <1>11, <2>1, <2>2 DEF Listed
<1>15. OnePlace(t)
  <2>1. ASSUME NEW x \in Id, UnderWay(s, x) PROVE Known(t, x)
    <3>1. Known(s, x)
      BY <2>1 DEF Good, OnePlace
    <3>2. CASE IsPiece(x)
      BY <1>12, <3>1, <3>2 DEF Known
    <3>3. CASE ~ IsPiece(x)
      <4>1. x = Root(Parent(x)) /\ Parent(x) \in Get
        BY <3>3, IdFacts
      <4> QED
        BY <1>11, <2>1, <3>1, <4>1
    <3> QED
      BY <3>2, <3>3
  <2>2. \A x \in Id : PlaceOf(t, x)
    BY <1>6 DEF Good, OnePlace, PlaceOf, AtStorage, Waits, AtKey
  <2> QED
    BY <1>6, <1>7, <2>1, <2>2 DEF Good, OnePlace
<1>16. Lists(t)
  <2>1. ASSUME NEW q \in Object
        PROVE  /\ Once(t.waiting[q])
               /\ \A g \in ElementsOf(t.waiting[q]) : t.uuid[g] = q /\ g \in t.ims /\ Known(t, Root(g))
               /\ t.chunk[q] # None =>
                    /\ t.chunk[q] \in [Chunks(q) -> {"no", "requested", "available"}]
                    /\ \A i \in Chunks(q) \ PiecesOf(q) : t.chunk[q][i] = "available"
                    /\ q \in Media /\ t.waiting[q] # <<>>
    <3>1. CASE q = o
      BY <1>9, <3>1, NoElements
    <3>2. CASE q # o
      <4>1. t.waiting[q] = s.waiting[q] /\ t.chunk[q] = s.chunk[q]
        BY <1>8, <3>2
      <4>2. \A g \in ElementsOf(s.waiting[q]) : g \in Get /\ s.uuid[g] = q /\ g \in s.ims
                                                /\ Known(s, Root(g))
        BY KernelTypes DEF Good, Lists
      <4>3. \A g \in ElementsOf(s.waiting[q]) : g \notin gs
        BY <1>10, <3>2, <4>2
      <4> QED
        BY <1>5, <1>6, <1>11, <4>1, <4>2, <4>3 DEF Good, Lists
    <3> QED
      BY <3>1, <3>2
  <2>2. \A g \in Get : Known(t, Root(g)) => Listed(t, g)
    BY <1>11, <1>13, <1>14 DEF Good, Lists
  <2> QED
    BY <2>1, <2>2 DEF Lists
<1>17. Masters(t)
  <2> SUFFICES ASSUME NEW g \in Get, UnderWay(s, Root(g))
               PROVE  /\ Leads(t, g) /\ ListOf(t, g) = None
                      /\ \A id \in t.requests : IsPiece(id) => Parent(id) # g
    BY <1>7 DEF Masters
  <2>1. /\ Leads(s, g) /\ ListOf(s, g) = None
        /\ \A id \in s.requests : IsPiece(id) => Parent(id) # g
    BY DEF Good, Masters
  <2>2. s.uuid[g] # o
    <3>1. Known(s, Root(g))
      BY RootFacts DEF Good, OnePlace
    <3> QED
      BY <1>10, <3>1 DEF Good, Lists
  <2> QED
    BY <1>5, <1>13, <2>1, <2>2
<1>18. Pieces(t)
  <2> SUFFICES ASSUME NEW id \in t.requests, IsPiece(id)
               PROVE  LET g == Parent(id)
                      IN /\ id[2] \in PiecesOf(t.uuid[g])
                         /\ g \in t.ims \/ t.told[g] # <<>>
                         /\ Known(t, Root(g)) =>
                              IF t.uuid[g] \in Media
                              THEN ListOf(t, g) # None /\ ListOf(t, g)[id[2]] # "no"
                              ELSE Leads(t, g)
    BY DEF Pieces
  <2> DEFINE g == Parent(id)
  <2>1. id \in s.requests /\ id \in Id /\ g \in Get
    BY <1>5, KernelTypes, IdFacts
  <2>2. /\ id[2] \in PiecesOf(s.uuid[g])
        /\ g \in s.ims \/ s.told[g] # <<>>
        /\ Known(s, Root(g)) =>
              IF s.uuid[g] \in Media THEN ListOf(s, g) # None /\ ListOf(s, g)[id[2]] # "no"
                                     ELSE Leads(s, g)
    BY <2>1 DEF Good, Pieces
  <2> HIDE DEF g
  <2>3. g \in gs => t.told[g] # <<>>
    <3>1. s.told[g] \in Seq(Message) /\ m \in Message
      BY <2>1, KernelTypes DEF Message
    <3>2. Append(s.told[g], m) # <<>>
      BY <3>1, LongerAppend
    <3> QED
      BY <1>5, <2>1, <3>2
  <2>4. g \in t.ims \/ t.told[g] # <<>>
    BY <1>5, <2>1, <2>2, <2>3
  <2>5. ASSUME Known(t, Root(g))
        PROVE  IF s.uuid[g] \in Media THEN ListOf(t, g) # None /\ ListOf(t, g)[id[2]] # "no"
                                      ELSE Leads(t, g)
    <3>1. s.uuid[g] # o /\ Known(s, Root(g))
      BY <1>11, <1>14, <2>1, <2>5
    <3> QED
      BY <1>13, <2>1, <2>2, <3>1
  <2> QED
    BY <1>6, <2>2, <2>4, <2>5 DEF g
<1>19. Units(t)
  <2> SUFFICES ASSUME NEW g \in Get, NEW i \in s.units[g]
               PROVE  s.uuid[g] \notin Media /\ Known(t, <<g, i>>) /\ ~ UnderWay(t, <<g, i>>)
    BY <1>6 DEF Units
  <2>1. s.uuid[g] \notin Media /\ Known(s, <<g, i>>) /\ ~ UnderWay(s, <<g, i>>)
    BY DEF Good, Units
  <2>2. IsPiece(<<g, i>>)
    BY KernelTypes DEF IsPiece
  <2> QED
    BY <1>7, <1>12, <2>1, <2>2 DEF Known
<1>20. Told(t)
  <2> SUFFICES ASSUME NEW g \in Get
               PROVE  /\ \/ t.told[g] \in {<<>>, <<Data>>, <<Fail>>}
                         \/ \E q \in Seq(Message) : IsStream(t, g, q) /\ t.told[g] \in {q, Append(q, Fail)}
                      /\ Listed(t, g) => IF ListOf(t, g) = None THEN t.told[g] = <<>>
                                         ELSE IsStream(t, g, t.told[g])
                      /\ t.told[g] = <<>> => t.range[g] \in AskedRange
    BY DEF Told, ToldOf
  <2>1. \A q : IsStream(t, g, q) <=> IsStream(s, g, q)
    BY <1>6, IsStreamSame
  <2>2. /\ \/ s.told[g] \in {<<>>, <<Data>>, <<Fail>>}
           \/ \E q \in Seq(Message) : IsStream(s, g, q) /\ s.told[g] \in {q, Append(q, Fail)}
        /\ Listed(s, g) => IF ListOf(s, g) = None THEN s.told[g] = <<>>
                           ELSE IsStream(s, g, s.told[g])
        /\ s.told[g] = <<>> => s.range[g] \in AskedRange
    BY DEF Good, Told, ToldOf
  <2>3. s.told[g] \in Seq(Message) /\ m \in Message
    BY KernelTypes DEF Message
  <2>4. CASE g \in gs
    <3>1. Listed(s, g) /\ ~ Listed(t, g) /\ s.chunk[o] = ListOf(s, g)
      BY <1>10, <1>14, <2>4 DEF ListOf
    <3>2. t.told[g] = Append(s.told[g], m)
      BY <1>5, <2>4
    <3>0. t.told[g] # <<>>
      BY <2>3, <3>2, LongerAppend
    <3>3. CASE ListOf(s, g) = None
      <4>1. s.told[g] = <<>>
        BY <2>2, <3>1, <3>3
      <4>2. t.told[g] = <<m>>
        BY <2>3, <3>2, <4>1
      <4> QED
        BY <3>0, <3>1, <4>2
    <3>4. CASE ListOf(s, g) # None
      <4>1. IsStream(t, g, s.told[g]) /\ m = Fail
        BY <2>1, <2>2, <3>1, <3>4
      <4>2. t.told[g] = Append(s.told[g], Fail)
        BY <3>2, <4>1
      <4> QED
        BY <2>3, <3>0, <3>1, <4>1, <4>2
    <3> QED
      BY <3>3, <3>4
  <2>5. CASE g \notin gs
    <3>1. t.told[g] = s.told[g] /\ t.range[g] = s.range[g]
      BY <1>5, <1>6, <2>5
    <3>2. Listed(t, g) => Listed(s, g) /\ ListOf(t, g) = ListOf(s, g)
      BY <1>13, <1>14
    <3> QED
      BY <2>1, <2>2, <3>1, <3>2
  <2> QED
    BY <2>4, <2>5
<1>21. Grows(s, t)
  <2> SUFFICES ASSUME NEW g \in Get
               PROVE  /\ Longer(s.told[g], t.told[g])
                      /\ g \in s.cleaned => t.told[g] = s.told[g]
    BY <1>6 DEF Grows
  <2>1. s.told[g] \in Seq(Message) /\ m \in Message
    BY KernelTypes DEF Message
  <2>2. t.told[g] = IF g \in gs THEN Append(s.told[g], m) ELSE s.told[g]
    BY <1>5
  <2>3. g \in s.cleaned => g \notin gs
    BY <1>10 DEF Good, Streams
  <2> QED
    BY <2>1, <2>2, <2>3, LongerAppend
<1>22. Streams(t)
  <2> SUFFICES ASSUME NEW g \in Get
               PROVE  /\ g \in t.ims => g \in s.cleaned \/ Listed(t, g)
                      /\ g \in s.cleaned => t.told[g] # <<>> /\ ~ Listed(t, g)
    BY <1>6 DEF Streams
  <2>1. /\ g \in s.ims => g \in s.cleaned \/ Listed(s, g)
        /\ g \in s.cleaned => s.told[g] # <<>> /\ ~ Listed(s, g)
    BY DEF Good, Streams
  <2>2. Listed(t, g) <=> Listed(s, g) /\ g \notin gs
    BY <1>10, <1>13, <1>14
  <2>3. g \in t.ims => g \in s.ims /\ g \notin gs
    BY <1>5
  <2>4. g \in s.cleaned => t.told[g] = s.told[g]
    BY <1>21 DEF Grows
  <2> QED
    BY <2>1, <2>2, <2>3, <2>4
<1>23. Good(t)
  BY <1>6, <1>15, <1>16, <1>17, <1>18, <1>19, <1>20, <1>22 DEF Good
<1> QED
  BY <1>5, <1>12, <1>21, <1>23

\* Nobody looks for the master of an object when a piece of it is known, or when the
\* one who looked for it has the answer.
LEMMA NobodyLooks ==
    ASSUME NEW s \in Kernel, Good(s), NEW id \in Id, Known(s, id), Known(s, Root(Parent(id))),
           ~ IsPiece(id) => ~ UnderWay(s, id) /\ Leads(s, Parent(id))
    PROVE  \A g \in Get : s.uuid[g] = s.uuid[Parent(id)] => ~ UnderWay(s, Root(g))
<1> DEFINE p == Parent(id)
<1>1. p \in Get /\ (~ IsPiece(id) => id = Root(p))
  BY IdFacts
<1> SUFFICES ASSUME NEW g \in Get, s.uuid[g] = s.uuid[p], UnderWay(s, Root(g)) PROVE FALSE
  OBVIOUS
<1>2. /\ Leads(s, g) /\ ListOf(s, g) = None
      /\ \A x \in s.requests : IsPiece(x) => Parent(x) # g
  BY DEF Good, Masters
<1>3. CASE ~ IsPiece(id)
  <2>1. g = p
    BY <1>2, <1>3 DEF Leads
  <2> QED
    BY <1>1, <1>3, <2>1
<1>4. CASE IsPiece(id)
  <2>1. IF s.uuid[p] \in Media THEN ListOf(s, p) # None ELSE Leads(s, p)
    BY <1>4 DEF Good, Pieces, Known
  <2>2. ListOf(s, p) = None
    BY <1>2 DEF ListOf
  <2>3. g = p
    BY <1>2, <2>1, <2>2 DEF Leads
  <2> QED
    BY <1>2, <1>4, <2>3 DEF Known
<1> QED
  BY <1>3, <1>4

\* All requests of an object whose piece or master has come are answered.
LEMMA AnsweredGood ==
    ASSUME NEW s \in Kernel, Good(s), NEW id \in Id, Known(s, id), Known(s, Root(Parent(id))),
           ~ IsPiece(id) => ~ UnderWay(s, id) /\ Leads(s, Parent(id)),
           NEW m \in {Data, Fail}, ListOf(s, Parent(id)) # None => m = Fail,
           NEW t, t = AnswerAll(s, s.uuid[Parent(id)], m)
    PROVE  /\ t \in Kernel /\ Good(t) /\ Grows(s, t)
           /\ Only(s, t, {"told", "ims", "requests", "waiting", "chunk"})
           /\ \A x \in s.requests : IsPiece(x) => x \in t.requests
<1> DEFINE o == s.uuid[Parent(id)]
<1>1. Parent(id) \in Get /\ o \in Object
  BY IdFacts, KernelTypes
<1>2. s.waiting[o] # <<>>
  <2>1. Parent(id) \in ElementsOf(s.waiting[o])
    BY <1>1 DEF Good, Lists, Listed
  <2> QED
    BY <2>1, NoElements
<1>3. \A g \in ElementsOf(s.waiting[o]) : ~ UnderWay(s, Root(g))
  <2>1. \A g \in ElementsOf(s.waiting[o]) : g \in Get /\ s.uuid[g] = o
    BY <1>1, KernelTypes DEF Good, Lists
  <2> QED
    BY <2>1, NobodyLooks
<1>4. s.chunk[o] # None => m = Fail
  BY DEF ListOf
<1> HIDE DEF o
<1>5. t = AnswerAll(s, o, m)
  BY DEF o
<1> QED
  BY <1>1, <1>2, <1>3, <1>4, <1>5, AnswerAllGood

\* Only other fields than those of the account have changed.
LEMMA AccountSame ==
    ASSUME NEW s, NEW t, NEW F, Only(s, t, F),
           F \cap {"routerSize", "pendingRouter", "tenders"} = {}
    PROVE  /\ SameAccount(s, t)
           /\ Counted(t) <=> Counted(s)
           /\ Settled(t) <=> Settled(s)
<1>1. SameAccount(s, t)
  BY DEF Only, Fields, SameAccount
<1>2. PiecesAsked(t) = PiecesAsked(s)
  BY <1>1 DEF SameAccount, PiecesAsked
<1> QED
  BY <1>1, <1>2 DEF SameAccount, Counted, Settled

\* handle_failed_request
LEMMA FailedGood ==
    ASSUME NEW s \in Kernel, Good(s), NEW id \in Id, Ready(s, id), NEW t, t = Failed(s, id)
    PROVE  /\ t \in Kernel /\ Good(t) /\ Grows(s, t) /\ t.uuid = s.uuid
           /\ IF IsPiece(id)
              THEN (s.routerSize <= Cardinality(PiecesAsked(s)) + 1 => Counted(t)) /\ Settled(t)
              ELSE (Counted(s) => Counted(t)) /\ (Settled(s) => Settled(t))
<1> DEFINE p == Parent(id)
           o == s.uuid[p]
           F == {"told", "ims", "requests", "waiting", "chunk"}
<1>1. p \in Get /\ o \in Object /\ Known(s, id) /\ Fail \in {Data, Fail}
  BY IdFacts, KernelTypes DEF Ready
<1>2. CASE ~ IsPiece(id)
  <2>1. t = AnswerAll(s, o, Fail)
    BY <1>2 DEF Failed
  <2>2. id = Root(p)
    BY <1>2, IdFacts
  <2>3. t \in Kernel /\ Good(t) /\ Grows(s, t) /\ Only(s, t, F)
    BY <1>1, <1>2, <2>1, <2>2, AnsweredGood DEF Ready
  <2>4. (Counted(t) <=> Counted(s)) /\ (Settled(t) <=> Settled(s))
    BY <2>3, AccountSame
  <2>5. t.uuid = s.uuid
    BY <2>3 DEF Only, Fields
  <2> QED
    BY <1>2, <2>3, <2>4, <2>5
<1>3. CASE IsPiece(id)
  <2> DEFINE u == IF Known(s, Root(p)) THEN AnswerAll(s, o, Fail) ELSE s
             v == ReduceRouterSize(u)
  <2>1. t = ProcessRouterPending(v)
    BY <1>3 DEF Failed
  <2>2. u \in Kernel /\ Good(u) /\ Grows(s, u) /\ Only(s, u, F)
    <3>1. CASE Known(s, Root(p))
      <4>1. u = AnswerAll(s, o, Fail)
        BY <3>1
      <4> HIDE DEF u
      <4> QED
        BY <1>1, <1>3, <3>1, <4>1, AnsweredGood
    <3>2. CASE ~ Known(s, Root(p))
      <4>1. u = s
        BY <3>2
      <4> HIDE DEF u
      <4> QED
        BY <4>1, GrowsSame DEF Only, Fields
    <3> QED
      BY <3>1, <3>2
  <2> HIDE DEF u
  <2>3. /\ v \in Kernel /\ Good(v) /\ Only(u, v, {"routerSize"})
        /\ u.routerSize <= Cardinality(PiecesAsked(u)) + 1 => Counted(v)
    BY <2>2, ReduceGood
  <2> HIDE DEF v
  <2>4. /\ t \in Kernel /\ Good(t) /\ Only(v, t, {"tenders", "pendingRouter", "routerSize"})
        /\ Counted(v) => Counted(t)
        /\ Settled(t)
    BY <2>1, <2>3, ProcessGood
  <2>5. ASSUME s.routerSize <= Cardinality(PiecesAsked(s)) + 1 PROVE Counted(t)
    <3>1. SameAccount(s, u)
      BY <2>2, AccountSame
    <3>2. u.routerSize <= Cardinality(PiecesAsked(u)) + 1
      BY <2>5, <3>1 DEF SameAccount, PiecesAsked
    <3> QED
      BY <2>3, <2>4, <3>2
  <2>6. t.uuid = s.uuid /\ t.told = u.told /\ t.cleaned = u.cleaned
    BY <2>2, <2>3, <2>4 DEF Only, Fields
  <2>7. Grows(s, t)
    BY <2>2, <2>6 DEF Grows
  <2> QED
    BY <1>3, <2>4, <2>5, <2>6, <2>7
<1> QED
  BY <1>2, <1>3

\* The request of a piece that is done is erased.
Idle(s, id) == ~ UnderWay(s, id) /\ id[2] \notin s.units[Parent(id)]

LEMMA EraseGood ==
    ASSUME NEW s \in Kernel, Good(s), NEW id \in Id, IsPiece(id), Idle(s, id),
           NEW t, t = Erase(s, id)
    PROVE  t \in Kernel /\ Good(t) /\ Only(s, t, {"requests"})
<1>1. /\ t \in Kernel /\ Only(s, t, {"requests"}) /\ t.requests = s.requests \ {id}
  BY KernelTypes DEF Erase, Kernel, Only, Fields
<1>2. /\ t.uuid = s.uuid /\ t.units = s.units /\ t.range = s.range /\ t.curr = s.curr
      /\ t.last = s.last /\ t.aborted = s.aborted /\ t.cleaned = s.cleaned
      /\ t.chunk = s.chunk /\ t.ims = s.ims
      /\ t.storage = s.storage /\ t.pendingRouter = s.pendingRouter /\ t.key = s.key
      /\ t.tenders = s.tenders /\ t.told = s.told /\ t.waiting = s.waiting
  BY <1>1 DEF Only, Fields
<1>3. \A x : UnderWay(t, x) <=> UnderWay(s, x)
  BY <1>2 DEF UnderWay, AtStorage, Waits, AtKey
<1>4. \A g : Known(t, Root(g)) <=> Known(s, Root(g))
  BY <1>1 DEF Known, Root, IsPiece
<1>5. /\ \A g : Leads(t, g) <=> Leads(s, g)
      /\ \A g : Listed(t, g) <=> Listed(s, g)
      /\ \A g : ListOf(t, g) = ListOf(s, g)
  BY <1>2 DEF Leads, Listed, ListOf
<1>6. OnePlace(t)
  <2>1. \A x \in Id : UnderWay(s, x) => Known(t, x)
    BY <1>1 DEF Good, OnePlace, Known, Idle
  <2>2. \A x \in Id : PlaceOf(t, x)
    BY <1>2 DEF Good, OnePlace, PlaceOf, AtStorage, Waits, AtKey
  <2> QED
    BY <1>2, <1>3, <2>1, <2>2 DEF Good, OnePlace
<1>7. Lists(t)
  BY <1>2, <1>4, <1>5 DEF Good, Lists
<1>8. Masters(t)
  BY <1>1, <1>3, <1>5 DEF Good, Masters
<1>9. Pieces(t)
  BY <1>1, <1>2, <1>4, <1>5 DEF Good, Pieces
<1>10. Units(t)
  <2> SUFFICES ASSUME NEW g \in Get, NEW i \in s.units[g]
               PROVE  s.uuid[g] \notin Media /\ Known(t, <<g, i>>) /\ ~ UnderWay(t, <<g, i>>)
    BY <1>2 DEF Units
  <2>1. s.uuid[g] \notin Media /\ Known(s, <<g, i>>) /\ ~ UnderWay(s, <<g, i>>)
    BY DEF Good, Units
  <2>2. <<g, i>> # id
    BY DEF Idle, Parent
  <2> QED
    BY <1>1, <1>3, <2>1, <2>2 DEF Known
<1>11. Told(t)
  <2>1. \A g, q : IsStream(t, g, q) <=> IsStream(s, g, q)
    BY <1>2, IsStreamSame
  <2> QED
    BY <1>2, <1>5, <2>1 DEF Good, Told, ToldOf
<1>12. Streams(t)
  BY <1>2, StreamsSame DEF Good
<1> QED
  BY <1>1, <1>2, <1>6, <1>7, <1>8, <1>9, <1>10, <1>11, <1>12 DEF Good

\* handle_storage_negative_response
LEMMA NotStoredGood ==
    ASSUME NEW s \in Kernel, Good(s), NEW id \in Id, Ready(s, id), NEW t, t = NotStored(s, id)
    PROVE  /\ t \in Kernel /\ Good(t) /\ Only(s, t, {"tenders", "pendingRouter", "routerSize"})
           /\ Counted(s) => Counted(t)
           /\ Settled(s) => Settled(t)
<1>1. CASE IsPiece(id)
  <2> DEFINE u == [s EXCEPT !.pendingRouter = Append(@, id)]
  <2>1. t = ProcessRouterPending(u)
    BY <1>1 DEF NotStored
  <2>2. id \in PieceId
    BY <1>1, IdFacts
  <2>3. u \in Kernel /\ Good(u) /\ Only(s, u, {"pendingRouter"})
    BY <2>2, ToPendingGood
  <2> HIDE DEF u
  <2>4. /\ t \in Kernel /\ Good(t) /\ Only(u, t, {"tenders", "pendingRouter", "routerSize"})
        /\ Counted(u) => Counted(t)
        /\ Settled(t)
    BY <2>1, <2>3, ProcessGood
  <2>5. Counted(s) => Counted(u)
    <3>1. u.tenders = s.tenders /\ u.routerSize = s.routerSize
      BY <2>3 DEF Only, Fields
    <3> QED
      BY <3>1 DEF Counted, PiecesAsked
  <2>6. Only(s, t, {"tenders", "pendingRouter", "routerSize"})
    BY <2>3, <2>4 DEF Only
  <2> QED
    BY <2>4, <2>5, <2>6
<1>2. CASE ~ IsPiece(id)
  <2>1. t = [s EXCEPT !.tenders = @ \cup {id}]
    BY <1>2 DEF NotStored
  <2>2. t \in Kernel /\ Good(t) /\ Only(s, t, {"tenders"})
    BY <2>1, ToTenderGood
  <2>3. t.tenders = s.tenders \cup {id}
    BY <2>1 DEF Kernel
  <2>4. /\ PiecesAsked(t) = PiecesAsked(s) /\ t.routerSize = s.routerSize
        /\ t.pendingRouter = s.pendingRouter
    BY <1>2, <2>2, <2>3 DEF PiecesAsked, Only, Fields
  <2>5. Only(s, t, {"tenders", "pendingRouter", "routerSize"})
    BY <2>2 DEF Only
  <2> QED
    BY <2>2, <2>4, <2>5 DEF Counted, Settled
<1> QED
  BY <1>1, <1>2

-----------------------------------------------------------------------------
(* Pieces are looked up *)

\* The storage is asked for several pieces.
LEMMA LookUpGood ==
    ASSUME NEW s \in Kernel, Good(s), NEW g \in Get, NEW first \in Nat, NEW n \in Nat, NEW S,
           \A i \in S : i \in Nat /\ first <= i /\ i < first + n =>
               <<g, i>> \in Id /\ Ready(s, <<g, i>>),
           NEW t, t = LookUp(s, g, first, n, S)
    PROVE  /\ t \in Kernel /\ Good(t) /\ Only(s, t, {"storage"})
           /\ \A x \in Id : UnderWay(t, x) <=>
                 \/ UnderWay(s, x)
                 \/ \E i \in S : i \in Nat /\ first <= i /\ i < first + n /\ x = <<g, i>>
<1> DEFINE all == [i \in 1 .. n |-> first + i - 1]
           is == Kept(all, S)
           jobs == [i \in DOMAIN is |-> Job("look_up", <<g, is[i]>>)]
           q == s.storage \o jobs
           T == {i \in S : i \in Nat /\ first <= i /\ i < first + n}
           Ids == {<<g, i>> : i \in T}
<1>1. all \in Seq(Nat) /\ Once(all) /\ ElementsOf(all) = {i \in Nat : first <= i /\ i < first + n}
  <2>1. all \in Seq(Nat) /\ DOMAIN all = 1 .. n /\ \A i \in 1 .. n : all[i] = first + i - 1
    OBVIOUS
  <2> HIDE DEF all
  <2>2. Once(all)
    BY <2>1 DEF Once
  <2>3. ASSUME NEW i \in Nat, first <= i, i < first + n PROVE i \in ElementsOf(all)
    <3>1. i - first + 1 \in 1 .. n /\ first + (i - first + 1) - 1 = i
      BY <2>3
    <3> QED
      BY <2>1, <3>1 DEF ElementsOf
  <2>4. \A i \in ElementsOf(all) : i \in Nat /\ first <= i /\ i < first + n
    BY <2>1 DEF ElementsOf
  <2> QED
    BY <2>1, <2>2, <2>3, <2>4
<1> HIDE DEF all
<1>2. is \in Seq(Nat) /\ Once(is) /\ ElementsOf(is) = T
  <2>1. is \in Seq(Nat) /\ ElementsOf(is) = ElementsOf(all) \cap S /\ Once(is)
    BY <1>1, KeptElements
  <2> QED
    BY <1>1, <2>1
<1> HIDE DEF is
<1>3. \A i \in T : <<g, i>> \in Id /\ Ready(s, <<g, i>>)
  OBVIOUS
<1> HIDE DEF T
<1>4. /\ jobs \in Seq(JobType) /\ Once(jobs)
      /\ ElementsOf(jobs) = {Job("look_up", x) : x \in Ids}
  <2>1. DOMAIN is = 1 .. Len(is) /\ Len(is) \in Nat
    BY <1>2
  <2>2. \A i \in DOMAIN is : <<g, is[i]>> \in Id /\ is[i] \in T
    BY <1>2, <1>3 DEF ElementsOf
  <2>3. \A i \in DOMAIN is : jobs[i] \in JobType /\ jobs[i] = Job("look_up", <<g, is[i]>>)
    BY <2>2 DEF Job, JobType
  <2>4. DOMAIN jobs = DOMAIN is /\ jobs \in Seq(JobType)
    BY <2>1, <2>3
  <2> HIDE DEF jobs
  <2>5. Once(jobs)
    BY <1>2, <2>3, <2>4 DEF Once, Job
  <2>6. \A i \in T : \E j \in DOMAIN is : is[j] = i
    BY <1>2 DEF ElementsOf
  <2>7. \A x : x \in ElementsOf(jobs) <=> \E i \in T : x = Job("look_up", <<g, i>>)
    <3>1. \A x : x \in ElementsOf(jobs) <=> \E i \in DOMAIN is : x = jobs[i]
      BY <2>4 DEF ElementsOf
    <3>2. \A x : x \in ElementsOf(jobs) <=> \E i \in DOMAIN is : x = Job("look_up", <<g, is[i]>>)
      BY <2>3, <3>1
    <3> QED
      BY <2>2, <2>6, <3>2
  <2> QED
    BY <2>4, <2>5, <2>7
<1> HIDE DEF jobs
<1>5. \A x \in Ids : x \in Id /\ Ready(s, x)
  BY <1>3
<1>6. s.storage \in Seq(JobType)
  BY KernelTypes
<1>7. /\ q \in Seq(JobType) /\ ElementsOf(q) = ElementsOf(s.storage) \cup ElementsOf(jobs)
      /\ Once(q) <=> /\ Once(s.storage) /\ Once(jobs)
                     /\ ElementsOf(s.storage) \cap ElementsOf(jobs) = {}
  BY <1>4, <1>6, JoinedElements
<1>8. t = [s EXCEPT !.storage = q]
  BY DEF LookUp, Job, jobs, is, all
<1> HIDE DEF q
<1>9. t \in Kernel /\ Only(s, t, {"storage"}) /\ t.storage = q
  BY <1>7, <1>8 DEF Kernel, Only, Fields, JobType
<1> HIDE DEF Ids
<1>10. \A w, x : Job(w, x) \in ElementsOf(q) <=>
             Job(w, x) \in ElementsOf(s.storage) \/ (w = "look_up" /\ x \in Ids)
  BY <1>4, <1>7 DEF Job
<1>11. \A x : AtStorage(t, x) <=> AtStorage(s, x) \/ x \in Ids
  BY <1>9, <1>10 DEF AtStorage
<1>12. /\ t.pendingRouter = s.pendingRouter /\ t.tenders = s.tenders /\ t.key = s.key
       /\ t.requests = s.requests
  BY <1>9 DEF Only, Fields
<1>13. \A x : UnderWay(t, x) <=> UnderWay(s, x) \/ x \in Ids
  BY <1>11, <1>12 DEF UnderWay, Waits, AtKey
<1>14. Once(t.storage) /\ Once(t.pendingRouter) /\ Once(t.key)
  <2>1. \A x \in Ids : Job("look_up", x) \notin ElementsOf(s.storage)
    BY <1>5 DEF Ready, UnderWay, AtStorage
  <2> QED
    BY <1>4, <1>7, <1>9, <1>12, <2>1 DEF Good, OnePlace
<1>15. ASSUME NEW x \in Ids PROVE PlaceOf(t, x) /\ Known(t, x)
  <2>1. ~ Waits(s, x) /\ x \notin s.tenders /\ ~ AtKey(s, x) /\ Known(s, x)
    BY <1>5 DEF Ready, UnderWay
  <2>2. Job("get", x) \notin ElementsOf(t.storage)
    BY <1>5, <1>9, <1>10 DEF Ready, UnderWay, AtStorage
  <2> QED
    BY <1>12, <2>1, <2>2 DEF PlaceOf, Waits, AtKey, Known
<1>16. ASSUME NEW x \in Id, x \notin Ids PROVE LessThere(s, t, x)
  BY <1>9, <1>10, <1>12, <1>16 DEF LessThere, Waits, AtKey
<1>17. OnePlace(t)
  <2>1. \A x \in Id : LessThere(s, t, x) \/ (PlaceOf(t, x) /\ Known(t, x))
    BY <1>15, <1>16
  <2>2. OnePlace(s) /\ \A x \in Id : UnderWay(s, x) /\ Known(s, x) => Known(t, x)
    BY <1>12 DEF Good, Known
  <2> QED
    BY <1>14, <2>1, <2>2, StillPlaced
<1>18. Good(t)
  <2>1. Only(s, t, {"storage", "pendingRouter", "key", "tenders", "routerSize", "cache"})
    BY <1>9 DEF Only
  <2>2. \A x \in Id : UnderWay(t, x) => UnderWay(s, x) \/ Ready(s, x)
    BY <1>5, <1>13
  <2> QED
    BY <1>9, <1>17, <2>1, <2>2, AskingGood
<1>19. \A x : x \in Ids <=> \E i \in S : i \in Nat /\ first <= i /\ i < first + n /\ x = <<g, i>>
  BY DEF Ids, T
<1> QED
  BY <1>9, <1>13, <1>18, <1>19

\* What the invariant says of a request that gets a stream.
LEMMA StreamingFacts ==
    ASSUME NEW s \in Kernel, Good(s), NEW g \in Get, Known(s, Root(g)), ListOf(s, g) # None,
           NEW o, o = s.uuid[g]
    PROVE  /\ o \in Object /\ o \in Media /\ Listed(s, g) /\ g \in s.ims
           /\ s.chunk[o] \in [Chunks(o) -> {"no", "requested", "available"}]
           /\ \A i \in Chunks(o) : s.chunk[o][i] = "no" => i \in PiecesOf(o)
           /\ Regular(o, s.range[g]) /\ IsStream(s, g, s.told[g])
           /\ s.curr[g] \in Nat /\ s.last[g] \in 0 .. Number(o)
           /\ \A i \in s.curr[g] .. s.last[g] - 1 : i \in Chunks(o)
<1>1. o \in Object
  BY KernelTypes
<1>2. Listed(s, g) /\ g \in s.ims
  BY <1>1 DEF Good, Lists, Listed
<1>3. /\ s.chunk[o] \in [Chunks(o) -> {"no", "requested", "available"}] /\ o \in Media
      /\ \A i \in Chunks(o) \ PiecesOf(o) : s.chunk[o][i] = "available"
  BY <1>1 DEF Good, Lists, ListOf
<1>4. IsStream(s, g, s.told[g])
  BY <1>2 DEF Good, Told, ToldOf
<1>5. Regular(o, s.range[g]) /\ s.last[g] = LastChunk(o, s.range[g])
  BY <1>4 DEF IsStream
<1>6. s.range[g] \in Int \X Int /\ s.curr[g] \in Nat
  BY KernelTypes
<1>7. s.last[g] \in 0 .. Number(o)
  BY <1>1, <1>5, <1>6, ChunkRange
<1>8. Chunks(o) = 0 .. Number(o) - 1 /\ Number(o) \in Nat
  BY <1>1, ChunksOf
<1>9. \A i \in s.curr[g] .. s.last[g] - 1 : i \in Chunks(o)
  BY <1>6, <1>7, <1>8
<1> QED
  BY <1>1, <1>2, <1>3, <1>4, <1>5, <1>6, <1>7, <1>9

\* What serving streams does to the kernel: requests of new pieces, and chunks that
\* are marked and sent.
Serves(s, t) ==
    /\ t \in Kernel /\ Good(t) /\ Grows(s, t)
    /\ Only(s, t, {"curr", "told", "chunk", "requests", "storage"})
    /\ \A x \in s.requests : x \in t.requests /\ (UnderWay(t, x) <=> UnderWay(s, x))
    /\ \A g \in Get : Known(t, Root(g)) => Known(s, Root(g))
    /\ \A o \in Object : t.chunk[o] = None <=> s.chunk[o] = None

LEMMA ServesTwice ==
    ASSUME NEW s \in Kernel, NEW t, NEW u, Serves(s, t), Serves(t, u)
    PROVE  Serves(s, u)
<1>1. t \in Kernel /\ u \in Kernel /\ Good(u) /\ Grows(s, u)
  BY GrowsTwice DEF Serves
<1>2. Only(s, u, {"curr", "told", "chunk", "requests", "storage"})
  BY DEF Serves, Only
<1> QED
  BY <1>1, <1>2 DEF Serves

LEMMA ServesNot ==
    ASSUME NEW s \in Kernel, Good(s)
    PROVE  Serves(s, s)
BY GrowsSame DEF Serves, Only, Fields

\* A list of chunks is set.
IsList(p, c) == c = None \/ c \in [Chunks(p) -> {"no", "requested", "available"}]
WithChunks(s, p, c, rs) == [s EXCEPT !.chunk[p] = c, !.requests = rs]

LEMMA ChunksSet ==
    ASSUME NEW s \in Kernel, NEW p \in Object, NEW rs \in SUBSET Id, NEW c, IsList(p, c),
           NEW t, t = WithChunks(s, p, c, rs)
    PROVE  /\ t \in Kernel /\ Only(s, t, {"chunk", "requests"})
           /\ t.chunk = [s.chunk EXCEPT ![p] = c] /\ t.requests = rs
<1> DEFINE U == {None} \cup
                  UNION {[Chunks(o) -> {"no", "requested", "available"}] : o \in Object}
           w == [s.chunk EXCEPT ![p] = c]
<1>1. s.chunk \in [Object -> U]
  BY DEF Kernel
<1>2. c \in U
  BY DEF IsList
<1> HIDE DEF U
<1>3. w \in [Object -> U]
  BY <1>1, <1>2
<1>4. t = [s EXCEPT !.chunk = w, !.requests = rs]
  BY DEF Kernel, WithChunks
<1> HIDE DEF w
<1>5. t \in Kernel
  BY <1>3, <1>4 DEF Kernel, U
<1>6. Only(s, t, {"chunk", "requests"}) /\ t.chunk = w /\ t.requests = rs
  BY <1>4 DEF Kernel, Only, Fields
<1> QED
  BY <1>5, <1>6 DEF w

\* Chunks are marked, and their pieces requested.
Marked(s, g, c, new) == WithChunks(s, s.uuid[g], c, s.requests \cup {<<g, i>> : i \in new})

LEMMA MarkGood ==
    ASSUME NEW s \in Kernel, Good(s), NEW g \in Get, Known(s, Root(g)), ListOf(s, g) # None,
           NEW new, \A i \in new : i \in PiecesOf(s.uuid[g]) /\ ~ Known(s, <<g, i>>),
           NEW c \in [Chunks(s.uuid[g]) -> {"no", "requested", "available"}],
           \A i \in Chunks(s.uuid[g]) : s.chunk[s.uuid[g]][i] # "no" \/ i \in new => c[i] # "no",
           \A i \in Chunks(s.uuid[g]) :
               s.chunk[s.uuid[g]][i] = "available" => c[i] = "available",
           NEW t, t = Marked(s, g, c, new)
    PROVE  Serves(s, t)
<1> DEFINE o == s.uuid[g]
           more == {<<g, i>> : i \in new}
<1>1. /\ o \in Object /\ o \in Media /\ g \in s.ims
      /\ s.chunk[o] \in [Chunks(o) -> {"no", "requested", "available"}]
  BY StreamingFacts
<1>2. \A i \in new : <<g, i>> \in Id /\ IsPiece(<<g, i>>) /\ i \in PiecesOf(o) /\ ~ Known(s, <<g, i>>)
  BY <1>1, PieceFacts
<1>3. IsList(o, c)
  BY DEF IsList
<1> HIDE DEF o
<1>4. t = WithChunks(s, o, c, s.requests \cup more)
  BY DEF o, Marked
<1>5. \A x \in more : x \in Id /\ IsPiece(x) /\ ~ Known(s, x) /\ Parent(x) = g
                      /\ x[2] \in new /\ x = <<g, x[2]>>
  BY <1>2 DEF Parent
<1> HIDE DEF more
<1>6. s.requests \cup more \subseteq Id
  BY <1>5, KernelTypes
<1>7. /\ t \in Kernel /\ Only(s, t, {"chunk", "requests"})
      /\ t.chunk = [s.chunk EXCEPT ![o] = c] /\ t.requests = s.requests \cup more
  <2> DEFINE rs == s.requests \cup more
  <2>1. rs \in SUBSET Id /\ t = WithChunks(s, o, c, rs)
    BY <1>4, <1>6
  <2> HIDE DEF rs
  <2>2. /\ t \in Kernel /\ Only(s, t, {"chunk", "requests"})
        /\ t.chunk = [s.chunk EXCEPT ![o] = c] /\ t.requests = rs
    BY <1>1, <1>3, <2>1, ChunksSet
  <2> QED
    BY <2>2 DEF rs
<1>8. /\ t.uuid = s.uuid /\ t.units = s.units /\ t.range = s.range /\ t.curr = s.curr
      /\ t.last = s.last /\ t.aborted = s.aborted /\ t.cleaned = s.cleaned /\ t.ims = s.ims
      /\ t.storage = s.storage /\ t.pendingRouter = s.pendingRouter /\ t.key = s.key
      /\ t.tenders = s.tenders /\ t.told = s.told /\ t.waiting = s.waiting
  BY <1>7 DEF Only, Fields
<1>9. \A x : UnderWay(t, x) <=> UnderWay(s, x)
  BY <1>8 DEF UnderWay, AtStorage, Waits, AtKey
<1>10. \A h : Known(t, Root(h)) <=> Known(s, Root(h))
  <2>1. \A h : ~ IsPiece(Root(h))
    BY DEF Root, IsPiece
  <2> QED
    BY <1>5, <1>7, <2>1 DEF Known
<1>11. /\ \A h : Leads(t, h) <=> Leads(s, h)
       /\ \A h : Listed(t, h) <=> Listed(s, h)
  BY <1>8 DEF Leads, Listed
<1>12. /\ \A p \in Object : t.chunk[p] = IF p = o THEN c ELSE s.chunk[p]
       /\ c # None /\ s.chunk[o] # None
  <2>1. s.chunk[o] # None
    BY DEF ListOf, o
  <2>2. c # None
    BY <1>1, FileAssumption DEF o
  <2> QED
    BY <1>7, <2>1, <2>2, KernelTypes
<1>13. \A p \in Object : t.chunk[p] = None <=> s.chunk[p] = None
  BY <1>12
<1>14. \A h \in Get : ListOf(t, h) = None <=> ListOf(s, h) = None
  BY <1>8, <1>13, KernelTypes DEF ListOf
<1>15. OnePlace(t)
  <2>1. \A x \in Id : UnderWay(s, x) => Known(t, x)
    BY <1>7 DEF Good, OnePlace, Known
  <2>2. \A x \in Id : PlaceOf(t, x)
    BY <1>8 DEF Good, OnePlace, PlaceOf, AtStorage, Waits, AtKey
  <2> QED
    BY <1>8, <1>9, <2>1, <2>2 DEF Good, OnePlace
<1>16. Lists(t)
  <2>1. ASSUME NEW p \in Object, t.chunk[p] # None
        PROVE  /\ t.chunk[p] \in [Chunks(p) -> {"no", "requested", "available"}]
               /\ \A i \in Chunks(p) \ PiecesOf(p) : t.chunk[p][i] = "available"
               /\ p \in Media /\ t.waiting[p] # <<>>
    <3>1. /\ s.chunk[p] \in [Chunks(p) -> {"no", "requested", "available"}]
          /\ \A i \in Chunks(p) \ PiecesOf(p) : s.chunk[p][i] = "available"
          /\ p \in Media /\ s.waiting[p] # <<>>
      BY <1>13, <2>1 DEF Good, Lists
    <3>2. CASE p = o
      BY <1>8, <1>12, <3>1, <3>2 DEF o
    <3>3. CASE p # o
      BY <1>8, <1>12, <3>1, <3>3
    <3> QED
      BY <3>2, <3>3
  <2>2. \A p \in Object :
            /\ Once(t.waiting[p])
            /\ \A h \in ElementsOf(t.waiting[p]) : t.uuid[h] = p /\ h \in t.ims /\ Known(t, Root(h))
    <3>1. \A p \in Object :
            /\ Once(s.waiting[p])
            /\ \A h \in ElementsOf(s.waiting[p]) : s.uuid[h] = p /\ h \in s.ims /\ Known(s, Root(h))
      BY DEF Good, Lists
    <3> SUFFICES ASSUME NEW p \in Object
                 PROVE  /\ Once(t.waiting[p])
                        /\ \A h \in ElementsOf(t.waiting[p]) :
                              t.uuid[h] = p /\ h \in t.ims /\ Known(t, Root(h))
      OBVIOUS
    <3>2. t.waiting[p] = s.waiting[p]
      BY <1>8
    <3> QED
      BY <1>8, <1>10, <3>1, <3>2
  <2>3. \A h \in Get : Known(t, Root(h)) => Listed(t, h)
    BY <1>10, <1>11 DEF Good, Lists
  <2> QED
    BY <2>1, <2>2, <2>3 DEF Lists
<1>17. Masters(t)
  <2> SUFFICES ASSUME NEW h \in Get, UnderWay(s, Root(h))
               PROVE  /\ Leads(t, h) /\ ListOf(t, h) = None
                      /\ \A id \in t.requests : IsPiece(id) => Parent(id) # h
    BY <1>9 DEF Masters
  <2>1. /\ Leads(s, h) /\ ListOf(s, h) = None
        /\ \A id \in s.requests : IsPiece(id) => Parent(id) # h
    BY DEF Good, Masters
  <2> QED
    BY <1>5, <1>7, <1>11, <1>14, <2>1
<1>18. Pieces(t)
  <2> SUFFICES ASSUME NEW id \in t.requests, IsPiece(id)
               PROVE  LET h == Parent(id)
                      IN /\ id[2] \in PiecesOf(t.uuid[h])
                         /\ h \in t.ims \/ t.told[h] # <<>>
                         /\ Known(t, Root(h)) =>
                              IF t.uuid[h] \in Media
                              THEN ListOf(t, h) # None /\ ListOf(t, h)[id[2]] # "no"
                              ELSE Leads(t, h)
    BY DEF Pieces
  <2>1. CASE id \in more
    <3>1. Parent(id) = g /\ id[2] \in new /\ id[2] \in PiecesOf(o) /\ id[2] \in Chunks(o)
      BY <1>1, <1>2, <1>5, <2>1, ChunksOf
    <3>2. ListOf(t, g) = c
      BY <1>1, <1>8, <1>12 DEF ListOf, o
    <3> QED
      BY <1>1, <1>8, <1>12, <3>1, <3>2 DEF o
  <2>2. CASE id \in s.requests
    <3> DEFINE h == Parent(id)
    <3>1. id \in Id /\ h \in Get
      BY <2>2, KernelTypes, IdFacts
    <3>2. /\ id[2] \in PiecesOf(s.uuid[h])
          /\ h \in s.ims \/ s.told[h] # <<>>
          /\ Known(s, Root(h)) =>
                IF s.uuid[h] \in Media THEN ListOf(s, h) # None /\ ListOf(s, h)[id[2]] # "no"
                                       ELSE Leads(s, h)
      BY <2>2 DEF Good, Pieces
    <3> HIDE DEF h
    <3>3. s.uuid[h] \in Object
      BY <3>1, KernelTypes
    <3>4. id[2] \in Chunks(s.uuid[h])
      BY <3>2, <3>3, ChunksOf
    <3>5. ListOf(s, h)[id[2]] # "no" => ListOf(t, h)[id[2]] # "no"
      <4>1. ListOf(t, h) = IF s.uuid[h] = o THEN c ELSE ListOf(s, h)
        BY <1>8, <1>12, <3>3 DEF ListOf
      <4>2. s.uuid[h] = o /\ ListOf(s, h)[id[2]] # "no" => c[id[2]] # "no"
        BY <3>4 DEF ListOf, o
      <4> QED
        BY <4>1, <4>2
    <3> QED
      BY <1>8, <1>10, <1>11, <1>14, <3>1, <3>2, <3>5 DEF h
  <2> QED
    BY <1>7, <2>1, <2>2
<1>19. Units(t)
  BY <1>7, <1>8, <1>9 DEF Good, Units, Known
<1>20. Told(t)
  <2> SUFFICES ASSUME NEW h \in Get PROVE ToldOf(t, h)
    BY DEF Told
  <2>1. \A q : IsStream(t, h, q) <=> IsStream(s, h, q)
    BY <1>8, IsStreamSame
  <2>2. ToldOf(s, h)
    BY DEF Good, Told
  <2> QED
    BY <1>8, <1>11, <1>14, <2>1, <2>2 DEF ToldOf
<1>21. Good(t)
  <2>1. Streams(t)
    BY <1>8, StreamsSame DEF Good
  <2> QED
    BY <1>8, <1>15, <1>16, <1>17, <1>18, <1>19, <1>20, <2>1 DEF Good
<1>22. Only(s, t, {"curr", "told", "chunk", "requests", "storage"})
  BY <1>7 DEF Only
<1>23. Grows(s, t)
  BY <1>8, GrowsSame
<1> QED
  BY <1>7, <1>9, <1>10, <1>13, <1>21, <1>22, <1>23 DEF Serves

\* post_storage_next_streaming_chunk_get_request
LEMMA AskNextChunksServes ==
    ASSUME NEW s \in Kernel, Good(s), NEW g \in Get, Known(s, Root(g)), ListOf(s, g) # None,
           NEW t, t = AskNextChunks(s, g)
    PROVE  Serves(s, t)
<1> DEFINE o == s.uuid[g]
           new == {i \in s.curr[g] .. s.last[g] - 1 :
                      i < s.curr[g] + MaxGet /\ s.chunk[o][i] = "no"}
           c == [i \in Chunks(o) |-> IF i \in new THEN "requested" ELSE s.chunk[o][i]]
           v == Marked(s, g, c, new)
<1>1. /\ o \in Object /\ o \in Media
      /\ s.chunk[o] \in [Chunks(o) -> {"no", "requested", "available"}]
      /\ \A i \in Chunks(o) : s.chunk[o][i] = "no" => i \in PiecesOf(o)
      /\ s.curr[g] \in Nat /\ s.last[g] \in 0 .. Number(o)
      /\ \A i \in s.curr[g] .. s.last[g] - 1 : i \in Chunks(o)
  BY StreamingFacts
<1>2. \A i \in new : i \in Nat /\ s.curr[g] <= i /\ i < s.curr[g] + MaxGet
                     /\ i \in PiecesOf(o) /\ s.chunk[o][i] = "no"
  <2>1. Number(o) \in Nat
    BY <1>1, ChunksOf
  <2> QED
    BY <1>1, <2>1
<1>3. t = LookUp(v, g, s.curr[g], MaxGet, new)
  <2>1. v = [s EXCEPT !.chunk[o] = [i \in Chunks(o) |-> IF i \in new THEN "requested" ELSE @[i]],
                      !.requests = @ \cup {<<g, i>> : i \in new}]
    BY <1>1 DEF Kernel, Marked, WithChunks
  <2> HIDE DEF v, c, new
  <2> QED
    BY <2>1 DEF AskNextChunks, new
<1> HIDE DEF new
<1>4. c \in [Chunks(o) -> {"no", "requested", "available"}]
  BY <1>1
<1>5. \A i \in Chunks(o) : /\ s.chunk[o][i] # "no" \/ i \in new => c[i] # "no"
                           /\ s.chunk[o][i] = "available" => c[i] = "available"
  BY <1>2
<1> HIDE DEF c
<1>6. \A i \in new : ~ Known(s, <<g, i>>)
  <2> SUFFICES ASSUME NEW i \in new, <<g, i>> \in s.requests PROVE FALSE
    BY DEF Known
  <2>1. IsPiece(<<g, i>>) /\ Parent(<<g, i>>) = g /\ <<g, i>>[2] = i
    BY <1>1, <1>2, PieceFacts
  <2>2. ListOf(s, g)[i] # "no"
    BY <1>1, <2>1 DEF Good, Pieces
  <2> QED
    BY <1>2, <2>2 DEF ListOf
<1>7. Serves(s, v)
  BY <1>2, <1>4, <1>5, <1>6, MarkGood
<1>8. Only(s, v, {"chunk", "requests"}) /\ v.requests = s.requests \cup {<<g, i>> : i \in new}
  BY DEF Kernel, Only, Fields, Marked, WithChunks
<1> HIDE DEF v
<1>9. v \in Kernel /\ Good(v)
  BY <1>7 DEF Serves
<1>10. ASSUME NEW i \in new PROVE <<g, i>> \in Id /\ Ready(v, <<g, i>>) /\ ~ Known(s, <<g, i>>)
  <2>1. <<g, i>> \in Id /\ IsPiece(<<g, i>>) /\ Parent(<<g, i>>) = g /\ <<g, i>>[2] = i
    BY <1>1, <1>2, PieceFacts
  <2>2. ~ UnderWay(s, <<g, i>>)
    BY <1>6, <2>1 DEF Good, OnePlace
  <2>3. ~ UnderWay(v, <<g, i>>) /\ v.units = s.units
    BY <1>8, <2>2 DEF UnderWay, AtStorage, Waits, AtKey, Only, Fields
  <2>4. i \notin s.units[g]
    BY <1>1 DEF Good, Units
  <2> QED
    BY <1>6, <1>8, <2>1, <2>3, <2>4 DEF Ready, Known
<1>11. s.curr[g] \in Nat /\ MaxGet \in Nat
  BY <1>1, GetLimits
<1>12. /\ t \in Kernel /\ Good(t) /\ Only(v, t, {"storage"})
       /\ \A x \in Id : UnderWay(t, x) <=>
             \/ UnderWay(v, x)
             \/ \E i \in new : i \in Nat /\ s.curr[g] <= i /\ i < s.curr[g] + MaxGet /\ x = <<g, i>>
  BY <1>3, <1>9, <1>10, <1>11, LookUpGood
<1>13. \A x \in s.requests : x \in t.requests /\ (UnderWay(t, x) <=> UnderWay(s, x))
  <2> SUFFICES ASSUME NEW x \in s.requests
               PROVE  x \in t.requests /\ (UnderWay(t, x) <=> UnderWay(s, x))
    OBVIOUS
  <2>1. x \in Id /\ x \in v.requests /\ (UnderWay(v, x) <=> UnderWay(s, x))
    BY <1>7, KernelTypes DEF Serves
  <2>2. x \in t.requests
    BY <1>12, <2>1 DEF Only, Fields
  <2>3. \A i \in new : x # <<g, i>>
    BY <1>6 DEF Known
  <2> QED
    BY <1>12, <2>1, <2>2, <2>3
<1>14. /\ \A h \in Get : Known(t, Root(h)) => Known(s, Root(h))
       /\ \A p \in Object : t.chunk[p] = None <=> s.chunk[p] = None
  <2>1. t.requests = v.requests /\ t.chunk = v.chunk
    BY <1>12 DEF Only, Fields
  <2> QED
    BY <1>7, <2>1 DEF Serves, Known
<1>15. Grows(s, t)
  <2>1. t.told = v.told /\ t.cleaned = v.cleaned
    BY <1>12 DEF Only, Fields
  <2> QED
    BY <1>7, <2>1 DEF Serves, Grows
<1>16. Only(s, t, {"curr", "told", "chunk", "requests", "storage"})
  BY <1>8, <1>12 DEF Only
<1> QED
  BY <1>12, <1>13, <1>14, <1>15, <1>16 DEF Serves

-----------------------------------------------------------------------------
(* Streams *)

PartsFrom(o, r, a, n) == [i \in 1 .. n |-> PartOf(o, a + i - 1, r)]

\* The n chunks from a on.
Within(o, a, n) == \A i \in 1 .. n : a + i - 1 \in Chunks(o)

LEMMA PartsTypes ==
    ASSUME NEW o \in Object, NEW r \in Int \X Int, NEW a \in Nat, NEW n \in Nat,
           Within(o, a, n)
    PROVE  /\ PartsFrom(o, r, a, n) \in Seq(Message) /\ Len(PartsFrom(o, r, a, n)) = n
           /\ \A i \in 1 .. n : PartsFrom(o, r, a, n)[i] = PartOf(o, a + i - 1, r)
<1>1. \A i \in 1 .. n : a + i - 1 \in Chunks(o)
  BY DEF Within
<1>2. \A i \in 1 .. n : PartOf(o, a + i - 1, r) \in Message
  BY <1>1, PartTypes
<1> QED
  BY <1>2 DEF PartsFrom

\* More chunks follow those that have been sent.
LEMMA PartsJoin ==
    ASSUME NEW o \in Object, NEW r \in Int \X Int, NEW a \in Nat, NEW b \in Nat, NEW c \in Nat,
           a <= b, b <= c, \A i \in a .. c - 1 : i \in Chunks(o)
    PROVE  PartsFrom(o, r, a, c - a) = PartsFrom(o, r, a, b - a) \o PartsFrom(o, r, b, c - b)
<1>0. PICK x \in Nat, y \in Nat, z \in Nat : x = c - a /\ y = b - a /\ z = c - b
  OBVIOUS
<1> DEFINE us == PartsFrom(o, r, a, x)
           front == PartsFrom(o, r, a, y)
           behind == PartsFrom(o, r, b, z)
<1>1. Within(o, a, x) /\ Within(o, a, y) /\ Within(o, b, z)
  BY <1>0 DEF Within
<1>2. /\ us \in Seq(Message) /\ Len(us) = x
      /\ \A i \in 1 .. x : us[i] = PartOf(o, a + i - 1, r)
  BY <1>1, PartsTypes
<1>3. /\ front \in Seq(Message) /\ Len(front) = y
      /\ \A i \in 1 .. y : front[i] = PartOf(o, a + i - 1, r)
  BY <1>1, PartsTypes
<1>4. /\ behind \in Seq(Message) /\ Len(behind) = z
      /\ \A i \in 1 .. z : behind[i] = PartOf(o, b + i - 1, r)
  BY <1>1, PartsTypes
<1> HIDE DEF us, front, behind
<1>5. \A i \in 1 .. Len(front) : front[i] = us[i]
  BY <1>0, <1>2, <1>3
<1>6. \A i \in 1 .. Len(behind) : behind[i] = us[Len(front) + i]
  <2> SUFFICES ASSUME NEW i \in 1 .. z PROVE behind[i] = us[y + i]
    BY <1>3, <1>4
  <2>1. y + i \in 1 .. x /\ a + (y + i) - 1 = b + i - 1
    BY <1>0
  <2> QED
    BY <1>2, <1>4, <2>1
<1>7. Len(us) = Len(front) + Len(behind)
  BY <1>0, <1>2, <1>3, <1>4
<1>8. us = front \o behind
  BY <1>2, <1>3, <1>4, <1>5, <1>6, <1>7, TwoParts
<1> QED
  BY <1>0, <1>8 DEF us, front, behind

LEMMA StreamIs ==
    ASSUME NEW s, NEW g, NEW q
    PROVE  IsStream(s, g, q) <=>
             LET o == s.uuid[g]
                 r == s.range[g]
                 first == FirstChunk(o, r)
             IN /\ o \in Media /\ Regular(o, r)
                /\ s.last[g] = LastChunk(o, r)
                /\ first <= s.curr[g] /\ (s.curr[g] <= s.last[g] \/ s.curr[g] = first)
                /\ q = <<Prepare((s.last[g] - first) % Word)>>
                       \o PartsFrom(o, r, first, s.curr[g] - first)
BY ZenonT(30) DEF IsStream, PartsFrom

\* Only what one client is told and how far it is, is different.
Sent(s, g, next, parts) == [s EXCEPT !.curr[g] = next, !.told[g] = @ \o parts]

\* The invariant, but for what the clients have been told.
Sound(s) ==
    /\ OnePlace(s) /\ Lists(s) /\ Masters(s) /\ Pieces(s) /\ Units(s)
    /\ Streams(s) /\ ~ s.aborted

LEMMA ToldServes ==
    ASSUME NEW s \in Kernel, Sound(s), NEW t \in Kernel, Only(s, t, {"curr", "last", "range", "told"}),
           Grows(s, t), \A g \in Get : ToldOf(t, g)
    PROVE  Good(t)
<1>1. /\ t.uuid = s.uuid /\ t.units = s.units /\ t.chunk = s.chunk
      /\ t.aborted = s.aborted /\ t.cleaned = s.cleaned /\ t.ims = s.ims /\ t.requests = s.requests
      /\ t.storage = s.storage /\ t.pendingRouter = s.pendingRouter /\ t.key = s.key
      /\ t.tenders = s.tenders /\ t.waiting = s.waiting
  BY DEF Only, Fields
<1>2. \A x : UnderWay(t, x) <=> UnderWay(s, x)
  BY <1>1 DEF UnderWay, AtStorage, Waits, AtKey
<1>3. OnePlace(t)
  BY <1>1, <1>2 DEF Sound, OnePlace, PlaceOf, AtStorage, Waits, AtKey, Known
<1>4. Lists(t)
  BY <1>1 DEF Sound, Lists, Listed, Known
<1>5. Masters(t)
  BY <1>1, <1>2 DEF Sound, Masters, Leads, ListOf
<1>6. Pieces(t)
  <2> SUFFICES ASSUME NEW id \in s.requests, IsPiece(id)
               PROVE  LET h == Parent(id)
                      IN /\ id[2] \in PiecesOf(s.uuid[h])
                         /\ h \in s.ims \/ t.told[h] # <<>>
                         /\ Known(s, Root(h)) =>
                              IF s.uuid[h] \in Media
                              THEN ListOf(s, h) # None /\ ListOf(s, h)[id[2]] # "no"
                              ELSE Leads(s, h)
    BY <1>1 DEF Pieces, Known, ListOf, Leads
  <2> DEFINE h == Parent(id)
  <2>1. /\ id[2] \in PiecesOf(s.uuid[h])
        /\ h \in s.ims \/ s.told[h] # <<>>
        /\ Known(s, Root(h)) =>
              IF s.uuid[h] \in Media THEN ListOf(s, h) # None /\ ListOf(s, h)[id[2]] # "no"
                                     ELSE Leads(s, h)
    BY DEF Sound, Pieces
  <2>2. h \in Get
    BY KernelTypes, IdFacts
  <2> HIDE DEF h
  <2>3. s.told[h] # <<>> => t.told[h] # <<>>
    <3>1. s.told[h] \in Seq(Message) /\ t.told[h] \in Seq(Message) /\ Longer(s.told[h], t.told[h])
      BY <2>2, KernelTypes DEF Grows
    <3> QED
      BY <3>1 DEF Longer
  <2> QED
    BY <2>1, <2>3 DEF h
<1>7. Units(t)
  BY <1>1, <1>2 DEF Sound, Units, Known
<1>8. Told(t)
  BY DEF Told
<1>9. Streams(t)
  BY <1>1, StreamsGrow DEF Sound
<1> QED
  BY <1>1, <1>3, <1>4, <1>5, <1>6, <1>7, <1>8, <1>9 DEF Good, Sound

LEMMA SentServes ==
    ASSUME NEW s \in Kernel, Good(s), NEW g \in Get, Known(s, Root(g)), ListOf(s, g) # None,
           NEW next \in Nat, s.curr[g] <= next, next <= s.last[g] \/ next = s.curr[g],
           NEW parts, parts = PartsFrom(s.uuid[g], s.range[g], s.curr[g], next - s.curr[g]),
           NEW t, t = Sent(s, g, next, parts)
    PROVE  Serves(s, t) /\ Only(s, t, {"curr", "told"})
<1> DEFINE o == s.uuid[g]
           r == s.range[g]
           c == s.curr[g]
           first == FirstChunk(o, r)
           q == s.told[g]
           P == <<Prepare((s.last[g] - first) % Word)>>
<1>1. /\ o \in Object /\ o \in Media /\ Listed(s, g) /\ Regular(o, r) /\ IsStream(s, g, q)
      /\ c \in Nat /\ s.last[g] \in 0 .. Number(o)
      /\ \A i \in c .. s.last[g] - 1 : i \in Chunks(o)
  BY StreamingFacts
<1>2. r \in Int \X Int /\ q \in Seq(Message)
  BY KernelTypes
<1>3. first \in Chunks(o) /\ first \in Nat
  BY <1>1, <1>2, ChunkRange, ChunksOf
<1>4. /\ s.last[g] = LastChunk(o, r)
      /\ first <= c /\ (c <= s.last[g] \/ c = first)
      /\ q = P \o PartsFrom(o, r, first, c - first)
  BY <1>1, StreamIs
<1>5. next - c \in Nat /\ \A i \in c .. c + (next - c) - 1 : i \in Chunks(o)
  BY <1>1
<1>6. parts \in Seq(Message)
  <2>1. Within(o, c, next - c)
    BY <1>1, <1>5 DEF Within
  <2> QED
    BY <1>1, <1>2, <1>5, <2>1, PartsTypes
<1>7. c - first \in Nat /\ \A i \in first .. first + (c - first) - 1 : i \in Chunks(o)
  <2>1. Chunks(o) = 0 .. Number(o) - 1 /\ Number(o) \in Nat
    BY <1>1, ChunksOf
  <2> HIDE DEF c, first
  <2> QED
    BY <1>1, <1>3, <1>4, <2>1
<1>8. PartsFrom(o, r, first, c - first) \in Seq(Message)
  <2>1. Within(o, first, c - first)
    BY <1>3, <1>7 DEF Within
  <2> QED
    BY <1>1, <1>2, <1>3, <1>7, <2>1, PartsTypes
<1>9. PartsFrom(o, r, first, next - first)
        = PartsFrom(o, r, first, c - first) \o PartsFrom(o, r, c, next - c)
  <2> HIDE DEF c, first
  <2>1. ASSUME NEW i \in first .. next - 1 PROVE i \in Chunks(o)
    <3>1. i \in Int
      BY <1>3
    <3>2. CASE i < c
      <4>1. i \in first .. first + (c - first) - 1
        BY <1>1, <1>3, <3>1, <3>2
      <4> QED
        BY <1>7, <4>1
    <3>3. CASE i >= c
      <4>1. i \in c .. c + (next - c) - 1
        BY <1>1, <1>3, <3>1, <3>3
      <4> QED
        BY <1>5, <4>1
    <3> QED
      BY <1>1, <3>1, <3>2, <3>3
  <2>2. c <= next
    BY DEF c
  <2>3. \A i \in first .. next - 1 : i \in Chunks(o)
    BY <2>1
  <2>4. o \in Object /\ r \in Int \X Int
    BY <1>1, <1>2
  <2>5. first \in Nat /\ c \in Nat /\ first <= c
    BY <1>1, <1>3, <1>4
  <2> HIDE DEF o, r
  <2> QED
    BY <2>2, <2>3, <2>4, <2>5, PartsJoin, ZenonT(60)
<1>10. q \o parts = P \o PartsFrom(o, r, first, next - first)
  <2>1. P \in Seq(Message)
    <3>1. s.last[g] - first \in Int /\ Word \in Nat \ {0}
      BY <1>1, <1>3, GetAssumption, GetLimits
    <3>2. (s.last[g] - first) % Word \in 0 .. Word - 1
      BY <3>1
    <3> QED
      BY <3>2 DEF Message
  <2> DEFINE A == PartsFrom(o, r, first, c - first)
  <2>2. (P \o A) \o parts = P \o (A \o parts)
    <3>1. A \in Seq(Message)
      BY <1>8
    <3> HIDE DEF P, A
    <3> QED
      BY <1>6, <2>1, <3>1, ConcatAssociative
  <2> QED
    BY <1>4, <1>9, <2>2
<1> HIDE DEF P
<1>11. s.curr \in [Get -> Nat] /\ s.told \in [Get -> Seq(Message)] /\ q \o parts \in Seq(Message)
  BY <1>2, <1>6, KernelTypes
<1>12. /\ t \in Kernel /\ Only(s, t, {"curr", "told"})
       /\ t.curr = [s.curr EXCEPT ![g] = next] /\ t.told = [s.told EXCEPT ![g] = q \o parts]
  <2> DEFINE cs == [s.curr EXCEPT ![g] = next]
             ts == [s.told EXCEPT ![g] = q \o parts]
  <2>1. cs \in [Get -> Nat] /\ ts \in [Get -> Seq(Message)]
    BY <1>11
  <2>2. t = [s EXCEPT !.curr = cs, !.told = ts]
    BY DEF Sent, Kernel
  <2> HIDE DEF cs, ts
  <2>3. t \in Kernel
    BY <2>1, <2>2 DEF Kernel
  <2>4. Only(s, t, {"curr", "told"}) /\ t.curr = cs /\ t.told = ts
    BY <2>2 DEF Kernel, Only, Fields
  <2> QED
    BY <2>3, <2>4 DEF cs, ts
<1>13. /\ t.uuid = s.uuid /\ t.range = s.range /\ t.last = s.last /\ t.waiting = s.waiting
       /\ t.chunk = s.chunk /\ t.requests = s.requests /\ t.storage = s.storage
       /\ t.pendingRouter = s.pendingRouter /\ t.key = s.key /\ t.tenders = s.tenders
       /\ t.cleaned = s.cleaned
  BY <1>12 DEF Only, Fields
<1>14. Grows(s, t)
  <2>0. g \notin s.cleaned
    BY DEF Good, Lists, Streams
  <2> SUFFICES ASSUME NEW h \in Get
               PROVE  /\ Longer(s.told[h], t.told[h])
                      /\ h # g => t.told[h] = s.told[h]
    BY <1>13, <2>0 DEF Grows
  <2>1. s.told[h] \in Seq(Message)
    BY KernelTypes
  <2>2. CASE h = g
    <3>1. t.told[h] = s.told[h] \o parts
      BY <1>11, <1>12, <2>2
    <3> QED
      BY <1>6, <2>1, <2>2, <3>1, LongerConcat
  <2>3. CASE h # g
    BY <1>11, <1>12, <2>1, <2>3 DEF Longer
  <2> QED
    BY <2>2, <2>3
<1>15. ASSUME NEW h \in Get PROVE ToldOf(t, h)
  <2>1. ToldOf(s, h)
    BY DEF Good, Told
  <2>2. CASE h # g
    <3>1. t.told[h] = s.told[h] /\ t.curr[h] = s.curr[h]
      BY <1>11, <1>12, <2>2
    <3>2. \A x : IsStream(t, h, x) <=> IsStream(s, h, x)
      BY <1>13, <3>1, IsStreamSame
    <3> QED
      BY <1>13, <2>1, <3>1, <3>2 DEF ToldOf, Listed, ListOf
  <2>3. CASE h = g
    <3>1. t.told[g] = q \o parts /\ t.curr[g] = next
      BY <1>11, <1>12
    <3>2. first <= next /\ (next <= s.last[g] \/ next = first)
      BY <1>1, <1>3, <1>4
    <3>3. IsStream(t, g, t.told[g])
      BY <1>1, <1>4, <1>10, <1>13, <3>1, <3>2, StreamIs DEF P
    <3>4. t.told[g] # <<>> /\ t.told[g] \in Seq(Message)
      <4>1. q # <<>>
        <5>1. P \in Seq(Message) /\ P # <<>>
          <6>1. s.last[g] - first \in Int /\ Word \in Nat \ {0}
            BY <1>1, <1>3, GetAssumption, GetLimits
          <6>2. (s.last[g] - first) % Word \in 0 .. Word - 1
            BY <6>1
          <6> QED
            BY <6>2 DEF Message, P
        <5> QED
          BY <1>4, <1>8, <5>1, LongerConcat
      <4> QED
        BY <1>2, <1>6, <3>1, <4>1, LongerConcat
    <3>5. ListOf(t, g) # None
      BY <1>13 DEF ListOf
    <3> QED
      BY <2>3, <3>3, <3>4, <3>5 DEF ToldOf
  <2> QED
    BY <2>2, <2>3
<1>16. Good(t)
  <2>1. Only(s, t, {"curr", "last", "range", "told"})
    BY <1>12 DEF Only
  <2>2. Sound(s)
    BY DEF Good, Sound
  <2> QED
    BY <1>12, <1>14, <1>15, <2>1, <2>2, ToldServes
<1>17. \A x : UnderWay(t, x) <=> UnderWay(s, x)
  BY <1>13 DEF UnderWay, AtStorage, Waits, AtKey
<1>18. Only(s, t, {"curr", "told", "chunk", "requests", "storage"})
  BY <1>12 DEF Only
<1> QED
  BY <1>12, <1>13, <1>14, <1>16, <1>17, <1>18 DEF Serves, Known

LEMMA SendAvailableServes ==
    ASSUME NEW s \in Kernel, Good(s), NEW g \in Get, Known(s, Root(g)), ListOf(s, g) # None,
           NEW t, t = SendAvailableChunks(s, g)
    PROVE  Serves(s, t)
<1> DEFINE o == s.uuid[g]
           c == s.curr[g]
           l == s.last[g]
           Gap == {i \in c .. l - 1 : s.chunk[o][i] # "available"}
           next == IF Gap = {} THEN Max({c, l}) ELSE Min(Gap)
           parts == PartsFrom(o, s.range[g], c, next - c)
           v == Sent(s, g, next, parts)
<1>1. c \in Nat /\ l \in Nat
  BY KernelTypes
<1>2. next \in Nat /\ c <= next /\ (next <= l \/ next = c)
  <2>1. CASE Gap = {}
    <3>1. c + l \in Nat /\ {c, l} \in SUBSET (0 .. c + l)
      BY <1>1
    <3>2. Max({c, l}) \in {c, l} /\ \A x \in {c, l} : x <= Max({c, l})
      <4> HIDE DEF c, l
      <4> QED
        BY <3>1, MaxIs
    <3> QED
      BY <1>1, <2>1, <3>2
  <2>2. CASE Gap # {}
    <3>1. Gap \in SUBSET Nat
      BY <1>1
    <3>2. Min(Gap) \in Gap
      <4> HIDE DEF Gap
      <4> QED
        BY <2>2, <3>1, MinIs
    <3> QED
      <4>1. next = Min(Gap)
        BY <2>2
      <4>2. Min(Gap) \in c .. l - 1
        BY <3>2
      <4> HIDE DEF next, Gap
      <4> QED
        BY <1>1, <4>1, <4>2
  <2> QED
    BY <2>1, <2>2
<1>3. t = AskNextChunks(v, g)
  BY DEF SendAvailableChunks, Sent, PartsFrom
<1> HIDE DEF next
<1>4. Serves(s, v) /\ Only(s, v, {"curr", "told"})
  BY <1>2, SentServes
<1> HIDE DEF v
<1>5. v \in Kernel /\ Good(v) /\ Known(v, Root(g)) /\ ListOf(v, g) # None
  <2>1. v.requests = s.requests /\ v.uuid = s.uuid /\ v.chunk = s.chunk
    BY <1>4 DEF Only, Fields
  <2> QED
    BY <1>4, <2>1 DEF Serves, Known, ListOf
<1>6. Serves(v, t)
  BY <1>3, <1>5, AskNextChunksServes
<1> QED
  BY <1>4, <1>6, ServesTwice

\* What is done for each request of an object, and after n of them.
Visit(what, i, t, g) ==
    IF what = "ask" THEN AskNextChunks(t, g)
    ELSE IF t.curr[g] = i THEN SendAvailableChunks(t, g) ELSE t
VisitStep(what, i, gs, s, f, n) == IF n = 0 THEN s ELSE Visit(what, i, f[n - 1], gs[n])

LEMMA VisitServes ==
    ASSUME NEW s \in Kernel, NEW t, Serves(s, t), NEW g \in Get, Known(s, Root(g)),
           ListOf(s, g) # None, NEW what, NEW i
    PROVE  Serves(s, Visit(what, i, t, g))
<1> DEFINE u == Visit(what, i, t, g)
<1>1. t \in Kernel /\ Good(t) /\ Known(t, Root(g))
  BY DEF Serves, Known
<1>2. ListOf(t, g) # None
  <2>1. t.uuid = s.uuid /\ s.uuid[g] \in Object
    BY KernelTypes DEF Serves, Only, Fields
  <2> QED
    BY <2>1 DEF Serves, ListOf
<1>3. CASE what = "ask"
  <2>1. u = AskNextChunks(t, g)
    BY <1>3 DEF Visit
  <2> HIDE DEF u
  <2>2. Serves(t, u)
    BY <1>1, <1>2, <2>1, AskNextChunksServes
  <2>3. Serves(s, u)
    BY <2>2, ServesTwice
  <2> QED
    BY <2>3 DEF u
<1>4. CASE what # "ask" /\ t.curr[g] = i
  <2>1. u = SendAvailableChunks(t, g)
    BY <1>4 DEF Visit
  <2> HIDE DEF u
  <2>2. Serves(t, u)
    BY <1>1, <1>2, <2>1, SendAvailableServes
  <2>3. Serves(s, u)
    BY <2>2, ServesTwice
  <2> QED
    BY <2>3 DEF u
<1>5. CASE what # "ask" /\ t.curr[g] # i
  <2>1. u = t
    BY <1>5 DEF Visit
  <2> HIDE DEF u
  <2>2. Serves(s, u)
    BY <2>1
  <2> QED
    BY <2>2 DEF u
<1> QED
  BY <1>3, <1>4, <1>5

Visits(what, i, gs, s, N, f) == f = [n \in 0 .. N |-> VisitStep(what, i, gs, s, f, n)]

LEMMA VisitExists ==
    ASSUME NEW what, NEW i, NEW gs, NEW s, NEW N \in Nat
    PROVE  \E f : Visits(what, i, gs, s, N, f)
<1> DEFINE P(m) == \E f : Visits(what, i, gs, s, m, f)
           A == {m \in Nat : ~ P(m)}
<1>1. SUFFICES ASSUME A # {} PROVE FALSE
  OBVIOUS
<1>2. PICK m \in A : \A x \in A : m <= x
  <2> HIDE DEF A
  <2> A \in SUBSET Nat BY DEF A
  <2> QED BY <1>1, LeastNat
<1>3. P(0)
  <2> DEFINE f == [n \in 0 .. 0 |-> s]
  <2>1. Visits(what, i, gs, s, 0, f)
    BY DEF VisitStep, Visits
  <2> QED BY <2>1
<1>4. m \in Nat /\ m # 0 /\ ~ P(m)
  <2>1. m \in Nat /\ ~ P(m)
    OBVIOUS
  <2> HIDE DEF P
  <2> QED BY <1>3, <2>1
<1>5. P(m - 1)
  <2> SUFFICES ASSUME ~ P(m - 1) PROVE FALSE
    OBVIOUS
  <2>1. m - 1 \in Nat /\ ~ (m <= m - 1)
    BY <1>4
  <2>2. m - 1 \in A
    <3> HIDE DEF P
    <3> QED BY <2>1
  <2> HIDE DEF A
  <2> QED BY <1>2, <2>1, <2>2
<1>6. PICK f : f = [n \in 0 .. m - 1 |-> VisitStep(what, i, gs, s, f, n)]
  BY <1>5 DEF Visits
<1> DEFINE h == [n \in 0 .. m |-> VisitStep(what, i, gs, s, f, n)]
<1>7. \A n \in 0 .. m - 1 : h[n] = f[n]
  <2> SUFFICES ASSUME NEW n \in 0 .. m - 1 PROVE h[n] = f[n]
    OBVIOUS
  <2>1. n \in 0 .. m
    BY <1>4
  <2>2. h[n] = VisitStep(what, i, gs, s, f, n)
    BY <2>1
  <2> HIDE DEF h
  <2> QED
    BY <1>6, <2>2
<1>8. \A n \in 0 .. m : VisitStep(what, i, gs, s, h, n) = VisitStep(what, i, gs, s, f, n)
  <2> SUFFICES ASSUME NEW n \in 0 .. m
               PROVE  VisitStep(what, i, gs, s, h, n) = VisitStep(what, i, gs, s, f, n)
    OBVIOUS
  <2> HIDE DEF h
  <2>1. n = 0 \/ n - 1 \in 0 .. m - 1
    BY <1>4
  <2> QED BY <1>7, <2>1 DEF VisitStep
<1>9. h = [n \in 0 .. m |-> VisitStep(what, i, gs, s, h, n)]
  BY <1>8
<1>10. Visits(what, i, gs, s, m, h)
  BY <1>9 DEF Visits
<1> HIDE DEF h
<1> QED BY <1>4, <1>10

LEMMA VisitedServes ==
    ASSUME NEW s \in Kernel, Good(s), NEW o \in Object, s.chunk[o] # None, NEW what, NEW i,
           NEW f, \A n \in 0 .. Len(s.waiting[o]) : f[n] = VisitStep(what, i, s.waiting[o], s, f, n)
    PROVE  Serves(s, f[Len(s.waiting[o])])
<1> DEFINE gs == s.waiting[o]
           N == Len(gs)
           A == {n \in 0 .. N : ~ Serves(s, f[n])}
<1>1. gs \in Seq(Get) /\ N \in Nat
  BY KernelTypes
<1>2. \A n \in 1 .. N : gs[n] \in Get /\ Known(s, Root(gs[n])) /\ ListOf(s, gs[n]) # None
  <2> SUFFICES ASSUME NEW n \in 1 .. N
               PROVE  gs[n] \in Get /\ Known(s, Root(gs[n])) /\ ListOf(s, gs[n]) # None
    OBVIOUS
  <2>1. gs[n] \in ElementsOf(gs) /\ gs[n] \in Get
    BY <1>1 DEF ElementsOf
  <2>2. Known(s, Root(gs[n])) /\ s.uuid[gs[n]] = o
    BY <2>1 DEF Good, Lists
  <2> QED
    BY <2>1, <2>2 DEF ListOf
<1> HIDE DEF gs, N
<1>3. \A n \in 0 .. N : f[n] = VisitStep(what, i, gs, s, f, n)
  BY DEF gs, N
<1>4. SUFFICES A = {}
  <2>1. N \in 0 .. N
    BY <1>1
  <2> QED
    BY <2>1 DEF N, gs
<1>5. SUFFICES ASSUME A # {} PROVE FALSE
  OBVIOUS
<1>6. PICK n \in A : \A m \in A : n <= m
  <2>1. A \in SUBSET Nat
    OBVIOUS
  <2> HIDE DEF A
  <2> QED
    BY <1>5, <2>1, LeastNat
<1>7. n \in 0 .. N /\ ~ Serves(s, f[n])
  OBVIOUS
<1>8. n # 0
  <2>1. f[0] = s
    BY <1>1, <1>3 DEF VisitStep
  <2> QED
    BY <1>7, <2>1, ServesNot
<1>9. n - 1 \in 0 .. N /\ n \in 1 .. N /\ ~ (n <= n - 1)
  BY <1>1, <1>7, <1>8
<1>10. Serves(s, f[n - 1])
  BY <1>6, <1>9
<1>11. f[n] = Visit(what, i, f[n - 1], gs[n])
  BY <1>3, <1>7, <1>8 DEF VisitStep
<1>12. Serves(s, Visit(what, i, f[n - 1], gs[n]))
  BY <1>2, <1>9, <1>10, VisitServes
<1> QED
  BY <1>7, <1>11, <1>12

LEMMA AskAllServes ==
    ASSUME NEW s \in Kernel, Good(s), NEW o \in Object, s.chunk[o] # None,
           NEW t, t = ForAll(AskNextChunks, s, o)
    PROVE  Serves(s, t)
<1> DEFINE gs == s.waiting[o]
           N == Len(gs)
           Step(f, n) == IF n = 0 THEN s ELSE AskNextChunks(f[n - 1], gs[n])
           f == CHOOSE f : f = [n \in 0 .. N |-> Step(f, n)]
<1>1. \A h, n : Step(h, n) = VisitStep("ask", 0, gs, s, h, n)
  BY DEF VisitStep, Visit
<1>2. N \in Nat
  BY KernelTypes
<1>3. f = [n \in 0 .. N |-> Step(f, n)]
  <2>0. PICK h : Visits("ask", 0, gs, s, N, h)
    BY <1>2, VisitExists
  <2>1. h = [n \in 0 .. N |-> VisitStep("ask", 0, gs, s, h, n)]
    BY <2>0 DEF Visits
  <2>2. h = [n \in 0 .. N |-> Step(h, n)]
    <3> HIDE DEF Step
    <3> QED
      BY <1>1, <2>1
  <2> HIDE DEF Step
  <2> QED
    BY <2>2
<1>4. t = f[N]
  BY DEF ForAll
<1>5. \A n \in 0 .. N : f[n] = VisitStep("ask", 0, gs, s, f, n)
  <2> HIDE DEF f, Step
  <2> QED
    BY <1>1, <1>3
<1> HIDE DEF f
<1>6. Serves(s, f[N])
  BY <1>5, VisitedServes
<1> QED
  BY <1>4, <1>6

LEMMA SendToThoseServes ==
    ASSUME NEW s \in Kernel, Good(s), NEW o \in Object, s.chunk[o] # None, NEW i,
           NEW t, t = SendToThoseAt(s, o, i)
    PROVE  Serves(s, t)
<1> DEFINE gs == s.waiting[o]
           N == Len(gs)
           Step(f, n) == IF n = 0 THEN s
                         ELSE IF f[n - 1].curr[gs[n]] = i THEN SendAvailableChunks(f[n - 1], gs[n])
                              ELSE f[n - 1]
           f == CHOOSE f : f = [n \in 0 .. N |-> Step(f, n)]
<1>1. \A h, n : Step(h, n) = VisitStep("send", i, gs, s, h, n)
  BY DEF VisitStep, Visit
<1>2. N \in Nat
  BY KernelTypes
<1>3. f = [n \in 0 .. N |-> Step(f, n)]
  <2>0. PICK h : Visits("send", i, gs, s, N, h)
    BY <1>2, VisitExists
  <2>1. h = [n \in 0 .. N |-> VisitStep("send", i, gs, s, h, n)]
    BY <2>0 DEF Visits
  <2>2. h = [n \in 0 .. N |-> Step(h, n)]
    <3> HIDE DEF Step
    <3> QED
      BY <1>1, <2>1
  <2> HIDE DEF Step
  <2> QED
    BY <2>2
<1>4. t = f[N]
  BY DEF ForAll, SendToThoseAt
<1>5. \A n \in 0 .. N : f[n] = VisitStep("send", i, gs, s, f, n)
  <2> HIDE DEF f, Step
  <2> QED
    BY <1>1, <1>3
<1> HIDE DEF f
<1>6. Serves(s, f[N])
  BY <1>5, VisitedServes
<1> QED
  BY <1>4, <1>6

\* set_streaming_state of the requests gs.
LEMMA SetStateIs ==
    ASSUME NEW s \in Kernel, NEW gs \in SUBSET Get, \A g \in gs : s.range[g] \in AskedRange,
           NEW t, t = SetStreamingState(s, gs)
    PROVE  /\ t \in Kernel /\ Only(s, t, {"curr", "last", "range", "told"})
           /\ \A g \in gs :
                LET o == s.uuid[g]
                    r == Normalized(s.range[g], Size[o])
                IN /\ t.range[g] = r /\ t.curr[g] = FirstChunk(o, r) /\ t.last[g] = LastChunk(o, r)
                   /\ t.told[g] = Append(s.told[g],
                                         Prepare((LastChunk(o, r) - FirstChunk(o, r)) % Word))
           /\ \A g \in Get \ gs :
                /\ t.range[g] = s.range[g] /\ t.curr[g] = s.curr[g] /\ t.last[g] = s.last[g]
                /\ t.told[g] = s.told[g]
<1> DEFINE r == [g \in Get |-> Normalized(s.range[g], Size[s.uuid[g]])]
           first == [g \in Get |-> FirstChunk(s.uuid[g], r[g])]
           end == [g \in Get |-> LastChunk(s.uuid[g], r[g])]
           rs == [g \in Get |-> IF g \in gs THEN r[g] ELSE s.range[g]]
           cs == [g \in Get |-> IF g \in gs THEN first[g] ELSE s.curr[g]]
           ls == [g \in Get |-> IF g \in gs THEN end[g] ELSE s.last[g]]
           m(g) == Prepare((end[g] - first[g]) % Word)
           ts == [g \in Get |-> IF g \in gs THEN Append(s.told[g], m(g)) ELSE s.told[g]]
<1>1. t = [s EXCEPT !.range = rs, !.curr = cs, !.last = ls, !.told = ts]
  BY DEF SetStreamingState, Kernel
<1>2. /\ s.uuid \in [Get -> Object] /\ s.range \in [Get -> Int \X Int]
      /\ s.curr \in [Get -> Nat] /\ s.last \in [Get -> Nat] /\ s.told \in [Get -> Seq(Message)]
  BY KernelTypes
<1>3. ASSUME NEW g \in gs
      PROVE  /\ r[g] \in Int \X Int /\ first[g] \in Nat /\ end[g] \in Nat /\ m(g) \in Message
             /\ r[g] = Normalized(s.range[g], Size[s.uuid[g]])
             /\ first[g] = FirstChunk(s.uuid[g], r[g]) /\ end[g] = LastChunk(s.uuid[g], r[g])
  <2> DEFINE o == s.uuid[g]
             p == Normalized(s.range[g], Size[o])
  <2>1. o \in Object /\ g \in Get
    BY <1>2
  <2>2. r[g] = p /\ first[g] = FirstChunk(o, r[g]) /\ end[g] = LastChunk(o, r[g])
    BY <2>1
  <2> HIDE DEF o, r, first, end
  <2>3. Regular(o, p)
    BY <2>1, NormalizedIs DEF o
  <2>4. p \in Int \X Int
    BY <2>1, <2>3, GetAssumption DEF Regular
  <2> HIDE DEF p
  <2>5. first[g] \in Chunks(o) /\ end[g] \in 0 .. Number(o)
    BY <2>1, <2>2, <2>4, ChunkRange
  <2>6. Chunks(o) = 0 .. Number(o) - 1 /\ Number(o) \in Nat
    BY <2>1, ChunksOf
  <2>7. first[g] \in Nat /\ end[g] \in Nat
    BY <2>5, <2>6
  <2>8. m(g) \in Message
    <3>1. Word \in Nat \ {0}
      BY <2>1, GetAssumption, GetLimits
    <3>2. (end[g] - first[g]) % Word \in 0 .. Word - 1
      BY <2>7, <3>1
    <3> QED
      BY <3>2 DEF Message
  <2> QED
    BY <2>2, <2>4, <2>7, <2>8 DEF o, p
<1> HIDE DEF r, first, end, m
<1>4. /\ rs \in [Get -> Int \X Int] /\ cs \in [Get -> Nat] /\ ls \in [Get -> Nat]
      /\ ts \in [Get -> Seq(Message)]
  <2>1. rs \in [Get -> Int \X Int]
    BY <1>2, <1>3
  <2>2. cs \in [Get -> Nat] /\ ls \in [Get -> Nat]
    BY <1>2, <1>3
  <2>3. \A g \in gs : Append(s.told[g], m(g)) \in Seq(Message)
    BY <1>2, <1>3
  <2>4. ts \in [Get -> Seq(Message)]
    BY <1>2, <2>3
  <2> QED
    BY <2>1, <2>2, <2>4
<1>5. /\ \A g \in gs : rs[g] = r[g] /\ cs[g] = first[g] /\ ls[g] = end[g]
                       /\ ts[g] = Append(s.told[g], m(g))
      /\ \A g \in Get \ gs : rs[g] = s.range[g] /\ cs[g] = s.curr[g] /\ ls[g] = s.last[g]
                             /\ ts[g] = s.told[g]
  OBVIOUS
<1> HIDE DEF rs, cs, ls, ts
<1>6. t \in Kernel
  BY <1>1, <1>4, ZenonT(60) DEF Kernel
<1>7. /\ Only(s, t, {"curr", "last", "range", "told"})
      /\ t.range = rs /\ t.curr = cs /\ t.last = ls /\ t.told = ts
  BY <1>1 DEF Kernel, Only, Fields
<1>8. ASSUME NEW g \in gs
      PROVE  LET o == s.uuid[g]
                 p == Normalized(s.range[g], Size[o])
             IN /\ t.range[g] = p /\ t.curr[g] = FirstChunk(o, p) /\ t.last[g] = LastChunk(o, p)
                /\ t.told[g] = Append(s.told[g],
                                      Prepare((LastChunk(o, p) - FirstChunk(o, p)) % Word))
  BY <1>3, <1>5, <1>7 DEF m
<1> QED
  BY <1>5, <1>6, <1>7, <1>8

\* Those who get a range have been told nothing before.
LEMMA SetStateGood ==
    ASSUME NEW s \in Kernel, Sound(s), NEW gs \in SUBSET Get,
           \A g \in gs : /\ s.told[g] = <<>> /\ s.range[g] \in AskedRange
                         /\ s.uuid[g] \in Media /\ ListOf(s, g) # None,
           \A g \in Get \ gs : ToldOf(s, g),
           NEW t, t = SetStreamingState(s, gs)
    PROVE  /\ t \in Kernel /\ Good(t) /\ Grows(s, t)
           /\ Only(s, t, {"curr", "last", "range", "told"})
<1>1. /\ t \in Kernel /\ Only(s, t, {"curr", "last", "range", "told"})
      /\ \A g \in gs :
            LET o == s.uuid[g]
                r == Normalized(s.range[g], Size[o])
            IN /\ t.range[g] = r /\ t.curr[g] = FirstChunk(o, r) /\ t.last[g] = LastChunk(o, r)
               /\ t.told[g] = Append(s.told[g],
                                     Prepare((LastChunk(o, r) - FirstChunk(o, r)) % Word))
      /\ \A g \in Get \ gs :
            /\ t.range[g] = s.range[g] /\ t.curr[g] = s.curr[g] /\ t.last[g] = s.last[g]
            /\ t.told[g] = s.told[g]
  BY SetStateIs
<1>2. t.uuid = s.uuid /\ t.waiting = s.waiting /\ t.chunk = s.chunk
  BY <1>1 DEF Only, Fields
<1>3. \A g \in Get : s.told[g] \in Seq(Message) /\ t.told[g] \in Seq(Message)
  BY <1>1, KernelTypes
<1>4. ASSUME NEW g \in Get PROVE Longer(s.told[g], t.told[g])
  <2>1. CASE g \in gs
    BY <1>3, <2>1 DEF Longer
  <2>2. CASE g \notin gs
    BY <1>1, <1>3, <2>2 DEF Longer
  <2> QED
    BY <2>1, <2>2
<1>5. ASSUME NEW g \in Get PROVE ToldOf(t, g)
  <2>1. CASE g \notin gs
    <3>1. \A q : IsStream(t, g, q) <=> IsStream(s, g, q)
      BY <1>1, <1>2, <2>1, IsStreamSame
    <3>2. t.told[g] = s.told[g] /\ t.range[g] = s.range[g] /\ ToldOf(s, g)
      BY <1>1, <2>1
    <3> QED
      BY <1>2, <3>1, <3>2 DEF ToldOf, Listed, ListOf
  <2>2. CASE g \in gs
    <3> DEFINE o == s.uuid[g]
               r == Normalized(s.range[g], Size[o])
               first == FirstChunk(o, r)
               x == Prepare((LastChunk(o, r) - first) % Word)
    <3>1. /\ o \in Object /\ o \in Media /\ s.told[g] = <<>> /\ ListOf(t, g) # None
      BY <1>2, <2>2, KernelTypes DEF ListOf
    <3>2. Regular(o, r)
      BY <2>2, <3>1, NormalizedIs
    <3>3. /\ t.range[g] = r /\ t.curr[g] = first /\ t.last[g] = LastChunk(o, r)
          /\ t.told[g] = Append(<<>>, x)
      BY <1>1, <2>2, <3>1
    <3>4. r \in Int \X Int
      BY <3>1, <3>2, GetAssumption DEF Regular
    <3> HIDE DEF r
    <3>5. first \in Nat
      BY <3>1, <3>4, ChunkRange, ChunksOf
    <3>6. t.told[g] = <<x>> \o PartsFrom(o, r, first, t.curr[g] - first) /\ t.told[g] # <<>>
      <4>1. t.curr[g] - first = 0
        BY <3>3, <3>5
      <4>2. PartsFrom(o, r, first, 0) = <<>>
        BY DEF PartsFrom
      <4> HIDE DEF x
      <4>3. Append(<<>>, x) = <<x>> \o <<>> /\ Append(<<>>, x) # <<>>
        OBVIOUS
      <4> QED
        BY <3>3, <4>1, <4>2, <4>3
    <3>7. IsStream(t, g, t.told[g])
      <4>1. t.uuid[g] = o /\ first <= t.curr[g]
        BY <1>2, <3>3, <3>5
      <4> QED
        BY <3>1, <3>2, <3>3, <3>6, <4>1, StreamIs
    <3> QED
      BY <1>3, <3>1, <3>6, <3>7 DEF ToldOf
  <2> QED
    BY <2>1, <2>2
<1>6. Grows(s, t)
  <2>1. \A g \in Get : g \in s.cleaned => t.told[g] = s.told[g]
    BY <1>1 DEF Sound, Streams
  <2>2. t.cleaned = s.cleaned
    BY <1>1 DEF Only, Fields
  <2> QED
    BY <1>4, <2>1, <2>2 DEF Grows
<1>7. Good(t)
  BY <1>1, <1>5, <1>6, ToldServes
<1> QED
  BY <1>1, <1>6, <1>7

\* The object has its list of chunks.
LEMMA ListedSound ==
    ASSUME NEW s \in Kernel, Good(s), NEW o \in Object, o \in Media, s.chunk[o] = None,
           s.waiting[o] # <<>>, NEW c \in [Chunks(o) -> {"no", "requested", "available"}],
           \A i \in Chunks(o) \ PiecesOf(o) : c[i] = "available",
           \A g \in Get : s.uuid[g] = o => ~ UnderWay(s, Root(g)),
           NEW t, t = WithChunks(s, o, c, s.requests)
    PROVE  /\ t \in Kernel /\ Sound(t) /\ Only(s, t, {"chunk"}) /\ t.chunk[o] # None
           /\ \A g \in Get \ ElementsOf(s.waiting[o]) : ToldOf(t, g)
           /\ \A g \in ElementsOf(s.waiting[o]) :
                g \in Get /\ t.told[g] = <<>> /\ t.range[g] \in AskedRange /\ t.uuid[g] = o
<1>1. /\ t \in Kernel /\ Only(s, t, {"chunk", "requests"})
      /\ t.chunk = [s.chunk EXCEPT ![o] = c] /\ t.requests = s.requests
  <2>1. s.requests \in SUBSET Id /\ IsList(o, c)
    BY KernelTypes DEF IsList
  <2> QED
    BY <2>1, ChunksSet
<1>2. /\ t.uuid = s.uuid /\ t.units = s.units /\ t.range = s.range /\ t.curr = s.curr
      /\ t.last = s.last /\ t.aborted = s.aborted /\ t.cleaned = s.cleaned /\ t.ims = s.ims
      /\ t.storage = s.storage /\ t.pendingRouter = s.pendingRouter /\ t.key = s.key
      /\ t.tenders = s.tenders /\ t.told = s.told /\ t.waiting = s.waiting
  BY <1>1 DEF Only, Fields
<1>3. Only(s, t, {"chunk"})
  BY <1>1 DEF Only
<1>4. \A x : UnderWay(t, x) <=> UnderWay(s, x)
  BY <1>2 DEF UnderWay, AtStorage, Waits, AtKey
<1>5. c # None /\ \A p \in Object : t.chunk[p] = IF p = o THEN c ELSE s.chunk[p]
  BY <1>1, FileAssumption, KernelTypes
<1>6. /\ \A h : Leads(t, h) <=> Leads(s, h)
      /\ \A h : Listed(t, h) <=> Listed(s, h)
      /\ \A h : Known(t, Root(h)) <=> Known(s, Root(h))
  BY <1>1, <1>2 DEF Leads, Listed, Known
<1>7. \A h \in Get : s.uuid[h] # o => ListOf(t, h) = ListOf(s, h)
  BY <1>2, <1>5, KernelTypes DEF ListOf
<1>8. OnePlace(t)
  BY <1>1, <1>2, <1>4 DEF Good, OnePlace, PlaceOf, AtStorage, Waits, AtKey, Known
<1>9. Lists(t)
  <2>1. ASSUME NEW p \in Object, t.chunk[p] # None
        PROVE  /\ t.chunk[p] \in [Chunks(p) -> {"no", "requested", "available"}]
               /\ \A i \in Chunks(p) \ PiecesOf(p) : t.chunk[p][i] = "available"
               /\ p \in Media /\ t.waiting[p] # <<>>
    <3>1. CASE p = o
      BY <1>2, <1>5, <3>1
    <3>2. CASE p # o
      BY <1>2, <1>5, <2>1, <3>2 DEF Good, Lists
    <3> QED
      BY <3>1, <3>2
  <2>2. ASSUME NEW p \in Object
        PROVE  /\ Once(t.waiting[p])
               /\ \A h \in ElementsOf(t.waiting[p]) :
                     t.uuid[h] = p /\ h \in t.ims /\ Known(t, Root(h))
    <3>1. /\ Once(s.waiting[p])
          /\ \A h \in ElementsOf(s.waiting[p]) : s.uuid[h] = p /\ h \in s.ims /\ Known(s, Root(h))
      BY DEF Good, Lists
    <3>2. t.waiting[p] = s.waiting[p]
      BY <1>2
    <3> QED
      BY <1>2, <1>6, <3>1, <3>2
  <2>3. \A h \in Get : Known(t, Root(h)) => Listed(t, h)
    BY <1>6 DEF Good, Lists
  <2> QED
    BY <2>1, <2>2, <2>3 DEF Lists
<1>10. Masters(t)
  <2> SUFFICES ASSUME NEW h \in Get, UnderWay(s, Root(h))
               PROVE  /\ Leads(t, h) /\ ListOf(t, h) = None
                      /\ \A id \in t.requests : IsPiece(id) => Parent(id) # h
    BY <1>4 DEF Masters
  <2>1. /\ Leads(s, h) /\ ListOf(s, h) = None /\ s.uuid[h] # o
        /\ \A id \in s.requests : IsPiece(id) => Parent(id) # h
    BY DEF Good, Masters
  <2> QED
    BY <1>1, <1>6, <1>7, <2>1
<1>11. Pieces(t)
  <2> SUFFICES ASSUME NEW id \in s.requests, IsPiece(id)
               PROVE  LET h == Parent(id)
                      IN /\ id[2] \in PiecesOf(s.uuid[h])
                         /\ h \in s.ims \/ s.told[h] # <<>>
                         /\ Known(s, Root(h)) =>
                              IF s.uuid[h] \in Media
                              THEN ListOf(t, h) # None /\ ListOf(t, h)[id[2]] # "no"
                              ELSE Leads(s, h)
    BY <1>1, <1>2, <1>6 DEF Pieces
  <2> DEFINE h == Parent(id)
  <2>1. /\ id[2] \in PiecesOf(s.uuid[h])
        /\ h \in s.ims \/ s.told[h] # <<>>
        /\ Known(s, Root(h)) =>
              IF s.uuid[h] \in Media THEN ListOf(s, h) # None /\ ListOf(s, h)[id[2]] # "no"
                                     ELSE Leads(s, h)
    BY DEF Good, Pieces
  <2>2. h \in Get
    BY KernelTypes, IdFacts
  <2> HIDE DEF h
  <2>3. Known(s, Root(h)) => s.uuid[h] # o
    BY <2>1 DEF ListOf
  <2> QED
    BY <1>7, <2>1, <2>2, <2>3 DEF h
<1>12. Units(t)
  BY <1>1, <1>2, <1>4 DEF Good, Units, Known
<1>13. ASSUME NEW g \in Get \ ElementsOf(s.waiting[o]) PROVE ToldOf(t, g)
  <2>1. \A q : IsStream(t, g, q) <=> IsStream(s, g, q)
    BY <1>2, IsStreamSame
  <2>2. ToldOf(s, g)
    BY DEF Good, Told
  <2>3. Listed(s, g) => s.uuid[g] # o
    BY DEF Listed
  <2> QED
    BY <1>2, <1>6, <1>7, <2>1, <2>2, <2>3 DEF ToldOf
<1>14. ASSUME NEW g \in ElementsOf(s.waiting[o])
       PROVE  g \in Get /\ t.told[g] = <<>> /\ t.range[g] \in AskedRange /\ t.uuid[g] = o
  <2>1. g \in Get /\ s.uuid[g] = o
    BY KernelTypes DEF Good, Lists
  <2>2. ToldOf(s, g) /\ Listed(s, g) /\ ListOf(s, g) = None
    BY <2>1 DEF Good, Told, Listed, ListOf
  <2> QED
    BY <1>2, <2>1, <2>2 DEF ToldOf
<1>15. Streams(t)
  BY <1>2, StreamsSame DEF Good
<1> QED
  BY <1>1, <1>2, <1>3, <1>5, <1>8, <1>9, <1>10, <1>11, <1>12, <1>13, <1>14, <1>15
  DEF Good, Sound

\* construct_streaming_state
LEMMA ConstructGood ==
    ASSUME NEW s \in Kernel, Good(s), NEW g \in Get, Ready(s, Root(g)), s.uuid[g] \in Media,
           NEW t, t = ConstructStreamingState(s, g)
    PROVE  /\ t \in Kernel /\ Good(t) /\ Grows(s, t)
           /\ Only(s, t, {"curr", "last", "range", "told", "chunk", "requests", "storage"})
<1> DEFINE o == s.uuid[g]
           have == IF o \in Cut THEN "no" ELSE "available"
           c == [i \in Chunks(o) |-> have]
           listed == WithChunks(s, o, c, s.requests)
           gs == ElementsOf(s.waiting[o])
           ranged == SetStreamingState(listed, gs)
<1>1. /\ o \in Object /\ Known(s, Root(g)) /\ s.chunk[o] = None /\ s.waiting[o] # <<>>
      /\ ~ IsPiece(Root(g)) /\ Parent(Root(g)) = g /\ Root(g) \in Id
  BY RootFacts, KernelTypes DEF Ready, ListOf, Leads
<1>2. \A h \in Get : s.uuid[h] = o => ~ UnderWay(s, Root(h))
  BY <1>1, NobodyLooks DEF Ready
<1>3. listed = [s EXCEPT !.chunk[o] = [i \in Chunks(o) |-> have]]
  BY DEF WithChunks, Kernel
<1>4. t = IF o \in Cut THEN ForAll(AskNextChunks, ranged, o) ELSE SendToThoseAt(ranged, o, 0)
  <2> HIDE DEF listed
  <2> QED
    BY <1>3 DEF ConstructStreamingState
<1>5. /\ c \in [Chunks(o) -> {"no", "requested", "available"}]
      /\ \A i \in Chunks(o) \ PiecesOf(o) : c[i] = "available"
  BY <1>1, ChunksOf
<1> HIDE DEF c
<1>6. /\ listed \in Kernel /\ Sound(listed) /\ Only(s, listed, {"chunk"}) /\ listed.chunk[o] # None
      /\ \A h \in Get \ gs : ToldOf(listed, h)
      /\ \A h \in gs : h \in Get /\ listed.told[h] = <<>> /\ listed.range[h] \in AskedRange
                       /\ listed.uuid[h] = o
  BY <1>1, <1>2, <1>5, ListedSound
<1> HIDE DEF listed
<1>7. /\ ranged \in Kernel /\ Good(ranged) /\ Grows(listed, ranged)
      /\ Only(listed, ranged, {"curr", "last", "range", "told"})
  <2>1. gs \in SUBSET Get
    BY <1>6
  <2>2. \A h \in gs : /\ listed.told[h] = <<>> /\ listed.range[h] \in AskedRange
                      /\ listed.uuid[h] \in Media /\ ListOf(listed, h) # None
    BY <1>6 DEF ListOf
  <2> HIDE DEF gs
  <2> QED
    BY <1>6, <2>1, <2>2, SetStateGood
<1> HIDE DEF ranged, o
<1>8. ranged.chunk[o] # None
  BY <1>6, <1>7 DEF Only, Fields
<1>9. Serves(ranged, t)
  <2>1. CASE o \in Cut
    BY <1>1, <1>4, <1>7, <1>8, <2>1, AskAllServes
  <2>2. CASE o \notin Cut
    BY <1>1, <1>4, <1>7, <1>8, <2>2, SendToThoseServes
  <2> QED
    BY <2>1, <2>2
<1>10. Only(s, t, {"curr", "last", "range", "told", "chunk", "requests", "storage"})
  BY <1>6, <1>7, <1>9 DEF Serves, Only
<1>11. Grows(s, t)
  <2>1. listed.told = s.told /\ listed.cleaned = s.cleaned
    BY <1>6 DEF Only, Fields
  <2>2. Grows(s, ranged)
    BY <1>7, <2>1 DEF Grows
  <2> QED
    BY <1>7, <1>9, <2>2, GrowsTwice DEF Serves
<1> QED
  BY <1>9, <1>10, <1>11 DEF Serves

-----------------------------------------------------------------------------
(* Masters and pieces *)

\* What a handler leaves alone.
Handled(s, t) ==
    t \in Kernel /\ Good(t) /\ Grows(s, t) /\ t.uuid = s.uuid /\ SameAccount(s, t)

LEMMA HandledOnly ==
    ASSUME NEW s \in Kernel, NEW t \in Kernel, Good(t), Grows(s, t), NEW F, Only(s, t, F),
           F \cap {"routerSize", "pendingRouter", "tenders", "uuid"} = {}
    PROVE  Handled(s, t)
BY DEF Handled, Only, Fields, SameAccount

LEMMA HandledTwice ==
    ASSUME NEW s \in Kernel, NEW t, NEW u, Handled(s, t), Handled(t, u)
    PROVE  Handled(s, u)
<1>1. t \in Kernel /\ u \in Kernel /\ Grows(s, t) /\ Grows(t, u)
  BY DEF Handled
<1>2. Grows(s, u)
  BY <1>1, GrowsTwice
<1> QED
  BY <1>2 DEF Handled, SameAccount

LEMMA HandledServes ==
    ASSUME NEW s \in Kernel, NEW t, Serves(s, t)
    PROVE  Handled(s, t)
BY HandledOnly DEF Serves

\* Fewer pieces are left to ask for.
LEMMA UnitsGood ==
    ASSUME NEW s \in Kernel, Good(s), NEW t \in Kernel, Only(s, t, {"units", "missing"}),
           \A h \in Get : t.units[h] \subseteq s.units[h]
    PROVE  Good(t)
<1>1. /\ t.uuid = s.uuid /\ t.chunk = s.chunk /\ t.told = s.told /\ t.range = s.range
      /\ t.aborted = s.aborted /\ t.cleaned = s.cleaned /\ t.ims = s.ims /\ t.requests = s.requests
      /\ t.storage = s.storage /\ t.pendingRouter = s.pendingRouter /\ t.key = s.key
      /\ t.tenders = s.tenders /\ t.waiting = s.waiting /\ t.curr = s.curr /\ t.last = s.last
  BY DEF Only, Fields
<1>2. \A x : UnderWay(t, x) <=> UnderWay(s, x)
  BY <1>1 DEF UnderWay, AtStorage, Waits, AtKey
<1>3. OnePlace(t)
  BY <1>1, <1>2 DEF Good, OnePlace, PlaceOf, AtStorage, Waits, AtKey, Known
<1>4. Lists(t)
  BY <1>1 DEF Good, Lists, Listed, Known
<1>5. Masters(t)
  BY <1>1, <1>2 DEF Good, Masters, Leads, ListOf
<1>6. Pieces(t)
  BY <1>1 DEF Good, Pieces, Known, ListOf, Leads
<1>7. Units(t)
  BY <1>1, <1>2 DEF Good, Units, Known
<1>8. Told(t)
  <2>1. \A g, q : IsStream(t, g, q) <=> IsStream(s, g, q)
    BY <1>1, IsStreamSame
  <2> QED
    BY <1>1, <2>1 DEF Good, Told, ToldOf, Listed, ListOf
<1>9. Streams(t)
  BY <1>1, StreamsSame DEF Good
<1> QED
  BY <1>1, <1>3, <1>4, <1>5, <1>6, <1>7, <1>8, <1>9 DEF Good

\* Pieces taken from those that are left to ask for are ready.
WithUnits(s, g, less) == [s EXCEPT !.units[g] = less]

LEMMA TakenUnits ==
    ASSUME NEW s \in Kernel, Good(s), NEW g \in Get, NEW less, less \subseteq s.units[g],
           NEW t, t = WithUnits(s, g, less)
    PROVE  /\ t \in Kernel /\ Good(t) /\ Only(s, t, {"units"})
           /\ \A i \in s.units[g] \ less : <<g, i>> \in Id /\ Ready(t, <<g, i>>) /\ i \in Nat
           /\ \A x : UnderWay(t, x) <=> UnderWay(s, x)
           /\ t.units[g] = less /\ \A h \in Get : h # g => t.units[h] = s.units[h]
<1>1. s.units \in [Get -> SUBSET Nat] /\ s.requests \subseteq Id
  BY KernelTypes
<1> DEFINE us == [s.units EXCEPT ![g] = less]
<1>2. us \in [Get -> SUBSET Nat]
  BY <1>1
<1>3. t = [s EXCEPT !.units = us]
  BY DEF Kernel, WithUnits
<1>4. us[g] = less /\ \A h \in Get : h # g => us[h] = s.units[h]
  BY <1>1
<1> HIDE DEF us
<1>5. t \in Kernel /\ Only(s, t, {"units"}) /\ t.units = us
  BY <1>2, <1>3 DEF Kernel, Only, Fields
<1>6. Good(t)
  <2>1. Only(s, t, {"units", "missing"})
    BY <1>5 DEF Only
  <2>2. \A h \in Get : t.units[h] \subseteq s.units[h]
    BY <1>4, <1>5
  <2> QED
    BY <1>5, <2>1, <2>2, UnitsGood
<1>7. \A x : UnderWay(t, x) <=> UnderWay(s, x)
  BY <1>5 DEF Only, Fields, UnderWay, AtStorage, Waits, AtKey
<1>8. ASSUME NEW i \in s.units[g] \ less PROVE <<g, i>> \in Id /\ Ready(t, <<g, i>>) /\ i \in Nat
  <2>1. Known(s, <<g, i>>) /\ ~ UnderWay(s, <<g, i>>)
    BY DEF Good, Units
  <2>2. i \in Nat /\ <<g, i>> \in Id
    BY <1>1, <2>1 DEF Known
  <2>3. IsPiece(<<g, i>>) /\ Parent(<<g, i>>) = g
    BY <2>2 DEF IsPiece, Parent
  <2>4. Known(t, <<g, i>>)
    BY <1>5, <2>1 DEF Known, Only, Fields
  <2> QED
    BY <1>4, <1>5, <1>7, <2>1, <2>2, <2>3, <2>4 DEF Ready
<1> QED
  BY <1>4, <1>5, <1>6, <1>7, <1>8

\* post_storage_next_piece_get_request
LEMMA AskNextPieceGood ==
    ASSUME NEW s \in Kernel, Good(s), NEW g \in Get, NEW t, t = AskNextPiece(s, g)
    PROVE  /\ t \in Kernel /\ Good(t) /\ Only(s, t, {"units", "storage"})
           /\ \A x \in Id : IsPiece(x) /\ Ready(s, x) => Ready(t, x)
<1>1. CASE s.units[g] = {}
  <2>1. t = s
    BY <1>1 DEF AskNextPiece
  <2> QED
    BY <2>1 DEF Only
<1>2. CASE s.units[g] # {}
  <2> DEFINE i == Min(s.units[g])
             id == <<g, i>>
             less == s.units[g] \ {i}
             v == WithUnits(s, g, less)
             u == Ask(v, "look_up", id)
  <2>1. i \in s.units[g]
    <3>1. s.units[g] \in SUBSET Nat
      BY KernelTypes
    <3> QED
      BY <1>2, <3>1, MinIs
  <2>2. Known(s, id)
    BY <2>1 DEF Good, Units
  <2>3. t = Require(Known(s, id), u)
    BY <1>2 DEF AskNextPiece, Ask, WithUnits
  <2> HIDE DEF i
  <2>4. less \subseteq s.units[g] /\ i \in s.units[g] \ less
    BY <2>1
  <2>5. /\ v \in Kernel /\ Good(v) /\ Only(s, v, {"units"})
        /\ id \in Id /\ Ready(v, id)
        /\ \A x : UnderWay(v, x) <=> UnderWay(s, x)
        /\ v.units[g] = less /\ \A h \in Get : h # g => v.units[h] = s.units[h]
    <3> HIDE DEF less
    <3> QED
      BY <2>4, TakenUnits
  <2> HIDE DEF v
  <2>6. /\ u \in Kernel /\ Good(u) /\ Only(v, u, {"storage"})
        /\ \A x \in Id : UnderWay(u, x) <=> UnderWay(v, x) \/ x = id
    BY <2>5, AskGood
  <2> HIDE DEF u
  <2>7. t = u
    BY <2>2, <2>3, <2>6, RequireIs DEF Known
  <2>8. Only(s, t, {"units", "storage"})
    BY <2>5, <2>6, <2>7 DEF Only
  <2>9. ASSUME NEW x \in Id, IsPiece(x), Ready(s, x) PROVE Ready(t, x)
    <3>1. x # id
      BY <2>1, <2>9 DEF Ready, Parent
    <3>2. ~ UnderWay(t, x)
      BY <2>5, <2>6, <2>7, <2>9, <3>1 DEF Ready
    <3>3. t.units = v.units /\ t.requests = s.requests
      BY <2>5, <2>6, <2>7 DEF Only, Fields
    <3>4. Parent(x) \in Get
      BY IdFacts
    <3>5. x[2] \notin t.units[Parent(x)]
      BY <2>5, <2>9, <3>3, <3>4 DEF Ready
    <3> QED
      BY <2>9, <3>2, <3>3, <3>5 DEF Ready, Known
  <2> QED
    BY <2>6, <2>7, <2>8, <2>9
<1> QED
  BY <1>1, <1>2

LEMMA AskPiecesGood ==
    ASSUME NEW s \in Kernel, Good(s), NEW g \in Get, NEW t, t = AskPieces(s, g)
    PROVE  t \in Kernel /\ Good(t) /\ Only(s, t, {"units", "storage"})
<1> DEFINE S == s.units[g]
           less == S \ 0 .. MaxGet - 1
           v == WithUnits(s, g, less)
<1>1. t = LookUp(v, g, 0, MaxGet, S)
  BY DEF AskPieces, WithUnits
<1>2. /\ v \in Kernel /\ Good(v) /\ Only(s, v, {"units"})
      /\ \A i \in S \ less : <<g, i>> \in Id /\ Ready(v, <<g, i>>) /\ i \in Nat
  <2>1. less \subseteq s.units[g]
    OBVIOUS
  <2>2. v = WithUnits(s, g, less)
    OBVIOUS
  <2> HIDE DEF less, v
  <2>3. /\ v \in Kernel /\ Good(v) /\ Only(s, v, {"units"})
        /\ \A i \in s.units[g] \ less : <<g, i>> \in Id /\ Ready(v, <<g, i>>) /\ i \in Nat
    BY <2>1, <2>2, TakenUnits
  <2> QED
    BY <2>3
<1>3. MaxGet \in Nat /\ 0 \in Nat /\ S \in SUBSET Nat
  BY KernelTypes, GetLimits
<1>4. ASSUME NEW i \in S, i \in Nat /\ 0 <= i /\ i < 0 + MaxGet
      PROVE  <<g, i>> \in Id /\ Ready(v, <<g, i>>)
  <2>1. i \in S \ less
    BY <1>3, <1>4
  <2> HIDE DEF S, less, v
  <2> QED
    BY <1>2, <2>1
<1> HIDE DEF v, S
<1>5. t \in Kernel /\ Good(t) /\ Only(v, t, {"storage"})
  BY <1>1, <1>2, <1>3, <1>4, LookUpGood
<1>6. Only(s, t, {"units", "storage"})
  BY <1>2, <1>5 DEF Only
<1> QED
  BY <1>5, <1>6

\* The requests of the pieces are made.
WithPieces(s, g, pieces) ==
    [s EXCEPT !.requests = @ \cup {<<g, i>> : i \in pieces},
              !.units[g] = pieces, !.missing[g] = pieces]

LEMMA PiecesRequested ==
    ASSUME NEW s \in Kernel, Good(s), NEW g \in Get, Ready(s, Root(g)), s.uuid[g] \notin Media,
           NEW t, t = WithPieces(s, g, PiecesOf(s.uuid[g]))
    PROVE  t \in Kernel /\ Good(t) /\ Only(s, t, {"requests", "units", "missing"})
<1> DEFINE o == s.uuid[g]
           pieces == PiecesOf(o)
           more == {<<g, i>> : i \in pieces}
           us == [s.units EXCEPT ![g] = pieces]
           ms == [s.missing EXCEPT ![g] = pieces]
           rs == s.requests \cup more
<1>1. /\ o \in Object /\ s.units \in [Get -> SUBSET Nat] /\ s.missing \in [Get -> SUBSET Nat]
      /\ s.requests \subseteq Id
  BY KernelTypes
<1>2. ~ IsPiece(Root(g)) /\ Parent(Root(g)) = g /\ Root(g) \in Id
  BY RootFacts
<1>3. /\ Known(s, Root(g)) /\ ~ UnderWay(s, Root(g)) /\ Leads(s, g)
      /\ \A x \in s.requests : IsPiece(x) => Parent(x) # g
  BY <1>2 DEF Ready
<1>4. g \in s.ims
  BY <1>1, <1>3 DEF Good, Lists, Listed
<1>5. \A i \in pieces : /\ <<g, i>> \in Id /\ IsPiece(<<g, i>>) /\ Parent(<<g, i>>) = g
                        /\ i \in Nat /\ <<g, i>>[2] = i
  BY <1>1, PieceFacts
<1>6. t = [s EXCEPT !.requests = rs, !.units = us, !.missing = ms]
  BY DEF WithPieces, Kernel
<1>7. us \in [Get -> SUBSET Nat] /\ ms \in [Get -> SUBSET Nat] /\ rs \subseteq Id
  <2>1. pieces \subseteq Nat /\ more \subseteq Id
    BY <1>5
  <2> HIDE DEF pieces, more
  <2> QED
    BY <1>1, <2>1
<1>8. us[g] = pieces /\ \A h \in Get : h # g => us[h] = s.units[h]
  BY <1>1
<1> HIDE DEF us, ms, rs, o, pieces
<1>9. t \in Kernel /\ Only(s, t, {"requests", "units", "missing"}) /\ t.requests = rs /\ t.units = us
  <2>1. t \in Kernel
    BY <1>6, <1>7, ZenonT(60) DEF Kernel
  <2>2. Only(s, t, {"requests", "units", "missing"})
    BY <1>6 DEF Kernel, Only, Fields
  <2>3. t.requests = rs /\ t.units = us
    BY <1>6 DEF Kernel
  <2> QED
    BY <2>1, <2>2, <2>3
<1>10. /\ t.uuid = s.uuid /\ t.chunk = s.chunk /\ t.told = s.told /\ t.range = s.range
       /\ t.aborted = s.aborted /\ t.cleaned = s.cleaned /\ t.ims = s.ims
       /\ t.storage = s.storage /\ t.pendingRouter = s.pendingRouter /\ t.key = s.key
       /\ t.tenders = s.tenders /\ t.waiting = s.waiting /\ t.curr = s.curr /\ t.last = s.last
  BY <1>9 DEF Only, Fields
<1>11. \A x : UnderWay(t, x) <=> UnderWay(s, x)
  BY <1>10 DEF UnderWay, AtStorage, Waits, AtKey
<1>12. \A x : x \in t.requests <=> x \in s.requests \/ \E i \in pieces : x = <<g, i>>
  BY <1>9 DEF rs
<1>13. \A h : Known(t, Root(h)) <=> Known(s, Root(h))
  <2>1. \A h : ~ IsPiece(Root(h))
    BY DEF Root, IsPiece
  <2> QED
    BY <1>5, <1>12, <2>1 DEF Known
<1>14. /\ \A h : Leads(t, h) <=> Leads(s, h)
       /\ \A h : Listed(t, h) <=> Listed(s, h)
       /\ \A h : ListOf(t, h) = ListOf(s, h)
  BY <1>10 DEF Leads, Listed, ListOf
<1>15. OnePlace(t)
  BY <1>10, <1>11, <1>12 DEF Good, OnePlace, PlaceOf, AtStorage, Waits, AtKey, Known
<1>16. Lists(t)
  BY <1>10, <1>13, <1>14 DEF Good, Lists
<1>17. Masters(t)
  <2> SUFFICES ASSUME NEW h \in Get, UnderWay(s, Root(h))
               PROVE  /\ Leads(t, h) /\ ListOf(t, h) = None
                      /\ \A id \in t.requests : IsPiece(id) => Parent(id) # h
    BY <1>11 DEF Masters
  <2>1. /\ Leads(s, h) /\ ListOf(s, h) = None /\ h # g
        /\ \A id \in s.requests : IsPiece(id) => Parent(id) # h
    BY <1>3 DEF Good, Masters
  <2> QED
    BY <1>5, <1>12, <1>14, <2>1
<1>18. Pieces(t)
  <2> SUFFICES ASSUME NEW id \in t.requests, IsPiece(id)
               PROVE  LET h == Parent(id)
                      IN /\ id[2] \in PiecesOf(t.uuid[h])
                         /\ h \in t.ims \/ t.told[h] # <<>>
                         /\ Known(t, Root(h)) =>
                              IF t.uuid[h] \in Media
                              THEN ListOf(t, h) # None /\ ListOf(t, h)[id[2]] # "no"
                              ELSE Leads(t, h)
    BY DEF Pieces
  <2>1. CASE id \in s.requests
    BY <1>10, <1>13, <1>14, <2>1 DEF Good, Pieces
  <2>2. CASE id \notin s.requests
    <3>1. PICK i \in pieces : id = <<g, i>>
      BY <1>12, <2>2
    <3>2. Parent(id) = g /\ id[2] = i
      BY <1>5, <3>1
    <3> QED
      BY <1>3, <1>4, <1>10, <1>14, <3>2 DEF o, pieces
  <2> QED
    BY <2>1, <2>2
<1>19. Units(t)
  <2> SUFFICES ASSUME NEW h \in Get, NEW i \in t.units[h]
               PROVE  s.uuid[h] \notin Media /\ Known(t, <<h, i>>) /\ ~ UnderWay(t, <<h, i>>)
    BY <1>10 DEF Units
  <2>1. CASE h = g
    <3>1. i \in pieces
      BY <1>8, <1>9, <2>1
    <3>2. <<g, i>> \notin s.requests /\ <<g, i>> \in Id
      BY <1>3, <1>5, <3>1
    <3>3. ~ UnderWay(s, <<g, i>>)
      BY <3>2 DEF Good, OnePlace, Known
    <3> QED
      BY <1>11, <1>12, <2>1, <3>1, <3>3 DEF Known
  <2>2. CASE h # g
    <3>1. i \in s.units[h]
      BY <1>8, <1>9, <2>2
    <3> QED
      BY <1>11, <1>12, <3>1 DEF Good, Units, Known
  <2> QED
    BY <2>1, <2>2
<1>20. Told(t)
  <2>1. \A h, q : IsStream(t, h, q) <=> IsStream(s, h, q)
    BY <1>10, IsStreamSame
  <2> QED
    BY <1>10, <1>14, <2>1 DEF Good, Told, ToldOf
<1>21. Streams(t)
  BY <1>10, StreamsSame DEF Good
<1>22. Good(t)
  BY <1>10, <1>15, <1>16, <1>17, <1>18, <1>19, <1>20, <1>21 DEF Good
<1> QED
  BY <1>9, <1>22

LEMMA StartGood ==
    ASSUME NEW s \in Kernel, Good(s), NEW g \in Get, Ready(s, Root(g)), s.uuid[g] \notin Media,
           NEW t, t = StartGettingPieces(s, g)
    PROVE  Handled(s, t)
<1>1. /\ ~ IsPiece(Root(g)) /\ Parent(Root(g)) = g /\ Root(g) \in Id
      /\ Data \in {Data, Fail}
  BY RootFacts
<1>2. /\ Known(s, Root(g)) /\ ~ UnderWay(s, Root(g)) /\ Leads(s, g) /\ ListOf(s, g) = None
  BY <1>1 DEF Ready
<1>3. CASE PiecesOf(s.uuid[g]) = {}
  <2>1. t = AnswerAll(s, s.uuid[g], Data)
    BY <1>3 DEF StartGettingPieces
  <2>2. /\ t \in Kernel /\ Good(t) /\ Grows(s, t)
        /\ Only(s, t, {"told", "ims", "requests", "waiting", "chunk"})
    BY <1>1, <1>2, <2>1, AnsweredGood
  <2> QED
    BY <2>2, HandledOnly
<1>4. CASE PiecesOf(s.uuid[g]) # {}
  <2> DEFINE v == WithPieces(s, g, PiecesOf(s.uuid[g]))
  <2>1. t = AskPieces(v, g)
    BY <1>4 DEF StartGettingPieces, WithPieces
  <2>2. v \in Kernel /\ Good(v) /\ Only(s, v, {"requests", "units", "missing"})
    BY PiecesRequested
  <2> HIDE DEF v
  <2>3. t \in Kernel /\ Good(t) /\ Only(v, t, {"units", "storage"})
    BY <2>1, <2>2, AskPiecesGood
  <2>4. /\ Only(s, t, {"requests", "units", "missing", "storage"})
        /\ t.told = s.told /\ t.cleaned = s.cleaned
    BY <2>2, <2>3 DEF Only, Fields
  <2>5. Grows(s, t)
    BY <2>4, GrowsSame
  <2> QED
    BY <2>3, <2>4, <2>5, HandledOnly
<1> QED
  BY <1>3, <1>4

LEMMA HandleMasterGood ==
    ASSUME NEW s \in Kernel, Good(s), NEW g \in Get, Ready(s, Root(g)),
           NEW t, t = HandleMaster(s, g)
    PROVE  Handled(s, t)
<1>1. CASE s.uuid[g] \in Media
  <2>1. t = ConstructStreamingState(s, g)
    BY <1>1 DEF HandleMaster
  <2>2. /\ t \in Kernel /\ Good(t) /\ Grows(s, t)
        /\ Only(s, t, {"curr", "last", "range", "told", "chunk", "requests", "storage"})
    BY <1>1, <2>1, ConstructGood
  <2> QED
    BY <2>2, HandledOnly
<1>2. CASE s.uuid[g] \notin Media
  <2>1. t = StartGettingPieces(s, g)
    BY <1>2 DEF HandleMaster
  <2> QED
    BY <1>2, <2>1, StartGood
<1> QED
  BY <1>1, <1>2

\* A master that is not there fails its requests.
LEMMA MasterFailedGood ==
    ASSUME NEW s \in Kernel, Good(s), NEW g \in Get, Ready(s, Root(g)),
           NEW t, t = Failed(s, Root(g))
    PROVE  Handled(s, t)
<1>1. ~ IsPiece(Root(g)) /\ Parent(Root(g)) = g /\ Root(g) \in Id /\ Fail \in {Data, Fail}
  BY RootFacts
<1>2. Known(s, Root(g)) /\ ~ UnderWay(s, Root(g)) /\ Leads(s, g)
  BY <1>1 DEF Ready
<1>3. t = AnswerAll(s, s.uuid[g], Fail)
  BY <1>1 DEF Failed
<1>4. /\ t \in Kernel /\ Good(t) /\ Grows(s, t)
      /\ Only(s, t, {"told", "ims", "requests", "waiting", "chunk"})
  BY <1>1, <1>2, <1>3, AnsweredGood
<1> QED
  BY <1>4, HandledOnly

\* got_master_object
LEMMA GotMasterGood ==
    ASSUME NEW s \in Kernel, Good(s), NEW g \in Get, Ready(s, Root(g)), NEW valid \in BOOLEAN,
           NEW t, t = GotMaster(s, g, valid)
    PROVE  Handled(s, t)
<1>1. CASE s.uuid[g] \in Enc
  <2>1. t = [s EXCEPT !.key = Append(@, Root(g))]
    BY <1>1 DEF GotMaster
  <2>2. Root(g) \in Id
    BY RootFacts
  <2>3. t \in Kernel /\ Good(t) /\ Only(s, t, {"key"})
    BY <2>1, <2>2, ToKeyGood
  <2>4. Grows(s, t)
    BY <2>3, GrowsSame DEF Only, Fields
  <2> QED
    BY <2>3, <2>4, HandledOnly
<1>2. CASE s.uuid[g] \notin Enc /\ valid
  <2>1. t = HandleMaster(s, g)
    BY <1>2 DEF GotMaster
  <2> QED
    BY <2>1, HandleMasterGood
<1>3. CASE s.uuid[g] \notin Enc /\ ~ valid
  <2>1. t = Failed(s, Root(g))
    BY <1>3 DEF GotMaster
  <2> QED
    BY <2>1, MasterFailedGood
<1> QED
  BY <1>1, <1>2, <1>3

\* process_unencrypted_piece
LEMMA ProcessPieceGood ==
    ASSUME NEW s \in Kernel, Good(s), NEW id \in Id, IsPiece(id), Ready(s, id), ~ ParentGone(s, id),
           NEW t, t = ProcessPiece(s, id)
    PROVE  Handled(s, t)
<1> DEFINE g == Parent(id)
           o == s.uuid[g]
           i == id[2]
<1>1. /\ g \in Get /\ o \in Object /\ Known(s, id) /\ ~ UnderWay(s, id) /\ i \notin s.units[g]
      /\ Known(s, Root(g)) /\ i \in Nat /\ id = <<g, i>>
  BY IdFacts, KernelTypes DEF Ready, ParentGone
<1>2. /\ i \in PiecesOf(o)
      /\ IF o \in Media THEN ListOf(s, g) # None ELSE Leads(s, g)
  BY <1>1 DEF Good, Pieces, Known
<1>3. CASE o \in Media
  <2> DEFINE c == [s.chunk[o] EXCEPT ![i] = "available"]
             v == Marked(s, g, c, {})
             u == SendToThoseAt(v, o, i)
             holds == /\ s.chunk[o] # None /\ s.waiting[o] # <<>>
                      /\ \A r \in ElementsOf(s.waiting[o]) : Known(s, Root(r))
  <2>1. /\ s.chunk[o] \in [Chunks(o) -> {"no", "requested", "available"}] /\ Listed(s, g)
    BY <1>1, <1>2, <1>3, StreamingFacts
  <2>2. i \in Chunks(o) /\ s.chunk[o] # None
    BY <1>1, <1>2, <1>3, ChunksOf DEF ListOf
  <2>3. c \in [Chunks(o) -> {"no", "requested", "available"}] /\ c[i] = "available"
        /\ \A j \in Chunks(o) : j # i => c[j] = s.chunk[o][j]
    BY <2>1, <2>2
  <2>4. v = [s EXCEPT !.chunk[o][i] = "available"]
    BY DEF Marked, WithChunks, Kernel
  <2>5. t = Require(~ ParentGone(s, id), Erase(Require(holds, u), id))
    <3> HIDE DEF v
    <3> QED
      BY <1>3, <2>4 DEF ProcessPiece
  <2> HIDE DEF c
  <2>6. Serves(s, v)
    BY <1>1, <1>2, <1>3, <2>3, MarkGood
  <2> HIDE DEF v
  <2>7. v \in Kernel /\ Good(v) /\ v.chunk[o] # None /\ id \in v.requests
        /\ (UnderWay(v, id) <=> UnderWay(s, id)) /\ v.units = s.units
    BY <1>1, <2>2, <2>6 DEF Serves, Only, Fields, Known
  <2>8. Serves(v, u)
    BY <1>1, <2>7, SendToThoseServes
  <2> HIDE DEF u
  <2>9. u \in Kernel /\ Good(u) /\ Idle(u, id) /\ Serves(s, u)
    <3>1. Serves(s, u)
      BY <2>6, <2>8, ServesTwice
    <3>2. (UnderWay(u, id) <=> UnderWay(v, id)) /\ u.units = v.units
      BY <2>7, <2>8 DEF Serves, Only, Fields
    <3> QED
      BY <1>1, <2>7, <3>1, <3>2 DEF Serves, Idle
  <2>10. holds /\ holds \in BOOLEAN
    <3>1. s.waiting[o] # <<>>
      BY <2>1, NoElements DEF Listed
    <3>2. \A r \in ElementsOf(s.waiting[o]) : Known(s, Root(r))
      BY <1>1 DEF Good, Lists
    <3> QED
      BY <2>2, <3>1, <3>2
  <2> HIDE DEF holds
  <2>11. Require(holds, u) = u
    BY <2>9, <2>10, RequireIs
  <2> DEFINE w == Erase(u, id)
  <2>12. w \in Kernel /\ Good(w) /\ Only(u, w, {"requests"})
    BY <2>9, EraseGood
  <2> HIDE DEF w
  <2>13. t = w
    <3>1. t = Require(~ ParentGone(s, id), w) /\ ~ ParentGone(s, id)
      BY <2>5, <2>11 DEF w
    <3> QED
      BY <2>12, <3>1, RequireIs
  <2>14. Handled(u, w)
    <3>1. Grows(u, w)
      BY <2>9, <2>12, GrowsSame DEF Only, Fields
    <3> QED
      BY <2>9, <2>12, <3>1, HandledOnly
  <2> QED
    BY <2>9, <2>13, <2>14, HandledServes, HandledTwice
<1>4. CASE o \notin Media
  <2> DEFINE left == s.missing[g] \ {i}
             v == [s EXCEPT !.missing[g] = left]
             u == IF left = {} THEN AnswerAll(v, o, Data) ELSE v
             w == Erase(u, id)
  <2>1. t = Require(~ ParentGone(s, id), w)
    BY <1>4 DEF ProcessPiece
  <2>2. v \in Kernel /\ Only(s, v, {"units", "missing"}) /\ v.units = s.units
    <3> DEFINE ms == [s.missing EXCEPT ![g] = left]
    <3>1. ms \in [Get -> SUBSET Nat]
      BY <1>1, KernelTypes
    <3>2. v = [s EXCEPT !.missing = ms]
      BY DEF Kernel
    <3> HIDE DEF ms
    <3> QED
      BY <3>1, <3>2 DEF Kernel, Only, Fields
  <2> HIDE DEF v
  <2>3. Good(v)
    BY <2>2, UnitsGood
  <2>4. /\ v.uuid = s.uuid /\ v.requests = s.requests /\ v.waiting = s.waiting
        /\ v.chunk = s.chunk /\ v.told = s.told /\ v.cleaned = s.cleaned
        /\ \A x : UnderWay(v, x) <=> UnderWay(s, x)
    BY <2>2 DEF Only, Fields, UnderWay, AtStorage, Waits, AtKey
  <2>5. u \in Kernel /\ Good(u) /\ Handled(v, u) /\ Idle(u, id)
    <3>1. CASE left # {}
      <4>1. u = v
        BY <3>1
      <4> HIDE DEF u
      <4>2. Grows(v, u) /\ Only(v, u, {})
        BY <2>2, <4>1, GrowsSame DEF Only, Fields
      <4>3. Handled(v, u)
        BY <2>2, <2>3, <4>1, <4>2, HandledOnly
      <4> QED
        BY <1>1, <2>2, <2>3, <2>4, <4>1, <4>3 DEF Idle
    <3>2. CASE left = {}
      <4>1. u = AnswerAll(v, o, Data)
        BY <3>2
      <4> HIDE DEF u
      <4>2. ListOf(v, g) = None
        BY <1>1, <1>4, <2>4 DEF Good, Lists, ListOf
      <4>3. Known(v, id) /\ Known(v, Root(g)) /\ o = v.uuid[g] /\ Data \in {Data, Fail}
        BY <1>1, <2>4 DEF Known
      <4>4. /\ u \in Kernel /\ Good(u) /\ Grows(v, u)
            /\ Only(v, u, {"told", "ims", "requests", "waiting", "chunk"})
        BY <2>2, <2>3, <4>1, <4>2, <4>3, AnsweredGood
      <4>5. Handled(v, u)
        BY <2>2, <4>4, HandledOnly
      <4>6. u.units = s.units /\ (UnderWay(u, id) <=> UnderWay(v, id))
        BY <2>2, <4>4 DEF Only, Fields, UnderWay, AtStorage, Waits, AtKey
      <4> QED
        BY <1>1, <2>4, <4>4, <4>5, <4>6 DEF Idle
    <3> QED
      BY <3>1, <3>2
  <2> HIDE DEF u
  <2>6. w \in Kernel /\ Good(w) /\ Only(u, w, {"requests"})
    BY <2>5, EraseGood
  <2> HIDE DEF w
  <2>7. t = w
    BY <2>1, <2>6, RequireIs DEF ParentGone, Known
  <2>8. Handled(u, w)
    <3>1. Grows(u, w)
      BY <2>5, <2>6, GrowsSame DEF Only, Fields
    <3> QED
      BY <2>5, <2>6, <3>1, HandledOnly
  <2>9. Handled(s, v)
    BY <2>2, <2>3, <2>4, HandledOnly, GrowsSame
  <2> QED
    BY <2>2, <2>5, <2>7, <2>8, <2>9, HandledTwice
<1> QED
  BY <1>3, <1>4

\* Erasing the request of a piece that came is all that is done for it, when the
\* request it belongs to is gone.
LEMMA ForgottenGood ==
    ASSUME NEW s \in Kernel, Good(s), NEW id \in Id, IsPiece(id), Ready(s, id),
           NEW t, t = Erase(s, id)
    PROVE  Handled(s, t) /\ Only(s, t, {"requests"})
<1>1. Idle(s, id)
  BY DEF Ready, Idle
<1>2. t \in Kernel /\ Good(t) /\ Only(s, t, {"requests"})
  BY <1>1, EraseGood
<1>3. Grows(s, t)
  BY <1>2, GrowsSame DEF Only, Fields
<1> QED
  BY <1>2, <1>3, HandledOnly

LEMMA HandlePieceGood ==
    ASSUME NEW s \in Kernel, Good(s), NEW id \in Id, IsPiece(id), Ready(s, id),
           NEW t, t = HandlePiece(s, id)
    PROVE  Handled(s, t)
<1> DEFINE v == AskNextPiece(s, Parent(id))
<1>1. CASE ParentGone(s, id)
  <2>1. t = Erase(s, id)
    BY <1>1 DEF HandlePiece
  <2> QED
    BY <2>1, ForgottenGood
<1>2. CASE ~ ParentGone(s, id)
  <2>1. Parent(id) \in Get
    BY IdFacts
  <2>2. t = IF s.uuid[Parent(id)] \in Enc THEN [v EXCEPT !.key = Append(@, id)]
            ELSE ProcessPiece(v, id)
    BY <1>2 DEF HandlePiece
  <2>3. v \in Kernel /\ Good(v) /\ Only(s, v, {"units", "storage"}) /\ Ready(v, id)
    BY <2>1, AskNextPieceGood
  <2> HIDE DEF v
  <2>4. Handled(s, v)
    <3>1. Grows(s, v)
      BY <2>3, GrowsSame DEF Only, Fields
    <3> QED
      BY <2>3, <3>1, HandledOnly
  <2>5. CASE s.uuid[Parent(id)] \in Enc
    <3>1. t = [v EXCEPT !.key = Append(@, id)]
      BY <2>2, <2>5
    <3>2. t \in Kernel /\ Good(t) /\ Only(v, t, {"key"})
      BY <2>3, <3>1, ToKeyGood
    <3>3. Grows(v, t)
      BY <2>3, <3>2, GrowsSame DEF Only, Fields
    <3>4. Handled(v, t)
      BY <2>3, <3>2, <3>3, HandledOnly
    <3> QED
      BY <2>4, <3>4, HandledTwice
  <2>6. CASE s.uuid[Parent(id)] \notin Enc
    <3>1. t = ProcessPiece(v, id)
      BY <2>2, <2>6
    <3>2. ~ ParentGone(v, id)
      BY <1>2, <2>3 DEF ParentGone, Known, Only, Fields
    <3>3. Handled(v, t)
      BY <2>3, <3>1, <3>2, ProcessPieceGood
    <3> QED
      BY <2>4, <3>3, HandledTwice
  <2> QED
    BY <2>5, <2>6
<1> QED
  BY <1>1, <1>2

LEMMA GotGood ==
    ASSUME NEW s \in Kernel, Good(s), NEW id \in Id, Ready(s, id), NEW valid \in BOOLEAN,
           NEW t, t = Got(s, id, valid)
    PROVE  Handled(s, t)
<1>1. CASE IsPiece(id)
  BY <1>1, HandlePieceGood DEF Got
<1>2. CASE ~ IsPiece(id)
  <2>1. Parent(id) \in Get /\ id = Root(Parent(id))
    BY <1>2, IdFacts
  <2>2. t = GotMaster(s, Parent(id), valid)
    BY <1>2 DEF Got
  <2> QED
    BY <2>1, <2>2, GotMasterGood
<1> QED
  BY <1>1, <1>2

LEMMA DecryptionFailedGood ==
    ASSUME NEW s \in Kernel, Good(s), NEW id \in Id, Ready(s, id),
           NEW t, t = DecryptionFailed(s, id)
    PROVE  Handled(s, t)
<1> DEFINE v == IF IsPiece(id) THEN Erase(s, id) ELSE s
           g == Parent(id)
           o == s.uuid[g]
<1>1. g \in Get /\ o \in Object /\ Known(s, id) /\ ~ UnderWay(s, id) /\ Fail \in {Data, Fail}
      /\ (~ IsPiece(id) => id = Root(g) /\ Leads(s, g))
  BY IdFacts, KernelTypes DEF Ready
<1>2. v \in Kernel /\ Good(v) /\ Handled(s, v) /\ Only(s, v, {"requests"})
  <2>1. CASE IsPiece(id)
    <3>1. v = Erase(s, id)
      BY <2>1
    <3> HIDE DEF v
    <3>2. Handled(s, v) /\ Only(s, v, {"requests"})
      BY <2>1, <3>1, ForgottenGood
    <3> QED
      BY <3>2 DEF Handled
  <2>2. CASE ~ IsPiece(id)
    <3>1. v = s
      BY <2>2
    <3> HIDE DEF v
    <3>2. Only(s, v, {"requests"})
      BY <3>1 DEF Only
    <3>3. v \in Kernel /\ Good(v) /\ Grows(s, v)
      BY <3>1, GrowsSame
    <3>4. Handled(s, v)
      BY <3>2, <3>3, HandledOnly
    <3> QED
      BY <3>2, <3>3, <3>4
  <2> QED
    BY <2>1, <2>2
<1>3. t = IF ParentGone(v, id) THEN v ELSE AnswerAll(v, o, Fail)
  BY DEF DecryptionFailed
<1>4. ~ ParentGone(v, id) => Known(s, Root(g))
  BY <1>1 DEF ParentGone, Erase, Known, Kernel
<1> HIDE DEF v
<1>5. CASE ParentGone(v, id)
  BY <1>2, <1>3, <1>5
<1>6. CASE ~ ParentGone(v, id)
  <2>1. \A h \in Get : s.uuid[h] = o => ~ UnderWay(s, Root(h))
    BY <1>1, <1>4, <1>6, NobodyLooks
  <2>2. /\ v.uuid = s.uuid /\ v.waiting = s.waiting
        /\ \A x : UnderWay(v, x) <=> UnderWay(s, x)
    BY <1>2 DEF Only, Fields, UnderWay, AtStorage, Waits, AtKey
  <2>3. Known(v, Root(g))
    BY <1>6 DEF ParentGone
  <2>4. v.waiting[o] # <<>>
    <3>1. g \in ElementsOf(v.waiting[o])
      BY <1>1, <1>2, <2>2, <2>3 DEF Good, Lists, Listed
    <3> QED
      BY <3>1, NoElements
  <2>5. \A h \in ElementsOf(v.waiting[o]) : ~ UnderWay(v, Root(h))
    <3>1. \A h \in ElementsOf(v.waiting[o]) : h \in Get /\ s.uuid[h] = o
      BY <1>1, <1>2, <2>2, KernelTypes DEF Good, Lists
    <3> QED
      BY <2>1, <2>2, <3>1
  <2>6. t = AnswerAll(v, o, Fail)
    BY <1>3, <1>6
  <2> HIDE DEF o
  <2>7. /\ t \in Kernel /\ Good(t) /\ Grows(v, t)
        /\ Only(v, t, {"told", "ims", "requests", "waiting", "chunk"})
    BY <1>1, <1>2, <2>4, <2>5, <2>6, AnswerAllGood
  <2>8. Handled(v, t)
    BY <1>2, <2>7, HandledOnly
  <2> QED
    BY <1>2, <2>8, HandledTwice
<1> QED
  BY <1>5, <1>6

\* A client has its stream cleaned.
LEMMA DropGood ==
    ASSUME NEW s \in Kernel, Good(s), NEW g \in Get, Listed(s, g), s.told[g] # <<>>,
           NEW t, t = Drop([s EXCEPT !.cleaned = @ \cup {g}], g)
    PROVE  Handled(s, t)
<1> DEFINE o == s.uuid[g]
           rest == Kept(s.waiting[o], Get \ {g})
           c == IF rest = <<>> THEN None ELSE s.chunk[o]
           u == [s EXCEPT !.cleaned = @ \cup {g}]
           v == [s EXCEPT !.waiting[o] = rest, !.requests = @ \ {Root(g)}, !.chunk[o] = c,
                          !.cleaned = @ \cup {g}]
<1>1. /\ o \in Object /\ o \in Media /\ s.chunk[o] # None /\ Once(s.waiting[o])
      /\ s.waiting[o] \in Seq(Get)
  <2>1. ListOf(s, g) # None
    BY DEF Good, Told, ToldOf
  <2> QED
    BY <2>1, KernelTypes DEF Good, Lists, ListOf
<1>2. rest \in Seq(Get) /\ ElementsOf(rest) = ElementsOf(s.waiting[o]) \ {g} /\ Once(rest)
  <2>1. ElementsOf(s.waiting[o]) \subseteq Get
    BY <1>1 DEF ElementsOf
  <2>2. rest \in Seq(Get) /\ ElementsOf(rest) = ElementsOf(s.waiting[o]) \cap (Get \ {g}) /\ Once(rest)
    BY <1>1, KeptElements
  <2> QED
    BY <2>1, <2>2
<1>3. t = v
  <2>1. /\ u.uuid = s.uuid /\ u.waiting = s.waiting /\ u.chunk = s.chunk
        /\ u.requests = s.requests
    BY DEF Kernel
  <2>2. t = [u EXCEPT !.waiting[o] = rest, !.requests = @ \ {Root(g)}, !.chunk[o] = c]
    <3>1. t = Drop(u, g)
      OBVIOUS
    <3> HIDE DEF u
    <3> QED
      BY <2>1, <3>1 DEF Drop
  <2> HIDE DEF rest, c, o
  <2> QED
    BY <2>2 DEF Kernel
<1> HIDE DEF rest
<1>4. s.chunk[o] \in [Chunks(o) -> {"no", "requested", "available"}]
  BY <1>1 DEF Good, Lists
<1>5. v \in Kernel
  <2>1. c = None \/ c \in [Chunks(o) -> {"no", "requested", "available"}]
    BY <1>4
  <2> HIDE DEF c, o
  <2>2. c \in {None} \cup UNION {[Chunks(q) -> {"no", "requested", "available"}] : q \in Object}
    BY <1>1, <2>1
  <2> QED
    BY <1>1, <1>2, <2>2 DEF Kernel
<1>6. /\ t \in Kernel /\ Only(s, t, {"requests", "waiting", "chunk", "cleaned"})
      /\ t.requests = s.requests \ {Root(g)} /\ t.cleaned = s.cleaned \cup {g}
      /\ t.waiting = [s.waiting EXCEPT ![o] = rest]
      /\ t.chunk = [s.chunk EXCEPT ![o] = c]
  <2> HIDE DEF c, o
  <2> QED
    BY <1>3, <1>5 DEF Kernel, Only, Fields
<1> HIDE DEF v
<1>7. /\ t.uuid = s.uuid /\ t.units = s.units /\ t.range = s.range /\ t.curr = s.curr
      /\ t.last = s.last /\ t.aborted = s.aborted /\ t.told = s.told /\ t.ims = s.ims
      /\ t.storage = s.storage /\ t.pendingRouter = s.pendingRouter /\ t.key = s.key
      /\ t.tenders = s.tenders
  BY <1>6 DEF Only, Fields
<1>8. \A x : UnderWay(t, x) <=> UnderWay(s, x)
  BY <1>7 DEF UnderWay, AtStorage, Waits, AtKey
<1>9. \A q \in Object : q # o => t.waiting[q] = s.waiting[q] /\ t.chunk[q] = s.chunk[q]
  BY <1>6, KernelTypes
<1>10. t.waiting[o] = rest /\ t.chunk[o] = c
  BY <1>1, <1>6, KernelTypes
<1>11. \A h \in Get : Known(t, Root(h)) <=> Known(s, Root(h)) /\ h # g
  <2>1. \A x, h : Root(x) = Root(h) => x = h
    BY DEF Root
  <2> QED
    BY <1>6, <2>1 DEF Known
<1>12. \A id : IsPiece(id) => (id \in t.requests <=> id \in s.requests)
  <2>1. ~ IsPiece(Root(g))
    BY DEF Root, IsPiece
  <2> QED
    BY <1>6, <2>1
<1>13. \A h \in Get : Listed(t, h) <=> Listed(s, h) /\ h # g
  <2> SUFFICES ASSUME NEW h \in Get PROVE Listed(t, h) <=> Listed(s, h) /\ h # g
    OBVIOUS
  <2>1. CASE s.uuid[h] = o
    BY <1>2, <1>7, <1>10, <2>1 DEF Listed
  <2>2. CASE s.uuid[h] # o
    <3>1. s.uuid[h] \in Object /\ h # g
      BY <2>2, KernelTypes
    <3> QED
      BY <1>7, <1>9, <2>2, <3>1 DEF Listed
  <2> QED
    BY <2>1, <2>2
<1>14. \A h \in Get : Listed(t, h) => ListOf(t, h) = ListOf(s, h)
  <2> SUFFICES ASSUME NEW h \in Get, Listed(t, h) PROVE t.chunk[s.uuid[h]] = s.chunk[s.uuid[h]]
    BY <1>7 DEF ListOf
  <2>1. CASE s.uuid[h] = o
    <3>1. h \in ElementsOf(rest)
      BY <1>7, <1>10, <2>1 DEF Listed
    <3>2. rest # <<>>
      BY <3>1, NoElements
    <3> QED
      BY <1>10, <2>1, <3>2
  <2>2. CASE s.uuid[h] # o
    BY <1>9, <2>2, KernelTypes
  <2> QED
    BY <2>1, <2>2
<1>15. ASSUME NEW h \in Get, s.uuid[h] # o
       PROVE  (Leads(t, h) <=> Leads(s, h)) /\ ListOf(t, h) = ListOf(s, h)
  <2>1. s.uuid[h] \in Object
    BY KernelTypes
  <2>2. t.waiting[s.uuid[h]] = s.waiting[s.uuid[h]] /\ t.chunk[s.uuid[h]] = s.chunk[s.uuid[h]]
    BY <1>9, <1>15, <2>1
  <2> QED
    BY <1>7, <2>2 DEF Leads, ListOf
<1>16. \A h \in Get : UnderWay(s, Root(h)) => s.uuid[h] # o
  BY <1>1 DEF Good, Masters, ListOf
<1> HIDE DEF o, c
<1>17. OnePlace(t)
  <2>1. ASSUME NEW x \in Id, UnderWay(s, x) PROVE Known(t, x)
    <3>1. Known(s, x)
      BY <2>1 DEF Good, OnePlace
    <3>2. CASE IsPiece(x)
      BY <1>12, <3>1, <3>2 DEF Known
    <3>3. CASE ~ IsPiece(x)
      <4>1. x = Root(Parent(x)) /\ Parent(x) \in Get
        BY <3>3, IdFacts
      <4>2. Parent(x) # g
        BY <1>16, <2>1, <4>1 DEF o
      <4> QED
        BY <1>11, <3>1, <4>1, <4>2
    <3> QED
      BY <3>2, <3>3
  <2>2. \A x \in Id : PlaceOf(t, x)
    BY <1>7 DEF Good, OnePlace, PlaceOf, AtStorage, Waits, AtKey
  <2> QED
    BY <1>7, <1>8, <2>1, <2>2 DEF Good, OnePlace
<1>18. Lists(t)
  <2>1. ASSUME NEW q \in Object
        PROVE  /\ Once(t.waiting[q])
               /\ \A h \in ElementsOf(t.waiting[q]) : t.uuid[h] = q /\ h \in t.ims /\ Known(t, Root(h))
               /\ t.chunk[q] # None =>
                    /\ t.chunk[q] \in [Chunks(q) -> {"no", "requested", "available"}]
                    /\ \A i \in Chunks(q) \ PiecesOf(q) : t.chunk[q][i] = "available"
                    /\ q \in Media /\ t.waiting[q] # <<>>
    <3>1. \A h \in ElementsOf(s.waiting[q]) : h \in Get /\ s.uuid[h] = q /\ h \in s.ims
                                              /\ Known(s, Root(h))
      BY KernelTypes DEF Good, Lists
    <3>2. s.chunk[q] # None =>
                    /\ s.chunk[q] \in [Chunks(q) -> {"no", "requested", "available"}]
                    /\ \A i \in Chunks(q) \ PiecesOf(q) : s.chunk[q][i] = "available"
                    /\ q \in Media /\ s.waiting[q] # <<>>
      BY DEF Good, Lists
    <3>3. CASE q = o
      <4>1. \A h \in ElementsOf(rest) : h \in ElementsOf(s.waiting[q]) /\ h # g
        BY <1>2, <3>3
      <4>2. \A h \in ElementsOf(t.waiting[q]) : t.uuid[h] = q /\ h \in t.ims /\ Known(t, Root(h))
        BY <1>7, <1>10, <1>11, <3>1, <3>3, <4>1
      <4>3. t.chunk[q] # None => t.chunk[q] = s.chunk[q] /\ t.waiting[q] # <<>>
        BY <1>10, <3>3 DEF c
      <4> QED
        BY <1>2, <1>10, <3>2, <3>3, <4>2, <4>3
    <3>4. CASE q # o
      <4>1. t.waiting[q] = s.waiting[q] /\ t.chunk[q] = s.chunk[q] /\ Once(s.waiting[q])
        BY <1>9, <3>4 DEF Good, Lists
      <4>2. \A h \in ElementsOf(s.waiting[q]) : h # g
        BY <3>1, <3>4 DEF o
      <4> QED
        BY <1>7, <1>11, <3>1, <3>2, <4>1, <4>2
    <3> QED
      BY <3>3, <3>4
  <2>2. \A h \in Get : Known(t, Root(h)) => Listed(t, h)
    BY <1>11, <1>13 DEF Good, Lists
  <2> QED
    BY <2>1, <2>2 DEF Lists
<1>19. Masters(t)
  <2> SUFFICES ASSUME NEW h \in Get, UnderWay(s, Root(h))
               PROVE  /\ Leads(t, h) /\ ListOf(t, h) = None
                      /\ \A id \in t.requests : IsPiece(id) => Parent(id) # h
    BY <1>8 DEF Masters
  <2>1. /\ Leads(s, h) /\ ListOf(s, h) = None
        /\ \A id \in s.requests : IsPiece(id) => Parent(id) # h
    BY DEF Good, Masters
  <2> QED
    BY <1>12, <1>15, <1>16, <2>1
<1>20. Pieces(t)
  <2> SUFFICES ASSUME NEW id \in t.requests, IsPiece(id)
               PROVE  LET h == Parent(id)
                      IN /\ id[2] \in PiecesOf(s.uuid[h])
                         /\ h \in s.ims \/ s.told[h] # <<>>
                         /\ Known(t, Root(h)) =>
                              IF s.uuid[h] \in Media
                              THEN ListOf(t, h) # None /\ ListOf(t, h)[id[2]] # "no"
                              ELSE Leads(t, h)
    BY <1>7 DEF Pieces
  <2> DEFINE h == Parent(id)
  <2>1. id \in s.requests /\ id \in Id /\ h \in Get
    BY <1>12, KernelTypes, IdFacts
  <2>2. /\ id[2] \in PiecesOf(s.uuid[h])
        /\ h \in s.ims \/ s.told[h] # <<>>
        /\ Known(s, Root(h)) =>
              IF s.uuid[h] \in Media THEN ListOf(s, h) # None /\ ListOf(s, h)[id[2]] # "no"
                                     ELSE Leads(s, h)
    BY <2>1 DEF Good, Pieces
  <2> HIDE DEF h
  <2>3. ASSUME Known(t, Root(h)), s.uuid[h] \in Media
        PROVE  ListOf(t, h) # None /\ ListOf(t, h)[id[2]] # "no"
    <3>1. Known(s, Root(h)) /\ Listed(t, h)
      BY <1>11, <1>18, <2>1, <2>3 DEF Lists
    <3> QED
      BY <1>14, <2>1, <2>2, <2>3, <3>1
  <2>4. ASSUME Known(t, Root(h)), s.uuid[h] \notin Media
        PROVE  Leads(t, h)
    <3>1. Known(s, Root(h)) /\ s.uuid[h] # o
      BY <1>1, <1>11, <2>1, <2>4
    <3> QED
      BY <1>15, <2>1, <2>2, <2>4, <3>1
  <2> QED
    BY <2>2, <2>3, <2>4 DEF h
<1>21. Units(t)
  <2> SUFFICES ASSUME NEW h \in Get, NEW i \in s.units[h]
               PROVE  s.uuid[h] \notin Media /\ Known(t, <<h, i>>) /\ ~ UnderWay(t, <<h, i>>)
    BY <1>7 DEF Units
  <2>1. s.uuid[h] \notin Media /\ Known(s, <<h, i>>) /\ ~ UnderWay(s, <<h, i>>)
    BY DEF Good, Units
  <2>2. IsPiece(<<h, i>>)
    BY KernelTypes DEF IsPiece
  <2> QED
    BY <1>8, <1>12, <2>1, <2>2 DEF Known
<1>22. Told(t)
  <2> SUFFICES ASSUME NEW h \in Get
               PROVE  /\ \/ s.told[h] \in {<<>>, <<Data>>, <<Fail>>}
                         \/ \E q \in Seq(Message) : IsStream(t, h, q) /\ s.told[h] \in {q, Append(q, Fail)}
                      /\ Listed(t, h) => IF ListOf(t, h) = None THEN s.told[h] = <<>>
                                         ELSE IsStream(t, h, s.told[h])
                      /\ s.told[h] = <<>> => s.range[h] \in AskedRange
    BY <1>7 DEF Told, ToldOf
  <2>1. \A q : IsStream(t, h, q) <=> IsStream(s, h, q)
    BY <1>7, IsStreamSame
  <2>2. /\ \/ s.told[h] \in {<<>>, <<Data>>, <<Fail>>}
           \/ \E q \in Seq(Message) : IsStream(s, h, q) /\ s.told[h] \in {q, Append(q, Fail)}
        /\ Listed(s, h) => IF ListOf(s, h) = None THEN s.told[h] = <<>>
                           ELSE IsStream(s, h, s.told[h])
        /\ s.told[h] = <<>> => s.range[h] \in AskedRange
    BY DEF Good, Told, ToldOf
  <2> QED
    BY <1>13, <1>14, <2>1, <2>2
<1>23. Streams(t)
  <2> SUFFICES ASSUME NEW h \in Get
               PROVE  /\ h \in t.ims => h \in t.cleaned \/ Listed(t, h)
                      /\ h \in t.cleaned => t.told[h] # <<>> /\ ~ Listed(t, h)
    BY DEF Streams
  <2>1. /\ h \in s.ims => h \in s.cleaned \/ Listed(s, h)
        /\ h \in s.cleaned => s.told[h] # <<>> /\ ~ Listed(s, h)
    BY DEF Good, Streams
  <2> QED
    BY <1>6, <1>7, <1>13, <2>1
<1>24. Good(t)
  BY <1>7, <1>17, <1>18, <1>19, <1>20, <1>21, <1>22, <1>23 DEF Good
<1>25. Grows(s, t)
  BY <1>6, <1>7, GrowsSame
<1> QED
  BY <1>6, <1>24, <1>25, HandledOnly

\* A request joins those for its object.
Joined(s, g) ==
    [s EXCEPT !.requests = @ \cup {Root(g)}, !.ims = @ \cup {g},
              !.waiting[s.uuid[g]] = Append(@, g)]

LEMMA JoinedSound ==
    ASSUME NEW s \in Kernel, Good(s), NEW g \in Get, g \notin s.ims, s.told[g] = <<>>,
           NEW t, t = Joined(s, g)
    PROVE  /\ t \in Kernel /\ Sound(t) /\ Only(s, t, {"requests", "ims", "waiting"})
           /\ Known(t, Root(g)) /\ Listed(t, g)
           /\ \A h \in Get : h # g => ToldOf(t, h)
           /\ s.chunk[s.uuid[g]] = None => ToldOf(t, g)
           /\ s.waiting[s.uuid[g]] = <<>> => Ready(t, Root(g))
           /\ s.range[g] \in AskedRange
<1> DEFINE o == s.uuid[g]
<1>1. o \in Object /\ s.waiting[o] \in Seq(Get) /\ Once(s.waiting[o]) /\ Root(g) \in Id
  BY KernelTypes, RootFacts DEF Good, Lists
<1>2. /\ ~ Known(s, Root(g)) /\ g \notin ElementsOf(s.waiting[o])
  BY <1>1 DEF Good, Lists, Listed
<1>3. \A id \in s.requests : IsPiece(id) => Parent(id) # g
  BY DEF Good, Pieces
<1>4. /\ Append(s.waiting[o], g) \in Seq(Get) /\ Once(Append(s.waiting[o], g))
      /\ ElementsOf(Append(s.waiting[o], g)) = ElementsOf(s.waiting[o]) \cup {g}
      /\ Append(s.waiting[o], g) # <<>>
      /\ s.waiting[o] # <<>> => Append(s.waiting[o], g)[1] = s.waiting[o][1]
      /\ s.waiting[o] = <<>> => Append(s.waiting[o], g)[1] = g
  <2>1. /\ Append(s.waiting[o], g) \in Seq(Get) /\ Once(Append(s.waiting[o], g))
        /\ ElementsOf(Append(s.waiting[o], g)) = ElementsOf(s.waiting[o]) \cup {g}
    BY <1>1, <1>2, AppendedElements
  <2>2. ASSUME NEW w \in Seq(Get)
        PROVE  /\ Append(w, g) # <<>>
               /\ w # <<>> => Append(w, g)[1] = w[1]
               /\ w = <<>> => Append(w, g)[1] = g
    OBVIOUS
  <2> QED
    BY <1>1, <2>1, <2>2
<1>5. /\ t \in Kernel /\ Only(s, t, {"requests", "ims", "waiting"})
      /\ t.requests = s.requests \cup {Root(g)} /\ t.ims = s.ims \cup {g}
      /\ t.waiting = [s.waiting EXCEPT ![o] = Append(@, g)]
  <2> DEFINE w == Append(s.waiting[o], g)
  <2>1. t = [s EXCEPT !.requests = @ \cup {Root(g)}, !.ims = @ \cup {g}, !.waiting[o] = w]
    BY DEF Joined
  <2>2. w \in Seq(Get)
    BY <1>4
  <2>3. [s.waiting EXCEPT ![o] = Append(@, g)] = [s.waiting EXCEPT ![o] = w]
    BY KernelTypes
  <2>7. t = [s EXCEPT !.requests = s.requests \cup {Root(g)}, !.ims = s.ims \cup {g},
                      !.waiting = [s.waiting EXCEPT ![o] = w]]
    BY <2>1
  <2> HIDE DEF w, o
  <2>4. t \in Kernel
    <3>1. [s.waiting EXCEPT ![o] = w] \in [Object -> Seq(Get)]
      BY <1>1, <2>2, KernelTypes
    <3>2. s.requests \cup {Root(g)} \in SUBSET Id /\ s.ims \cup {g} \in SUBSET Get
      BY <1>1, KernelTypes
    <3> QED
      BY <2>7, <3>1, <3>2, ZenonT(60) DEF Kernel
  <2>5. Only(s, t, {"requests", "ims", "waiting"})
    BY <2>1 DEF Kernel, Only, Fields
  <2>6. /\ t.requests = s.requests \cup {Root(g)} /\ t.ims = s.ims \cup {g}
        /\ t.waiting = [s.waiting EXCEPT ![o] = w]
    BY <2>1 DEF Kernel
  <2> QED
    BY <2>3, <2>4, <2>5, <2>6
<1>6. /\ t.uuid = s.uuid /\ t.units = s.units /\ t.range = s.range /\ t.curr = s.curr
      /\ t.last = s.last /\ t.aborted = s.aborted /\ t.cleaned = s.cleaned
      /\ t.told = s.told /\ t.chunk = s.chunk
      /\ t.storage = s.storage /\ t.pendingRouter = s.pendingRouter /\ t.key = s.key
      /\ t.tenders = s.tenders
  BY <1>5 DEF Only, Fields
<1>7. \A x : UnderWay(t, x) <=> UnderWay(s, x)
  BY <1>6 DEF UnderWay, AtStorage, Waits, AtKey
<1>8. /\ \A q \in Object : q # o => t.waiting[q] = s.waiting[q]
      /\ t.waiting[o] = Append(s.waiting[o], g)
  BY <1>1, <1>5, KernelTypes
<1>9. \A h \in Get : Known(t, Root(h)) <=> Known(s, Root(h)) \/ h = g
  <2>1. \A x, h : Root(x) = Root(h) => x = h
    BY DEF Root
  <2> QED
    BY <1>5, <2>1 DEF Known
<1>10. \A id : IsPiece(id) => (id \in t.requests <=> id \in s.requests)
  <2>1. ~ IsPiece(Root(g))
    BY DEF Root, IsPiece
  <2> QED
    BY <1>5, <2>1
<1>11. \A h \in Get : Listed(t, h) <=> Listed(s, h) \/ h = g
  <2> SUFFICES ASSUME NEW h \in Get PROVE Listed(t, h) <=> Listed(s, h) \/ h = g
    OBVIOUS
  <2>1. CASE s.uuid[h] = o
    <3>1. t.waiting[t.uuid[h]] = Append(s.waiting[o], g) /\ s.waiting[s.uuid[h]] = s.waiting[o]
      BY <1>6, <1>8, <2>1
    <3> HIDE DEF o
    <3> QED
      BY <1>4, <3>1 DEF Listed
  <2>2. CASE s.uuid[h] # o
    <3>1. s.uuid[h] \in Object /\ h # g
      BY <2>2, KernelTypes
    <3> QED
      BY <1>6, <1>8, <2>2, <3>1 DEF Listed
  <2> QED
    BY <2>1, <2>2
<1>12. \A h \in Get : ListOf(t, h) = ListOf(s, h)
  BY <1>6 DEF ListOf
<1>13. \A h \in Get : Leads(s, h) => Leads(t, h)
  <2> SUFFICES ASSUME NEW h \in Get, Leads(s, h) PROVE Leads(t, h)
    OBVIOUS
  <2>1. CASE s.uuid[h] = o
    <3>1. t.waiting[t.uuid[h]] = Append(s.waiting[o], g) /\ s.waiting[s.uuid[h]] = s.waiting[o]
      BY <1>6, <1>8, <2>1
    <3> HIDE DEF o
    <3> QED
      BY <1>4, <3>1 DEF Leads
  <2>2. CASE s.uuid[h] # o
    <3>1. s.uuid[h] \in Object
      BY KernelTypes
    <3> QED
      BY <1>6, <1>8, <2>2, <3>1 DEF Leads
  <2> QED
    BY <2>1, <2>2
<1> HIDE DEF o
<1>14. OnePlace(t)
  <2>1. \A x \in Id : UnderWay(s, x) => Known(t, x)
    BY <1>5 DEF Good, OnePlace, Known
  <2>2. \A x \in Id : PlaceOf(t, x)
    BY <1>6 DEF Good, OnePlace, PlaceOf, AtStorage, Waits, AtKey
  <2> QED
    BY <1>6, <1>7, <2>1, <2>2 DEF Good, OnePlace
<1>15. Lists(t)
  <2>1. ASSUME NEW q \in Object
        PROVE  /\ Once(t.waiting[q])
               /\ \A h \in ElementsOf(t.waiting[q]) : t.uuid[h] = q /\ h \in t.ims /\ Known(t, Root(h))
               /\ t.chunk[q] # None =>
                    /\ t.chunk[q] \in [Chunks(q) -> {"no", "requested", "available"}]
                    /\ \A i \in Chunks(q) \ PiecesOf(q) : t.chunk[q][i] = "available"
                    /\ q \in Media /\ t.waiting[q] # <<>>
    <3>1. \A h \in ElementsOf(s.waiting[q]) : h \in Get /\ s.uuid[h] = q /\ h \in s.ims
                                              /\ Known(s, Root(h))
      BY KernelTypes DEF Good, Lists
    <3>2. s.chunk[q] # None =>
                    /\ s.chunk[q] \in [Chunks(q) -> {"no", "requested", "available"}]
                    /\ \A i \in Chunks(q) \ PiecesOf(q) : s.chunk[q][i] = "available"
                    /\ q \in Media /\ s.waiting[q] # <<>>
      BY DEF Good, Lists
    <3>3. CASE q = o
      <4>1. t.uuid[g] = q /\ g \in t.ims /\ Known(t, Root(g))
        BY <1>5, <1>6, <1>9, <3>3 DEF o
      <4>2. \A h \in ElementsOf(t.waiting[q]) : h \in ElementsOf(s.waiting[q]) \/ h = g
        BY <1>4, <1>8, <3>3
      <4>3. \A h \in ElementsOf(t.waiting[q]) : t.uuid[h] = q /\ h \in t.ims /\ Known(t, Root(h))
        BY <1>5, <1>6, <1>9, <3>1, <4>1, <4>2
      <4> QED
        BY <1>4, <1>6, <1>8, <3>2, <3>3, <4>3
    <3>4. CASE q # o
      <4>1. t.waiting[q] = s.waiting[q] /\ Once(s.waiting[q])
        BY <1>8, <3>4 DEF Good, Lists
      <4>2. \A h \in ElementsOf(t.waiting[q]) : t.uuid[h] = q /\ h \in t.ims /\ Known(t, Root(h))
        BY <1>5, <1>6, <1>9, <3>1, <4>1
      <4> QED
        BY <1>6, <3>2, <4>1, <4>2
    <3> QED
      BY <3>3, <3>4
  <2>2. \A h \in Get : Known(t, Root(h)) => Listed(t, h)
    BY <1>9, <1>11 DEF Good, Lists
  <2> QED
    BY <2>1, <2>2 DEF Lists
<1>16. Masters(t)
  <2> SUFFICES ASSUME NEW h \in Get, UnderWay(s, Root(h))
               PROVE  /\ Leads(t, h) /\ ListOf(t, h) = None
                      /\ \A id \in t.requests : IsPiece(id) => Parent(id) # h
    BY <1>7 DEF Masters
  <2>1. /\ Leads(s, h) /\ ListOf(s, h) = None
        /\ \A id \in s.requests : IsPiece(id) => Parent(id) # h
    BY DEF Good, Masters
  <2> QED
    BY <1>10, <1>12, <1>13, <2>1
<1>17. Pieces(t)
  <2> SUFFICES ASSUME NEW id \in t.requests, IsPiece(id)
               PROVE  LET h == Parent(id)
                      IN /\ id[2] \in PiecesOf(s.uuid[h])
                         /\ h \in t.ims \/ s.told[h] # <<>>
                         /\ Known(t, Root(h)) =>
                              IF s.uuid[h] \in Media
                              THEN ListOf(s, h) # None /\ ListOf(s, h)[id[2]] # "no"
                              ELSE Leads(t, h)
    <3>1. \A id \in t.requests : IsPiece(id) => Parent(id) \in Get
      BY <1>10, IdFacts, KernelTypes
    <3> QED
      BY <1>6, <1>12, <3>1 DEF Pieces
  <2> DEFINE h == Parent(id)
  <2>1. id \in s.requests /\ id \in Id /\ h \in Get /\ h # g
    BY <1>3, <1>10, KernelTypes, IdFacts
  <2>2. /\ id[2] \in PiecesOf(s.uuid[h])
        /\ h \in s.ims \/ s.told[h] # <<>>
        /\ Known(s, Root(h)) =>
              IF s.uuid[h] \in Media THEN ListOf(s, h) # None /\ ListOf(s, h)[id[2]] # "no"
                                     ELSE Leads(s, h)
    BY <2>1 DEF Good, Pieces
  <2> HIDE DEF h
  <2>3. (Known(t, Root(h)) => Known(s, Root(h))) /\ (h \in s.ims => h \in t.ims)
    BY <1>5, <1>9, <2>1
  <2> QED
    BY <1>13, <2>1, <2>2, <2>3 DEF h
<1>18. Units(t)
  <2> SUFFICES ASSUME NEW h \in Get, NEW i \in s.units[h]
               PROVE  s.uuid[h] \notin Media /\ Known(t, <<h, i>>) /\ ~ UnderWay(t, <<h, i>>)
    BY <1>6 DEF Units
  <2>1. s.uuid[h] \notin Media /\ Known(s, <<h, i>>) /\ ~ UnderWay(s, <<h, i>>)
    BY DEF Good, Units
  <2> QED
    BY <1>5, <1>7, <2>1 DEF Known
<1>19. Sound(t)
  <2>1. Streams(t)
    BY <1>5, <1>6, <1>11 DEF Good, Streams
  <2> QED
    BY <1>6, <1>14, <1>15, <1>16, <1>17, <1>18, <2>1 DEF Good, Sound
<1>20. ASSUME NEW h \in Get, h # g \/ s.chunk[s.uuid[g]] = None
       PROVE  ToldOf(t, h)
  <2> SUFFICES /\ \/ s.told[h] \in {<<>>, <<Data>>, <<Fail>>}
                  \/ \E q \in Seq(Message) : IsStream(t, h, q) /\ s.told[h] \in {q, Append(q, Fail)}
               /\ Listed(t, h) => IF ListOf(s, h) = None THEN s.told[h] = <<>>
                                  ELSE IsStream(t, h, s.told[h])
               /\ s.told[h] = <<>> => s.range[h] \in AskedRange
    BY <1>6, <1>12 DEF ToldOf
  <2>1. \A q : IsStream(t, h, q) <=> IsStream(s, h, q)
    BY <1>6, IsStreamSame
  <2>2. /\ \/ s.told[h] \in {<<>>, <<Data>>, <<Fail>>}
           \/ \E q \in Seq(Message) : IsStream(s, h, q) /\ s.told[h] \in {q, Append(q, Fail)}
        /\ Listed(s, h) => IF ListOf(s, h) = None THEN s.told[h] = <<>>
                           ELSE IsStream(s, h, s.told[h])
        /\ s.told[h] = <<>> => s.range[h] \in AskedRange
    BY DEF Good, Told, ToldOf
  <2>3. h = g => ListOf(s, h) = None
    BY <1>20 DEF ListOf
  <2> QED
    BY <1>11, <2>1, <2>2, <2>3
<1>21. Known(t, Root(g)) /\ Listed(t, g)
  BY <1>9, <1>11
<1>22. ASSUME s.waiting[o] = <<>> PROVE Ready(t, Root(g))
  <2>1. Root(g) \in Id /\ ~ IsPiece(Root(g)) /\ Parent(Root(g)) = g
    BY RootFacts
  <2>2. ~ UnderWay(t, Root(g))
    BY <1>2, <1>7, <2>1 DEF Good, OnePlace
  <2>3. Leads(t, g)
    BY <1>4, <1>6, <1>8, <1>22 DEF Leads, o
  <2>4. ListOf(t, g) = None
    BY <1>1, <1>12, <1>22 DEF Good, Lists, ListOf, o
  <2>5. \A x \in t.requests : IsPiece(x) => Parent(x) # g
    BY <1>3, <1>10
  <2> QED
    BY <1>21, <2>1, <2>2, <2>3, <2>4, <2>5 DEF Ready
<1>23. s.range[g] \in AskedRange
  BY DEF Good, Told, ToldOf
<1> QED
  BY <1>5, <1>19, <1>20, <1>21, <1>22, <1>23 DEF o

\* process_ims_get_request
LEMMA JoinGood ==
    ASSUME NEW s \in Kernel, Good(s), NEW g \in Get, g \notin s.ims, s.told[g] = <<>>,
           NEW t, t = Join(s, g)
    PROVE  Handled(s, t)
<1> DEFINE o == s.uuid[g]
           u == Joined(s, g)
<1>1. t = IF s.waiting[o] = <<>> THEN Ask(u, "look_up", Root(g))
          ELSE IF s.chunk[o] = None THEN u ELSE SendAvailableChunks(SetStreamingState(u, {g}), g)
  BY DEF Join, Joined
<1> HIDE DEF u
<1>2. /\ u \in Kernel /\ Sound(u) /\ Only(s, u, {"requests", "ims", "waiting"})
      /\ Known(u, Root(g)) /\ Listed(u, g)
      /\ \A h \in Get : h # g => ToldOf(u, h)
      /\ s.chunk[o] = None => ToldOf(u, g)
      /\ s.waiting[o] = <<>> => Ready(u, Root(g))
      /\ s.range[g] \in AskedRange
  BY JoinedSound DEF u
<1>3. /\ u.told = s.told /\ u.range = s.range /\ u.chunk = s.chunk /\ u.uuid = s.uuid
      /\ Grows(s, u)
  BY <1>2, GrowsSame DEF Only, Fields
<1>4. o \in Object
  BY KernelTypes
<1>5. s.chunk[o] = None => Good(u)
  BY <1>2 DEF Good, Sound, Told
<1>6. CASE s.waiting[o] = <<>>
  <2>1. s.chunk[o] = None
    BY <1>4, <1>6 DEF Good, Lists
  <2>2. Root(g) \in Id /\ t = Ask(u, "look_up", Root(g))
    BY <1>1, <1>6, RootFacts
  <2>3. t \in Kernel /\ Good(t) /\ Only(u, t, {"storage"})
    BY <1>2, <1>5, <1>6, <2>1, <2>2, AskGood
  <2>4. Handled(u, t)
    <3>1. Grows(u, t)
      BY <1>2, <2>3, GrowsSame DEF Only, Fields
    <3> QED
      BY <1>2, <2>3, <3>1, HandledOnly
  <2>5. Handled(s, u)
    BY <1>2, <1>3, <1>5, <2>1, HandledOnly
  <2> QED
    BY <2>4, <2>5, HandledTwice
<1>7. CASE s.waiting[o] # <<>> /\ s.chunk[o] = None
  <2>1. t = u
    BY <1>1, <1>7
  <2> QED
    BY <1>2, <1>3, <1>5, <1>7, <2>1, HandledOnly
<1>8. CASE s.waiting[o] # <<>> /\ s.chunk[o] # None
  <2> DEFINE v == SetStreamingState(u, {g})
  <2>1. /\ u.told[g] = <<>> /\ u.range[g] \in AskedRange /\ u.uuid[g] \in Media
        /\ ListOf(u, g) # None
    BY <1>2, <1>3, <1>4, <1>8 DEF Good, Lists, ListOf
  <2>2. t = SendAvailableChunks(v, g)
    BY <1>1, <1>8
  <2> HIDE DEF v
  <2>3. /\ v \in Kernel /\ Good(v) /\ Grows(u, v)
        /\ Only(u, v, {"curr", "last", "range", "told"})
    <3>1. \A h \in {g} : /\ u.told[h] = <<>> /\ u.range[h] \in AskedRange
                         /\ u.uuid[h] \in Media /\ ListOf(u, h) # None
      BY <2>1
    <3>2. {g} \in SUBSET Get /\ \A h \in Get \ {g} : ToldOf(u, h)
      BY <1>2
    <3>3. v = SetStreamingState(u, {g})
      BY DEF v
    <3> HIDE DEF o
    <3> QED
      BY <1>2, <3>1, <3>2, <3>3, SetStateGood
  <2>4. Known(v, Root(g)) /\ ListOf(v, g) # None
    BY <1>2, <2>1, <2>3 DEF Only, Fields, Known, ListOf
  <2>5. Serves(v, t)
    BY <2>2, <2>3, <2>4, SendAvailableServes
  <2>6. Handled(v, t)
    BY <2>3, <2>5, HandledServes
  <2>7. Handled(s, v)
    <3>1. Grows(s, v)
      BY <1>2, <1>3, <2>3, GrowsTwice
    <3>2. v.uuid = s.uuid /\ SameAccount(s, v)
      BY <1>2, <2>3 DEF Only, Fields, SameAccount
    <3> QED
      BY <2>3, <3>1, <3>2 DEF Handled
  <2> QED
    BY <2>6, <2>7, HandledTwice
<1> QED
  BY <1>6, <1>7, <1>8

-----------------------------------------------------------------------------
(* The steps. *)

\* What holds of the kernel between two steps, and what a step does to it.
Steady(s) == s \in Kernel /\ Good(s) /\ Counted(s) /\ Settled(s)
Moves(s, t) == Steady(t) /\ Grows(s, t) /\ t.uuid = s.uuid

LEMMA HandledMoves ==
    ASSUME NEW s, NEW u \in Kernel, Counted(u), Settled(u), u.uuid = s.uuid, u.told = s.told,
           u.cleaned = s.cleaned, NEW t, Handled(u, t)
    PROVE  Moves(s, t)
<1>1. Counted(t) /\ Settled(t)
  BY DEF Handled, SameAccount, Counted, Settled, PiecesAsked
<1>2. Grows(s, t)
  BY DEF Handled, Grows
<1> QED
  BY <1>1, <1>2 DEF Handled, Moves, Steady

\* What is ready stays so while others are asked.
LEMMA StillReady ==
    ASSUME NEW s \in Kernel, NEW t,
           Only(s, t, {"storage", "pendingRouter", "key", "tenders", "routerSize", "cache"}),
           NEW id \in Id, Ready(s, id), UnderWay(t, id) => UnderWay(s, id)
    PROVE  Ready(t, id)
<1>1. /\ t.uuid = s.uuid /\ t.requests = s.requests /\ t.waiting = s.waiting
      /\ t.units = s.units /\ t.chunk = s.chunk
  BY DEF Only, Fields
<1> QED
  BY <1>1 DEF Ready, Known, Leads, ListOf

\* A client that asks while the kernel is blocked is told that this fails.
LEMMA BlockedGood ==
    ASSUME NEW s \in Kernel, Good(s), NEW g \in Get, g \notin s.ims, s.told[g] = <<>>,
           NEW t, t = [s EXCEPT !.told[g] = Append(@, Fail)]
    PROVE  Handled(s, t)
<1>1. Fail \in Message /\ s.told \in [Get -> Seq(Message)] /\ Append(s.told[g], Fail) = <<Fail>>
  <2>1. Append(<<>>, Fail) = <<Fail>>
    OBVIOUS
  <2> QED
    BY <2>1, KernelTypes DEF Message
<1>2. /\ t \in Kernel /\ Only(s, t, {"told"})
      /\ t.told = [s.told EXCEPT ![g] = <<Fail>>]
  <2>1. t = [s EXCEPT !.told = [s.told EXCEPT ![g] = <<Fail>>]]
    BY <1>1
  <2>2. [s.told EXCEPT ![g] = <<Fail>>] \in [Get -> Seq(Message)]
    BY <1>1
  <2> QED
    BY <2>1, <2>2 DEF Kernel, Only, Fields
<1>3. /\ t.uuid = s.uuid /\ t.range = s.range /\ t.curr = s.curr /\ t.last = s.last
      /\ t.waiting = s.waiting /\ t.chunk = s.chunk
  BY <1>2 DEF Only, Fields
<1>4. /\ t.told[g] = <<Fail>> /\ \A h \in Get : h # g => t.told[h] = s.told[h]
      /\ <<Fail>> # <<>>
  BY <1>1, <1>2
<1>5. \A h \in Get : ToldOf(t, h)
  <2> SUFFICES ASSUME NEW h \in Get PROVE ToldOf(t, h)
    OBVIOUS
  <2>1. CASE h = g
    <3>1. ~ Listed(t, h)
      BY <1>3, <2>1, KernelTypes DEF Good, Lists, Listed
    <3> QED
      BY <1>4, <2>1, <3>1 DEF ToldOf
  <2>2. CASE h # g
    <3>1. t.told[h] = s.told[h] /\ \A q : IsStream(t, h, q) <=> IsStream(s, h, q)
      BY <1>3, <1>4, <2>2, IsStreamSame
    <3>2. /\ (Listed(t, h) <=> Listed(s, h)) /\ ListOf(t, h) = ListOf(s, h)
          /\ t.range[h] = s.range[h]
      BY <1>3 DEF Listed, ListOf
    <3>3. ToldOf(s, h)
      BY DEF Good, Told
    <3> QED
      BY <3>1, <3>2, <3>3 DEF ToldOf
  <2> QED
    BY <2>1, <2>2
<1>6. Grows(s, t)
  <2>0. g \notin s.cleaned /\ t.cleaned = s.cleaned
    BY <1>2 DEF Good, Streams, Only, Fields
  <2> SUFFICES ASSUME NEW h \in Get PROVE Longer(s.told[h], t.told[h])
    BY <1>4, <2>0 DEF Grows
  <2>1. t.told[h] = s.told[h] \/ (s.told[h] = <<>> /\ t.told[h] = Append(<<>>, Fail))
    BY <1>4
  <2>2. s.told[h] \in Seq(Message) /\ <<>> \in Seq(Message)
    BY <1>1
  <2> QED
    BY <1>1, <2>1, <2>2, LongerAppend
<1>7. Good(t)
  <2>1. Sound(s) /\ Only(s, t, {"curr", "last", "range", "told"})
    BY <1>2 DEF Good, Sound, Only
  <2> QED
    BY <1>2, <1>5, <1>6, <2>1, ToldServes
<1> QED
  BY <1>2, <1>6, <1>7, HandledOnly

\* A failure keeps the account.
LEMMA FailedStays ==
    ASSUME NEW s \in Kernel, Good(s), Counted(s), Settled(s), NEW id \in Id, Ready(s, id),
           NEW t, t = Failed(s, id)
    PROVE  /\ t \in Kernel /\ Good(t) /\ Grows(s, t) /\ t.uuid = s.uuid
           /\ Counted(t) /\ Settled(t)
<1>1. s.routerSize <= Cardinality(PiecesAsked(s)) + 1
  <2>1. s.routerSize \in Nat /\ Cardinality(PiecesAsked(s)) \in Nat
    BY KernelTypes, PiecesAskedFinite
  <2> QED
    BY <2>1 DEF Counted
<1>2. /\ t \in Kernel /\ Good(t) /\ Grows(s, t) /\ t.uuid = s.uuid
      /\ IF IsPiece(id)
         THEN (s.routerSize <= Cardinality(PiecesAsked(s)) + 1 => Counted(t)) /\ Settled(t)
         ELSE (Counted(s) => Counted(t)) /\ (Settled(s) => Settled(t))
  BY FailedGood
<1> QED
  BY <1>1, <1>2

\* The storage answers.
LEMMA StorageMoves ==
    ASSUME NEW s, Steady(s), s.storage # <<>>, NEW there \in BOOLEAN, NEW valid \in BOOLEAN,
           NEW id, id = Head(s.storage).id,
           NEW u, u = [s EXCEPT !.storage = Tail(@)],
           NEW t, t = IF ~ Known(u, id) THEN u
                      ELSE IF Head(s.storage).job = "look_up"
                           THEN IF there THEN Ask(u, "get", id) ELSE NotStored(u, id)
                      ELSE IF there THEN Got(u, id, valid) ELSE Failed(u, id)
    PROVE  Moves(s, t)
<1>1. s \in Kernel /\ Good(s) /\ Counted(s) /\ Settled(s)
  BY DEF Steady
<1>2. /\ Head(s.storage) \in JobType
      /\ u \in Kernel /\ Good(u) /\ Only(s, u, {"storage"}) /\ Ready(u, id)
  BY <1>1, StorageTaken
<1>3. id \in Id
  BY <1>2 DEF JobType
<1>4. Counted(u) /\ Settled(u) /\ u.told = s.told /\ u.uuid = s.uuid /\ u.cleaned = s.cleaned
  <2>1. {"storage"} \cap {"routerSize", "pendingRouter", "tenders"} = {}
    OBVIOUS
  <2>2. (Counted(u) <=> Counted(s)) /\ (Settled(u) <=> Settled(s))
    BY <1>2, <2>1, AccountSame
  <2>3. u.told = s.told /\ u.uuid = s.uuid /\ u.cleaned = s.cleaned
    BY <1>2 DEF Only, Fields
  <2> QED
    BY <1>1, <2>2, <2>3
<1>5. CASE t = Ask(u, "get", id)
  <2>0. /\ Ask(u, "get", id) \in Kernel /\ Good(Ask(u, "get", id))
        /\ Only(u, Ask(u, "get", id), {"storage"})
    BY <1>2, <1>3, AskGood
  <2>1. t \in Kernel /\ Good(t) /\ Only(u, t, {"storage"})
    BY <1>5, <2>0
  <2>2. Grows(u, t)
    BY <1>2, <2>1, GrowsSame DEF Only, Fields
  <2>3. Handled(u, t)
    BY <1>2, <2>1, <2>2, HandledOnly
  <2> QED
    BY <1>2, <1>4, <2>3, HandledMoves
<1>6. CASE t = NotStored(u, id)
  <2>1. /\ t \in Kernel /\ Good(t) /\ Only(u, t, {"tenders", "pendingRouter", "routerSize"})
        /\ Counted(t) /\ Settled(t)
    BY <1>2, <1>3, <1>4, <1>6, NotStoredGood
  <2>2. t.told = s.told /\ t.uuid = s.uuid /\ t.cleaned = s.cleaned
    BY <1>4, <2>1 DEF Only, Fields
  <2> QED
    BY <1>1, <2>1, <2>2, GrowsSame DEF Moves, Steady
<1>7. CASE t = Got(u, id, valid)
  <2>1. Handled(u, t)
    BY <1>2, <1>3, <1>7, GotGood
  <2> QED
    BY <1>2, <1>4, <2>1, HandledMoves
<1>8. CASE t = Failed(u, id)
  <2>1. /\ t \in Kernel /\ Good(t) /\ Grows(u, t) /\ t.uuid = u.uuid
        /\ Counted(t) /\ Settled(t)
    BY <1>2, <1>3, <1>4, <1>8, FailedStays
  <2>2. Grows(s, t)
    BY <1>4, <2>1 DEF Grows
  <2> QED
    BY <1>4, <2>1, <2>2 DEF Moves, Steady
<1> QED
  BY <1>2, <1>5, <1>6, <1>7, <1>8 DEF Ready

\* What a tender brings is kept for the cache.
Caching(s, f) == [s EXCEPT !.cache = @ \cup {f}]

LEMMA CachingIs ==
    ASSUME NEW s \in Kernel, NEW f \in File, NEW t, t = Caching(s, f)
    PROVE  t \in Kernel /\ Only(s, t, {"cache"})
<1>1. s.cache \cup {f} \in SUBSET File
  BY KernelTypes
<1>2. t \in Kernel
  BY <1>1 DEF Kernel, Caching
<1>3. Only(s, t, {"cache"})
  BY DEF Kernel, Caching, Only, Fields
<1> QED
  BY <1>2, <1>3

LEMMA CachedGood ==
    ASSUME NEW s \in Kernel, Good(s), NEW id \in Id, Ready(s, id),
           NEW t, t = Caching(s, FileOf(s, id))
    PROVE  /\ t \in Kernel /\ Good(t) /\ Only(s, t, {"cache"}) /\ Ready(t, id)
           /\ \A x : UnderWay(t, x) <=> UnderWay(s, x)
<1>1. FileOf(s, id) \in File
  <2>1. Parent(id) \in Get /\ s.uuid[Parent(id)] \in Object
    BY IdFacts, KernelTypes
  <2>2. CASE IsPiece(id)
    <3>1. id[2] \in PiecesOf(s.uuid[Parent(id)])
      BY <2>2 DEF Good, Pieces, Ready, Known
    <3> QED
      BY <2>1, <3>1 DEF FileOf, File
  <2>3. CASE ~ IsPiece(id)
    <3>1. FileOf(s, id) = Master(s.uuid[Parent(id)])
      BY <2>3 DEF FileOf, Master, IsPiece
    <3> QED
      BY <2>1, <3>1 DEF File
  <2> QED
    BY <2>2, <2>3
<1>2. t \in Kernel /\ Only(s, t, {"cache"})
  BY <1>1, CachingIs
<1>3. /\ t.storage = s.storage /\ t.pendingRouter = s.pendingRouter /\ t.key = s.key
      /\ t.tenders = s.tenders /\ t.requests = s.requests
  BY <1>2 DEF Only, Fields
<1>4. \A x : UnderWay(t, x) <=> UnderWay(s, x)
  BY <1>3 DEF UnderWay, AtStorage, Waits, AtKey
<1>5. OnePlace(t)
  BY <1>3 DEF Good, OnePlace, PlaceOf, Known, UnderWay, AtStorage, Waits, AtKey
<1>6. Only(s, t, {"storage", "pendingRouter", "key", "tenders", "routerSize", "cache"})
  BY <1>2 DEF Only
<1> QED
  BY <1>2, <1>4, <1>5, <1>6, AskingGood, StillReady

\* The router has the data, and the place of a piece is free again.
DataGot(s, id, valid) ==
    LET u == [s EXCEPT !.tenders = @ \ {id}]
        c == [u EXCEPT !.cache = @ \cup {FileOf(u, id)}]
        v == IF IsPiece(id) THEN ProcessRouterPending(ReduceRouterSize(c)) ELSE c
    IN IF Known(u, id) THEN Got(v, id, valid) ELSE u

LEMMA DataMoves ==
    ASSUME NEW s, Steady(s), NEW id \in s.tenders, NEW valid \in BOOLEAN,
           NEW t, t = DataGot(s, id, valid)
    PROVE  Moves(s, t)
<1> DEFINE u == [s EXCEPT !.tenders = @ \ {id}]
           c == [u EXCEPT !.cache = @ \cup {FileOf(u, id)}]
           v == IF IsPiece(id) THEN ProcessRouterPending(ReduceRouterSize(c)) ELSE c
<1>0. /\ v = IF IsPiece(id) THEN ProcessRouterPending(ReduceRouterSize(c)) ELSE c
      /\ t = IF Known(u, id) THEN Got(v, id, valid) ELSE u
  BY DEF DataGot
<1> HIDE DEF v
<1>1. s \in Kernel /\ Good(s) /\ Counted(s) /\ Settled(s)
  BY DEF Steady
<1>2. /\ id \in Id
      /\ u \in Kernel /\ Good(u) /\ Only(s, u, {"tenders"}) /\ Ready(u, id)
      /\ IF IsPiece(id) THEN u.routerSize <= Cardinality(PiecesAsked(u)) + 1 ELSE Counted(u)
  <2>1. u = [s EXCEPT !.tenders = @ \ {id}]
    OBVIOUS
  <2> HIDE DEF u
  <2>2. /\ id \in Id /\ Known(s, id)
        /\ u \in Kernel /\ Good(u) /\ Only(s, u, {"tenders"}) /\ Ready(u, id)
        /\ Counted(s) => IF IsPiece(id) THEN u.routerSize <= Cardinality(PiecesAsked(u)) + 1
                                        ELSE Counted(u)
    BY <1>1, <2>1, TenderTaken, ZenonT(60)
  <2> QED
    BY <1>1, <2>2
<1> HIDE DEF u
<1>3. /\ c \in Kernel /\ Good(c) /\ Only(u, c, {"cache"}) /\ Ready(c, id)
  <2>1. c = Caching(u, FileOf(u, id))
    BY DEF Caching
  <2> HIDE DEF c
  <2> QED
    BY <1>2, <2>1, CachedGood
<1> HIDE DEF c
<1>4. /\ c.routerSize = u.routerSize /\ c.pendingRouter = s.pendingRouter
      /\ PiecesAsked(c) = PiecesAsked(u) /\ c.told = s.told /\ c.uuid = s.uuid /\ c.cleaned = s.cleaned
      /\ c.routerSize = s.routerSize
  BY <1>2, <1>3 DEF Only, Fields, PiecesAsked
<1>5. /\ v \in Kernel /\ Good(v) /\ Ready(v, id) /\ Counted(v) /\ Settled(v)
      /\ v.told = s.told /\ v.uuid = s.uuid /\ v.cleaned = s.cleaned
  <2>1. CASE IsPiece(id)
    <3> DEFINE r == ReduceRouterSize(c)
    <3>1. v = ProcessRouterPending(r)
      BY <1>0, <2>1
    <3>2. c.routerSize <= Cardinality(PiecesAsked(c)) + 1
      BY <1>2, <1>4, <2>1
    <3>3. r \in Kernel /\ Good(r) /\ Only(c, r, {"routerSize"}) /\ Counted(r)
          /\ \A x \in Id : UnderWay(r, x) <=> UnderWay(c, x)
      BY <1>3, <3>2, ReduceGood
    <3> HIDE DEF r
    <3>4. /\ v \in Kernel /\ Good(v) /\ Only(r, v, {"tenders", "pendingRouter", "routerSize"})
          /\ Counted(v) /\ Settled(v)
          /\ \A x \in Id : UnderWay(v, x) <=> UnderWay(r, x)
      BY <3>1, <3>3, ProcessGood
    <3>5. Only(c, v, {"storage", "pendingRouter", "key", "tenders", "routerSize", "cache"})
      BY <3>3, <3>4 DEF Only, Fields
    <3>6. UnderWay(v, id) => UnderWay(c, id)
      BY <1>2, <3>3, <3>4
    <3>7. Ready(v, id)
      BY <1>2, <1>3, <3>5, <3>6, StillReady
    <3>8. v.told = s.told /\ v.uuid = s.uuid /\ v.cleaned = s.cleaned
      BY <1>4, <3>5 DEF Only, Fields
    <3> QED
      BY <3>4, <3>7, <3>8
  <2>2. CASE ~ IsPiece(id)
    <3>1. v = c
      BY <1>0, <2>2
    <3>2. Counted(c) /\ Settled(c)
      BY <1>1, <1>2, <1>4, <2>2 DEF Counted, Settled
    <3> QED
      BY <1>3, <1>4, <3>1, <3>2
  <2> QED
    BY <2>1, <2>2
<1>6. t = Got(v, id, valid)
  BY <1>0, <1>2 DEF Ready
<1>7. Handled(v, t)
  BY <1>2, <1>5, <1>6, GotGood
<1> QED
  BY <1>5, <1>7, HandledMoves

\* The tender has found nobody.
LEMMA CancelMoves ==
    ASSUME NEW s, Steady(s), NEW id \in s.tenders,
           NEW u, u = [s EXCEPT !.tenders = @ \ {id}],
           NEW t, t = IF Known(u, id) THEN Failed(u, id) ELSE u
    PROVE  Moves(s, t)
<1>1. s \in Kernel /\ Good(s) /\ Counted(s) /\ Settled(s)
  BY DEF Steady
<1>2. /\ id \in Id
      /\ u \in Kernel /\ Good(u) /\ Only(s, u, {"tenders"}) /\ Ready(u, id)
      /\ IF IsPiece(id) THEN u.routerSize <= Cardinality(PiecesAsked(u)) + 1 ELSE Counted(u)
  <2>1. /\ id \in Id /\ Known(s, id)
        /\ u \in Kernel /\ Good(u) /\ Only(s, u, {"tenders"}) /\ Ready(u, id)
        /\ Counted(s) => IF IsPiece(id) THEN u.routerSize <= Cardinality(PiecesAsked(u)) + 1
                                        ELSE Counted(u)
    BY <1>1, TenderTaken, ZenonT(60)
  <2> QED
    BY <1>1, <2>1
<1>3. t = Failed(u, id)
  BY <1>2 DEF Ready
<1>4. u.told = s.told /\ u.uuid = s.uuid /\ u.cleaned = s.cleaned /\ Settled(u)
  <2>1. /\ u.told = s.told /\ u.uuid = s.uuid /\ u.cleaned = s.cleaned /\ u.pendingRouter = s.pendingRouter
        /\ u.routerSize = s.routerSize
    BY <1>2 DEF Only, Fields
  <2> QED
    BY <1>1, <2>1 DEF Settled
<1>5. t \in Kernel /\ Good(t) /\ Grows(u, t) /\ t.uuid = u.uuid /\ Counted(t) /\ Settled(t)
  BY <1>2, <1>3, <1>4, FailedGood
<1>6. Grows(s, t)
  BY <1>4, <1>5 DEF Grows
<1> QED
  BY <1>4, <1>5, <1>6 DEF Moves, Steady

\* The key manager answers; what it answers for is always there.
LEMMA KeyMoves ==
    ASSUME NEW s, Steady(s), s.key # <<>>, NEW decrypted \in BOOLEAN, NEW valid \in BOOLEAN,
           NEW id, id = Head(s.key),
           NEW u, u = Require(Known(s, id), [s EXCEPT !.key = Tail(@)]),
           NEW t, t = CASE ~ decrypted -> DecryptionFailed(u, id)
                        [] decrypted /\ IsPiece(id) -> Decrypted(u, id)
                        [] OTHER -> IF valid THEN HandleMaster(u, Parent(id)) ELSE Failed(u, id)
    PROVE  Moves(s, t)
<1>1. s \in Kernel /\ Good(s) /\ Counted(s) /\ Settled(s)
  BY DEF Steady
<1> DEFINE w == [s EXCEPT !.key = Tail(@)]
<1>2. /\ id \in Id /\ Known(s, id)
      /\ w \in Kernel /\ Good(w) /\ Only(s, w, {"key"}) /\ Ready(w, id)
  BY <1>1, KeyTaken
<1>3. u = Require(Known(s, id), w) /\ Known(s, id) \in BOOLEAN
  BY DEF Known
<1> HIDE DEF w
<1>4. u = w
  BY <1>2, <1>3, RequireIs
<1>5. u \in Kernel /\ Good(u) /\ Only(s, u, {"key"}) /\ Ready(u, id)
  BY <1>2, <1>4
<1>6. Counted(u) /\ Settled(u) /\ u.told = s.told /\ u.uuid = s.uuid /\ u.cleaned = s.cleaned
  <2>1. {"key"} \cap {"routerSize", "pendingRouter", "tenders"} = {}
    OBVIOUS
  <2>2. (Counted(u) <=> Counted(s)) /\ (Settled(u) <=> Settled(s))
    BY <1>5, <2>1, AccountSame
  <2>3. u.told = s.told /\ u.uuid = s.uuid /\ u.cleaned = s.cleaned
    BY <1>5 DEF Only, Fields
  <2> QED
    BY <1>1, <2>2, <2>3
<1>7. CASE ~ decrypted
  <2>1. t = DecryptionFailed(u, id)
    BY <1>7
  <2>2. Handled(u, t)
    BY <1>2, <1>5, <2>1, DecryptionFailedGood
  <2> QED
    BY <1>5, <1>6, <2>2, HandledMoves
<1>8. CASE decrypted /\ IsPiece(id)
  <2>1. t = Decrypted(u, id)
    BY <1>8
  <2>2. CASE ParentGone(u, id)
    <3>1. t = Erase(u, id)
      BY <2>1, <2>2 DEF Decrypted
    <3>2. Handled(u, t)
      BY <1>2, <1>5, <1>8, <3>1, ForgottenGood
    <3> QED
      BY <1>5, <1>6, <3>2, HandledMoves
  <2>3. CASE ~ ParentGone(u, id)
    <3>1. t = ProcessPiece(u, id)
      BY <2>1, <2>3 DEF Decrypted
    <3>2. Handled(u, t)
      BY <1>2, <1>5, <1>8, <2>3, <3>1, ProcessPieceGood
    <3> QED
      BY <1>5, <1>6, <3>2, HandledMoves
  <2> QED
    BY <2>2, <2>3
<1>9. CASE decrypted /\ ~ IsPiece(id)
  <2>1. id = Root(Parent(id)) /\ Parent(id) \in Get
    BY <1>2, <1>9, IdFacts
  <2>2. t = IF valid THEN HandleMaster(u, Parent(id)) ELSE Failed(u, Root(Parent(id)))
    BY <1>9, <2>1
  <2>3. Ready(u, Root(Parent(id)))
    BY <1>5, <2>1
  <2>4. CASE valid
    <3>1. t = HandleMaster(u, Parent(id))
      BY <2>2, <2>4
    <3>2. Handled(u, t)
      BY <1>5, <2>1, <2>3, <3>1, HandleMasterGood
    <3> QED
      BY <1>5, <1>6, <3>2, HandledMoves
  <2>5. CASE ~ valid
    <3>1. t = Failed(u, Root(Parent(id)))
      BY <2>2, <2>5
    <3>2. Handled(u, t)
      BY <1>5, <2>1, <2>3, <3>1, MasterFailedGood
    <3> QED
      BY <1>5, <1>6, <3>2, HandledMoves
  <2> QED
    BY <2>4, <2>5
<1> QED
  BY <1>7, <1>8, <1>9

\* Nothing that the invariant is about changes.
LEMMA AsideMoves ==
    ASSUME NEW s, Steady(s), NEW t \in Kernel, Only(s, t, {"cache", "blocked", "cleaned"}),
           s.cleaned \subseteq t.cleaned, Streams(t)
    PROVE  Moves(s, t)
<1>1. s \in Kernel /\ Good(s) /\ Counted(s) /\ Settled(s)
  BY DEF Steady
<1>2. /\ t.uuid = s.uuid /\ t.requests = s.requests /\ t.ims = s.ims
      /\ t.waiting = s.waiting /\ t.units = s.units /\ t.chunk = s.chunk
      /\ t.range = s.range /\ t.curr = s.curr /\ t.last = s.last /\ t.told = s.told
      /\ t.aborted = s.aborted /\ t.storage = s.storage /\ t.key = s.key
      /\ t.pendingRouter = s.pendingRouter /\ t.tenders = s.tenders
      /\ t.routerSize = s.routerSize
  BY DEF Only, Fields
<1>3. \A x : UnderWay(t, x) <=> UnderWay(s, x)
  BY <1>2 DEF UnderWay, AtStorage, Waits, AtKey
<1>4. OnePlace(t)
  BY <1>1, <1>2 DEF Good, OnePlace, PlaceOf, Known, UnderWay, AtStorage, Waits, AtKey
<1>5. Lists(t)
  BY <1>1, <1>2 DEF Good, Lists, Listed, Known
<1>6. Pieces(t)
  BY <1>1, <1>2 DEF Good, Pieces, Known, ListOf, Leads
<1>7. Masters(t)
  BY <1>1, <1>2, <1>3 DEF Good, Masters, Leads, ListOf
<1>8. Units(t)
  BY <1>1, <1>2, <1>3 DEF Good, Units, Known
<1>9. Told(t)
  <2>1. \A g, q : IsStream(t, g, q) <=> IsStream(s, g, q)
    BY <1>2, IsStreamSame
  <2> QED
    BY <1>1, <1>2, <2>1 DEF Good, Told, ToldOf, Listed, ListOf
<1>10. Good(t)
  BY <1>1, <1>2, <1>4, <1>5, <1>6, <1>7, <1>8, <1>9 DEF Good
<1>11. Counted(t) /\ Settled(t)
  BY <1>1, <1>2 DEF Counted, Settled, PiecesAsked
<1> QED
  BY <1>1, <1>2, <1>10, <1>11, GrowsSame DEF Moves, Steady

LEMMA SameMoves ==
    ASSUME NEW s, Steady(s)
    PROVE  Moves(s, s)
BY GrowsSame DEF Moves, Steady

LEMMA ImsGetMoves ==
    ASSUME IInv, NEW g \in Get, ImsGet(g)
    PROVE  Moves(k, k') /\ UNCHANGED <<stored, lost>>
<1>1. k \in Kernel /\ Good(k) /\ Counted(k) /\ Settled(k) /\ UNCHANGED <<stored, lost>>
  BY DEF IInv, ImsGet
<1>2. g \notin k.ims /\ k.told[g] = <<>>
  BY DEF ImsGet, Asked
<1>3. k' = [k EXCEPT !.told[g] = Append(@, Fail)] \/ k' = Join(k, g)
  BY DEF ImsGet
<1>4. Handled(k, k')
  BY <1>1, <1>2, <1>3, BlockedGood, JoinGood
<1> QED
  BY <1>1, <1>4, HandledMoves

LEMMA CleanMoves ==
    ASSUME IInv, NEW g \in Get, ImsCleanStream(g)
    PROVE  Moves(k, k') /\ UNCHANGED <<stored, lost>>
<1> DEFINE s == [k EXCEPT !.cleaned = @ \cup {g}]
           t == Drop(s, g)
           listed == Known(k, Root(g)) /\ g \in ElementsOf(k.waiting[k.uuid[g]])
<1>1. k \in Kernel /\ Good(k) /\ Counted(k) /\ Settled(k) /\ UNCHANGED <<stored, lost>>
  BY DEF IInv, ImsCleanStream
<1>2. /\ g \notin k.cleaned /\ k.told[g] # <<>>
      /\ k' = IF g \in k.ims THEN Require(listed, t) ELSE s
  BY DEF ImsCleanStream
<1>3. CASE g \in k.ims
  <2>1. Listed(k, g) /\ listed = TRUE
    BY <1>1, <1>2, <1>3, KernelTypes DEF Good, Streams, Lists, Listed
  <2>2. Handled(k, t)
    BY <1>1, <1>2, <2>1, DropGood
  <2> HIDE DEF t, listed
  <2>3. k' = t
    BY <1>2, <1>3, <2>1, <2>2, RequireIs DEF Handled
  <2> QED
    BY <1>1, <2>2, <2>3, HandledMoves
<1>4. CASE g \notin k.ims
  <2>1. k' = s
    BY <1>2, <1>4
  <2>2. s \in Kernel /\ s.cleaned = k.cleaned \cup {g} /\ Only(k, s, {"cache", "blocked", "cleaned"})
    BY <1>1 DEF Kernel, Only, Fields
  <2> HIDE DEF s
  <2>3. ~ Listed(k, g)
    BY <1>1, <1>4, KernelTypes DEF Good, Lists, Listed
  <2>4. /\ s.ims = k.ims /\ s.told = k.told /\ s.waiting = k.waiting /\ s.uuid = k.uuid
    BY <2>2 DEF Only, Fields
  <2>5. Streams(s)
    BY <1>1, <1>2, <2>2, <2>3, <2>4 DEF Good, Streams, Listed
  <2> QED
    BY <1>1, <2>1, <2>2, <2>5, AsideMoves DEF Steady
<1> QED
  BY <1>3, <1>4

LEMMA AnswerMoves ==
    ASSUME IInv, Answer
    PROVE  Moves(k, k') /\ UNCHANGED <<stored, lost>>
<1>1. Steady(k)
  BY DEF IInv, Steady
<1>2. ASSUME NEW valid \in BOOLEAN, StorageAnswer(valid)
      PROVE  Moves(k, k') /\ UNCHANGED <<stored, lost>>
  <2> DEFINE id == Head(k.storage).id
             u == [k EXCEPT !.storage = Tail(@)]
             there == FileOf(k, id) \in stored
  <2>1. /\ k.storage # <<>> /\ UNCHANGED <<stored, lost>>
        /\ k' = IF ~ Known(u, id) THEN u
                ELSE IF Head(k.storage).job = "look_up"
                     THEN IF there THEN Ask(u, "get", id) ELSE NotStored(u, id)
                ELSE IF there THEN Got(u, id, valid) ELSE Failed(u, id)
    BY <1>2 DEF StorageAnswer
  <2>2. there \in BOOLEAN
    OBVIOUS
  <2> HIDE DEF there
  <2> QED
    BY <1>1, <2>1, <2>2, StorageMoves
<1>3. ASSUME NEW decrypted \in BOOLEAN, NEW valid \in BOOLEAN, KeyAnswer(decrypted, valid)
      PROVE  Moves(k, k') /\ UNCHANGED <<stored, lost>>
  <2> DEFINE id == Head(k.key)
             u == Require(Known(k, id), [k EXCEPT !.key = Tail(@)])
  <2>1. /\ k.key # <<>> /\ UNCHANGED <<stored, lost>>
        /\ k' = CASE ~ decrypted -> DecryptionFailed(u, id)
                  [] decrypted /\ IsPiece(id) -> Decrypted(u, id)
                  [] OTHER -> IF valid THEN HandleMaster(u, Parent(id)) ELSE Failed(u, id)
    BY <1>3 DEF KeyAnswer
  <2> QED
    BY <1>1, <2>1, KeyMoves
<1>4. ASSUME NEW id \in Id, RouterCancel(id)
      PROVE  Moves(k, k') /\ UNCHANGED <<stored, lost>>
  <2> DEFINE u == [k EXCEPT !.tenders = @ \ {id}]
  <2>1. /\ id \in k.tenders /\ UNCHANGED <<stored, lost>>
        /\ k' = IF Known(u, id) THEN Failed(u, id) ELSE u
    BY <1>4 DEF RouterCancel
  <2> QED
    BY <1>1, <2>1, CancelMoves
<1>5. ASSUME NEW id \in Id, NEW valid \in BOOLEAN, RouterGetData(id, valid)
      PROVE  Moves(k, k') /\ UNCHANGED <<stored, lost>>
  <2>1. id \in k.tenders /\ UNCHANGED <<stored, lost>> /\ k' = DataGot(k, id, valid)
    BY <1>5 DEF RouterGetData, DataGot
  <2> QED
    BY <1>1, <2>1, DataMoves
<1> QED
  BY <1>2, <1>3, <1>4, <1>5 DEF Answer

LEMMA StepMoves ==
    ASSUME IInv, [Next]_vars
    PROVE  /\ Moves(k, k')
           /\ stored' \subseteq File /\ lost' \in 0 .. MaxLost
<1>1. Steady(k) /\ stored \subseteq File /\ lost \in 0 .. MaxLost
  BY DEF IInv, Steady
<1>2. ASSUME NEW g \in Get, ImsGet(g) \/ ImsCleanStream(g)
      PROVE  Moves(k, k') /\ stored' \subseteq File /\ lost' \in 0 .. MaxLost
  BY <1>1, <1>2, ImsGetMoves, CleanMoves
<1>3. CASE Answer
  BY <1>1, <1>3, AnswerMoves
<1>4. CASE RouterSyncFinished
  <2>1. k' \in Kernel /\ Only(k, k', {"cache", "blocked", "cleaned"}) /\ k'.cleaned = k.cleaned
    BY <1>1, <1>4 DEF RouterSyncFinished, Steady, Kernel, Only, Fields
  <2>2. Streams(k')
    BY <1>1, <2>1, StreamsSame DEF Only, Fields, Steady, Good
  <2> QED
    BY <1>1, <1>4, <2>1, <2>2, AsideMoves DEF RouterSyncFinished
<1>5. ASSUME NEW f \in File, AddInCache(f)
      PROVE  Moves(k, k') /\ stored' \subseteq File /\ lost' \in 0 .. MaxLost
  <2>1. k' \in Kernel /\ Only(k, k', {"cache", "blocked", "cleaned"}) /\ k'.cleaned = k.cleaned
    BY <1>1, <1>5 DEF AddInCache, Steady, Kernel, Only, Fields
  <2>2. Streams(k')
    BY <1>1, <2>1, StreamsSame DEF Only, Fields, Steady, Good
  <2> QED
    BY <1>1, <1>5, <2>1, <2>2, AsideMoves DEF AddInCache
<1>6. ASSUME NEW f \in File, Lose(f)
      PROVE  Moves(k, k') /\ stored' \subseteq File /\ lost' \in 0 .. MaxLost
  <2>1. lost' \in 0 .. MaxLost /\ stored' \subseteq File
    BY <1>1, <1>6, GetLimits DEF Lose
  <2> QED
    BY <1>1, <1>6, <2>1, SameMoves DEF Lose
<1>7. CASE UNCHANGED vars
  BY <1>1, <1>7, SameMoves DEF vars
<1> QED
  BY <1>2, <1>3, <1>4, <1>5, <1>6, <1>7 DEF Next

LEMMA InitInv ==
    ASSUME Init
    PROVE  IInv
<1>1. PICK uuid \in [Get -> Object], range \in [Get -> Ranges], blocked \in BOOLEAN :
        k = [uuid |-> uuid, requests |-> {}, ims |-> {}, cleaned |-> {},
                waiting |-> [o \in Object |-> <<>>],
                units |-> [g \in Get |-> {}], missing |-> [g \in Get |-> {}],
                chunk |-> [o \in Object |-> None],
                range |-> range, curr |-> [g \in Get |-> 0],
                last |-> [g \in Get |-> 0],
                pendingRouter |-> <<>>, routerSize |-> 0, blocked |-> blocked,
                storage |-> <<>>, cache |-> {}, key |-> <<>>, tenders |-> {},
                told |-> [g \in Get |-> <<>>], aborted |-> FALSE]
  BY DEF Init
<1>2. range \in [Get -> Int \X Int] /\ range \in [Get -> AskedRange]
  BY GetAssumption DEF AskedRange
<1>3. k \in Kernel
  <2>1. [o \in Object |-> <<>>] \in [Object -> Seq(Get)]
    OBVIOUS
  <2>2. <<>> \in Seq(PieceId) /\ <<>> \in Seq([job : {"look_up", "get"}, id : Id])
        /\ <<>> \in Seq(Id) /\ [g \in Get |-> <<>>] \in [Get -> Seq(Message)]
    OBVIOUS
  <2> QED
    BY <1>1, <1>2, <2>1, <2>2 DEF Kernel
<1>4. /\ k.requests = {} /\ k.storage = <<>> /\ k.pendingRouter = <<>> /\ k.key = <<>>
      /\ k.tenders = {} /\ k.routerSize = 0 /\ ~ k.aborted /\ k.ims = {} /\ k.cleaned = {}
      /\ \A o \in Object : k.waiting[o] = <<>> /\ k.chunk[o] = None
      /\ \A g \in Get : k.told[g] = <<>> /\ k.units[g] = {} /\ k.range[g] \in AskedRange
      /\ k.uuid \in [Get -> Object]
  BY <1>1, <1>2
<1>5. ElementsOf(<<>>) = {} /\ Once(<<>>)
  BY NoElements
<1>6. \A x : ~ UnderWay(k, x)
  BY <1>4, <1>5 DEF UnderWay, AtStorage, Waits, AtKey
<1>7. OnePlace(k)
  BY <1>4, <1>5, <1>6 DEF OnePlace, PlaceOf, AtStorage, Waits, AtKey
<1>8. \A g \in Get : ~ Known(k, Root(g)) /\ ~ Listed(k, g)
  BY <1>4, <1>5 DEF Known, Listed
<1>9. Lists(k) /\ Masters(k) /\ Pieces(k) /\ Units(k)
  BY <1>4, <1>5, <1>6, <1>8 DEF Lists, Masters, Pieces, Units
<1>10. Told(k) /\ Streams(k)
  BY <1>4, <1>8 DEF Told, ToldOf, Streams
<1>11. Counted(k) /\ Settled(k)
  <2>1. PiecesAsked(k) = {}
    BY <1>4 DEF PiecesAsked
  <2> QED
    BY <1>4, <2>1, FS_EmptySet DEF Counted, Settled
<1>12. stored \subseteq File /\ lost \in 0 .. MaxLost
  BY FileAssumption, GetLimits DEF Init
<1> QED
  BY <1>3, <1>4, <1>7, <1>9, <1>10, <1>11, <1>12 DEF IInv, Good

\* The invariant holds, and a client is only ever told more.
LEMMA Invariant == Spec => []IInv /\ [][Grows(k, k')]_vars
<1>1. Init => IInv
  BY InitInv
<1>2. IInv /\ [Next]_vars => IInv' /\ Grows(k, k')
  <2> SUFFICES ASSUME IInv, [Next]_vars PROVE IInv' /\ Grows(k, k')
    OBVIOUS
  <2>1. Moves(k, k') /\ stored' \subseteq File /\ lost' \in 0 .. MaxLost
    BY StepMoves
  <2> QED
    BY <2>1 DEF Moves, Steady, IInv, Good, OnePlace, Lists, Masters, Pieces, Units, Told,
                Streams, Counted, Settled
<1> QED
  BY <1>1, <1>2, PTL DEF Spec

-----------------------------------------------------------------------------
(* What follows from the invariant *)

\* No poco_assert of the get handlers fails, so the process is not aborted: a key
\* manager's answer finds the request it is for, no list is answered twice, and a
\* stream is cleaned once at most, out of the list that it is in.
THEOREM GetNoAbort == Spec => []NoAbort
<1>1. IInv => NoAbort
  <2> SUFFICES ASSUME IInv PROVE NoAbort
    OBVIOUS
  <2>1. k \in Kernel /\ Good(k) /\ stored \subseteq File /\ lost \in 0 .. MaxLost
    BY DEF IInv
  <2>2. \A o \in Object : k.chunk[o] = None
          \/ k.chunk[o] \in [Chunks(o) -> {"no", "requested", "available"}]
    BY <2>1 DEF Good, Lists
  <2>3. ~ k.aborted
    BY <2>1 DEF Good
  <2>4. TypeOK
    BY <2>1, <2>2, KernelTypes DEF TypeOK, JobType
  <2> QED
    BY <2>3, <2>4 DEF NoAbort
<1> QED
  BY <1>1, Invariant, PTL

\* m_router_get_input_size counts no piece that the router does not have, and pieces
\* wait only while it is at its limit: the limit delays pieces and loses none.
THEOREM GetRouterAccount == Spec => []RouterAccount
<1>1. IInv => RouterAccount
  BY DEF IInv, Counted, Settled, PiecesAsked, RouterAccount
<1> QED
  BY <1>1, Invariant, PTL

\* A chunk ends before the next ones begin.
LEMMA ChunksOrdered ==
    ASSUME NEW o \in Object, NEW i \in Chunks(o), NEW j \in Chunks(o), j < i
    PROVE  End(o, j) <= Start(o, i)
<1>1. CASE o \notin Cut
  BY <1>1 DEF Chunks
<1>2. CASE o \in Cut
  <2> DEFINE n == Count(o)
  <2>1. Chunks(o) = 0 .. n - 1 /\ n \in Nat \ {0} /\ ChunkSize \in Nat
    BY <1>2, ChunksOf, GetAssumption DEF Number
  <2>2. Start(o, i) = i * ChunkSize
    BY <1>2 DEF Start
  <2>3. End(o, j) = IF j < n - 1 THEN (j + 1) * ChunkSize ELSE Size[o]
    BY <1>2 DEF End
  <2> HIDE DEF n
  <2>4. i \in Nat /\ j \in Nat /\ j < n - 1
    BY <2>1
  <2>5. (j + 1) * ChunkSize <= i * ChunkSize
    BY <2>1, <2>4
  <2> QED
    BY <2>2, <2>3, <2>4, <2>5
<1> QED
  BY <1>1, <1>2

\* Between two parts with bytes there is none without.
LEMMA NoHoles ==
    ASSUME NEW o \in Object, NEW r, Regular(o, r), NEW i \in Chunks(o), NEW j \in Chunks(o),
           NEW h \in Chunks(o), h = i - 1, j <= h, HasBytes(PartOf(o, i, r)), HasBytes(PartOf(o, j, r))
    PROVE  HasBytes(PartOf(o, h, r))
<1>1. r \in Int \X Int /\ r[1] \in Nat /\ r[2] \in Nat
  BY GetAssumption DEF Regular
<1>2. \A x \in Chunks(o) :
        /\ Start(o, x) \in Nat /\ End(o, x) \in Nat /\ Start(o, x) < End(o, x)
        /\ HasBytes(PartOf(o, x, r)) <=>
             /\ r[1] < End(o, x) /\ Start(o, x) < r[2] + 1 /\ r[1] < r[2] + 1
  <2> SUFFICES ASSUME NEW x \in Chunks(o)
               PROVE  /\ Start(o, x) \in Nat /\ End(o, x) \in Nat /\ Start(o, x) < End(o, x)
                      /\ HasBytes(PartOf(o, x, r)) <=>
                           /\ r[1] < End(o, x) /\ Start(o, x) < r[2] + 1 /\ r[1] < r[2] + 1
    OBVIOUS
  <2>1. Start(o, x) \in Nat /\ End(o, x) \in Nat /\ Start(o, x) < End(o, x)
    BY ChunkEnds
  <2>2. PICK from \in Nat, to \in Nat :
              /\ PartOf(o, x, r) = Part(from, to)
              /\ from = IF Start(o, x) < r[1] THEN r[1] ELSE Start(o, x)
              /\ from < to => to = IF End(o, x) - 1 > r[2] THEN r[2] + 1 ELSE End(o, x)
              /\ from <= (IF End(o, x) - 1 > r[2] THEN r[2] + 1 ELSE End(o, x)) =>
                   to = IF End(o, x) - 1 > r[2] THEN r[2] + 1 ELSE End(o, x)
    BY <1>1, PartIs
  <2>3. HasBytes(PartOf(o, x, r)) <=> from < to
    BY <2>2 DEF HasBytes, Part
  <2> QED
    BY <1>1, <2>1, <2>2, <2>3
<1>3. End(o, j) <= End(o, h)
  <2>1. CASE j = h
    BY <1>2, <2>1
  <2>2. CASE j # h
    <3>1. j < h
      BY <2>2, ChunksOf
    <3>2. End(o, j) <= Start(o, h)
      BY <3>1, ChunksOrdered
    <3> QED
      BY <1>2, <3>2
  <2> QED
    BY <2>1, <2>2
<1>4. End(o, h) <= Start(o, i)
  <2>1. h < i
    BY ChunksOf
  <2> QED
    BY <2>1, ChunksOrdered
<1> QED
  BY <1>1, <1>2, <1>3, <1>4

\* What a client has been told whom the kernel has sent chunks.
LEMMA ToldChunks ==
    ASSUME NEW s \in Kernel, NEW g \in Get, ToldOf(s, g), NEW n \in DOMAIN s.told[g],
           s.told[g][n].cmd = "chunk",
           NEW o, o = s.uuid[g], NEW r, r = s.range[g], NEW first, first = FirstChunk(o, r)
    PROVE  /\ o \in Object /\ Regular(o, r) /\ first \in Chunks(o) /\ first < s.curr[g]
           /\ s.curr[g] <= s.last[g] /\ s.last[g] = LastChunk(o, r) /\ s.last[g] \in 0 .. Number(o)
           /\ n \in 2 .. s.curr[g] - first + 1
           /\ s.told[g][1] = Prepare((s.last[g] - first) % Word)
           /\ \A i \in 2 .. s.curr[g] - first + 1 :
                 first + i - 2 \in Chunks(o) /\ s.told[g][i] = PartOf(o, first + i - 2, r)
           /\ \/ Len(s.told[g]) = s.curr[g] - first + 1
              \/ /\ Len(s.told[g]) = s.curr[g] - first + 2
                 /\ s.told[g][s.curr[g] - first + 2] = Fail
<1>1. /\ o \in Object /\ s.curr[g] \in Nat /\ s.last[g] \in Nat /\ r \in Int \X Int
      /\ s.told[g] \in Seq(Message)
  BY KernelTypes
<1>2. PICK q \in Seq(Message) : IsStream(s, g, q) /\ s.told[g] \in {q, Append(q, Fail)}
  <2>1. s.told[g] \notin {<<>>, <<Data>>, <<Fail>>}
    BY DEF Data, Fail
  <2> QED
    BY <2>1 DEF ToldOf
<1>3. first \in Chunks(o) /\ LastChunk(o, r) \in 0 .. Number(o)
  BY <1>1, ChunkRange
<1>4. Chunks(o) = 0 .. Number(o) - 1 /\ Number(o) \in Nat \ {0}
  BY <1>1, ChunksOf
<1> DEFINE c == s.curr[g] - first
           p == PartsFrom(o, r, first, c)
           m == Prepare((s.last[g] - first) % Word)
<1>5. /\ Regular(o, r) /\ s.last[g] = LastChunk(o, r) /\ first <= s.curr[g]
      /\ s.curr[g] <= s.last[g] \/ s.curr[g] = first
      /\ q = <<m>> \o p
  BY <1>2, StreamIs
<1>6. c \in Nat /\ \A i \in first .. first + c - 1 : i \in Chunks(o)
  <2>1. first \in Nat /\ s.curr[g] \in Nat /\ Number(o) \in Nat
    BY <1>1, <1>3, <1>4
  <2>2. c \in Nat /\ first + c = s.curr[g]
    BY <1>5, <2>1
  <2>3. \A i \in first .. s.curr[g] - 1 : i \in Chunks(o)
    BY <1>1, <1>3, <1>4, <1>5, <2>1
  <2>4. first + c - 1 = s.curr[g] - 1
    BY <2>1, <2>2
  <2> HIDE DEF c
  <2> QED
    BY <2>2, <2>3, <2>4
<1>7. /\ p \in Seq(Message) /\ Len(p) = c
      /\ \A i \in 1 .. c : p[i] = PartOf(o, first + i - 1, r)
  <2>1. first \in Nat
    BY <1>3, <1>4
  <2> HIDE DEF c
  <2>2. Within(o, first, c)
    BY <1>6, <2>1 DEF Within
  <2> QED
    BY <1>1, <1>6, <2>1, <2>2, PartsTypes
<1>8. /\ Len(q) = c + 1 /\ q[1] = m
      /\ \A i \in 2 .. c + 1 : q[i] = PartOf(o, first + i - 2, r)
  <2> HIDE DEF m, p, c
  <2>1. Len(q) = c + 1 /\ q[1] = m
    BY <1>5, <1>6, <1>7
  <2>2. ASSUME NEW i \in 2 .. c + 1 PROVE q[i] = PartOf(o, first + i - 2, r)
    <3>1. PICK j \in 1 .. c : j = i - 1
      BY <1>6
    <3>2. q[i] = p[j] /\ p[j] = PartOf(o, first + j - 1, r)
      BY <1>5, <1>6, <1>7, <3>1
    <3>3. first + j - 1 = first + i - 2
      BY <1>3, <1>4, <3>1
    <3> QED
      BY <3>2, <3>3
  <2> QED
    BY <2>1, <2>2
<1> HIDE DEF p
<1>9. /\ \A i \in 1 .. c + 1 : s.told[g][i] = q[i]
      /\ Len(s.told[g]) = c + 1 \/ (Len(s.told[g]) = c + 2 /\ s.told[g][c + 2] = Fail)
  <2> HIDE DEF c, m
  <2>1. CASE s.told[g] = q
    BY <1>6, <1>8, <2>1
  <2>2. CASE s.told[g] = Append(q, Fail)
    BY <1>2, <1>6, <1>8, <2>2
  <2> QED
    BY <1>2, <2>1, <2>2
<1>10. n \in 2 .. c + 1
  <2>1. n \in 1 .. Len(s.told[g])
    BY <1>1
  <2>2. n # 1
    BY <1>6, <1>8, <1>9 DEF Prepare
  <2>3. Len(s.told[g]) = c + 2 => n # c + 2
    BY <1>9, <1>6 DEF Fail
  <2> HIDE DEF c
  <2> QED
    BY <1>6, <1>9, <2>1, <2>2, <2>3
<1>11. first < s.curr[g] /\ s.curr[g] <= s.last[g]
  BY <1>1, <1>3, <1>4, <1>5, <1>10
<1>12. \A i \in 2 .. c + 1 : first + i - 2 \in Chunks(o) /\ s.told[g][i] = PartOf(o, first + i - 2, r)
  <2> SUFFICES ASSUME NEW i \in 2 .. c + 1
               PROVE  first + i - 2 \in Chunks(o) /\ s.told[g][i] = PartOf(o, first + i - 2, r)
    OBVIOUS
  <2>1. first \in Nat
    BY <1>3, <1>4
  <2> HIDE DEF c
  <2>2. first + i - 2 \in first .. first + c - 1
    BY <1>6, <2>1
  <2> QED
    BY <1>6, <1>8, <1>9, <2>2
<1>13. s.told[g][1] = m
  BY <1>6, <1>8, <1>9
<1> QED
  BY <1>1, <1>3, <1>5, <1>9, <1>10, <1>11, <1>12, <1>13

\* The bytes of a stream come in order and without holes, from the first byte of the
\* range on, whoever asked for the chunks and in whatever order they arrived.
THEOREM GetStreamsInOrder == Spec => []StreamsInOrder
<1>1. ASSUME k \in Kernel, Good(k), NEW g \in Get, NEW n \in DOMAIN k.told[g],
             HasBytes(k.told[g][n]),
             NEW before, before = {i \in 1 .. n - 1 : HasBytes(k.told[g][i])}
      PROVE  /\ k.told[g][n].from = IF before = {} THEN k.range[g][1]
                                                   ELSE k.told[g][Max(before)].to
             /\ k.told[g][n].to <= k.range[g][2] + 1
  <2> DEFINE o == k.uuid[g]
             r == k.range[g]
             first == FirstChunk(o, r)
             c == k.curr[g] - first
             Piece(i) == first + i - 2
  <2>1. /\ o \in Object /\ Regular(o, r) /\ first \in Chunks(o) /\ n \in 2 .. c + 1
        /\ k.told[g][1] = Prepare((k.last[g] - first) % Word)
        /\ \A i \in 2 .. c + 1 : Piece(i) \in Chunks(o) /\ k.told[g][i] = PartOf(o, Piece(i), r)
        /\ c \in Nat
    <3>1. ToldOf(k, g) /\ k.told[g][n].cmd = "chunk"
      BY <1>1 DEF Good, Told, HasBytes
    <3>2. /\ o \in Object /\ Regular(o, r) /\ first \in Chunks(o) /\ n \in 2 .. c + 1
          /\ k.told[g][1] = Prepare((k.last[g] - first) % Word)
          /\ \A i \in 2 .. c + 1 : Piece(i) \in Chunks(o) /\ k.told[g][i] = PartOf(o, Piece(i), r)
          /\ first < k.curr[g]
      BY <1>1, <3>1, ToldChunks
    <3>3. first \in Nat /\ k.curr[g] \in Nat
      BY <1>1, <3>2, ChunksOf, KernelTypes
    <3> HIDE DEF first
    <3>4. c \in Nat
      BY <3>2, <3>3
    <3> QED
      BY <3>2, <3>4
  <2>2. r \in Int \X Int /\ r[1] \in Nat
    BY <1>1, <2>1, KernelTypes DEF Regular
  <2>3. Start(o, first) <= r[1]
    BY <2>1, <2>2, ChunkRange
  <2>4. Piece(2) = first /\ \A i \in Int : Piece(i) = first + i - 2
    BY <2>1, ChunksOf
  <2>5. Chunks(o) = 0 .. Number(o) - 1 /\ Number(o) \in Nat
    BY <2>1, ChunksOf
  <2> HIDE DEF o, r, first, c, Piece
  <2>6. /\ Piece(n) \in Chunks(o) /\ k.told[g][n] = PartOf(o, Piece(n), r)
        /\ HasBytes(PartOf(o, Piece(n), r)) /\ first \in Nat /\ n \in Nat
        /\ Piece(n) = first + n - 2
    <3>1. Piece(n) \in Chunks(o) /\ k.told[g][n] = PartOf(o, Piece(n), r)
      BY <2>1
    <3>2. first \in Nat
      BY <2>1, <2>5
    <3>3. n \in Nat
      BY <2>1
    <3>4. Piece(n) = first + n - 2
      BY <2>4, <3>3
    <3> QED
      BY <1>1, <3>1, <3>2, <3>3, <3>4
  <2>7. /\ k.told[g][n].to <= r[2] + 1
        /\ Start(o, Piece(n)) <= r[1] => k.told[g][n].from = r[1]
    BY <2>1, <2>6, PartsFollow
  <2>8. 1 \notin before
    BY <1>1, <2>1 DEF Prepare, HasBytes
  <2>9. before \in SUBSET (0 .. n - 1) /\ \A i \in before : i \in 2 .. n - 1 /\ i \in 2 .. c + 1
    BY <1>1, <2>1, <2>8
  <2>10. CASE n = 2
    <3>1. before = {} /\ Piece(n) = first
      BY <2>4, <2>9, <2>10
    <3> QED
      BY <2>3, <2>7, <3>1 DEF r
  <2>11. CASE n # 2
    <3> DEFINE h == Piece(n - 1)
    <3>1. n - 1 \in 2 .. c + 1 /\ n - 1 \in 1 .. n - 1
      BY <2>1, <2>11
    <3>2. h \in Chunks(o) /\ h = Piece(n) - 1 /\ k.told[g][n - 1] = PartOf(o, h, r)
      BY <2>1, <2>4, <2>6, <3>1
    <3> HIDE DEF h
    <3>3. IF HasBytes(PartOf(o, h, r)) THEN k.told[g][n].from = PartOf(o, h, r).to
                                       ELSE k.told[g][n].from = r[1]
      BY <2>1, <2>6, <3>2, PartsFollow
    <3>4. CASE HasBytes(PartOf(o, h, r))
      <4>1. n - 1 \in before /\ before # {}
        BY <1>1, <3>1, <3>2, <3>4
      <4>2. Max(before) \in before /\ n - 1 <= Max(before)
        <5>1. n - 1 \in Nat
          BY <3>1
        <5> QED
          BY <2>9, <4>1, <5>1, MaxIs
      <4>3. Max(before) = n - 1
        BY <2>9, <4>2, <3>1
      <4> QED
        BY <2>7, <3>2, <3>3, <3>4, <4>1, <4>3 DEF r
    <3>5. CASE ~ HasBytes(PartOf(o, h, r))
      <4>1. before = {}
        <5> SUFFICES ASSUME NEW i \in before PROVE FALSE
          OBVIOUS
        <5>1. /\ i \in 2 .. c + 1 /\ i <= n - 1 /\ HasBytes(PartOf(o, Piece(i), r))
              /\ Piece(i) \in Chunks(o) /\ Piece(i) = first + i - 2
          BY <1>1, <2>1, <2>4, <2>9
        <5>2. Piece(i) <= h
          BY <2>6, <3>2, <5>1
        <5> QED
          BY <2>1, <2>6, <3>2, <3>5, <5>1, <5>2, NoHoles
      <4> QED
        BY <2>7, <3>3, <3>5, <4>1 DEF r
    <3> QED
      BY <3>4, <3>5
  <2> QED
    BY <2>10, <2>11
<1>2. IInv => StreamsInOrder
  BY <1>1 DEF IInv, StreamsInOrder
<1> QED
  BY <1>2, Invariant, PTL

\* The number of chunks a stream was promised is not wrapped around when the stream
\* has some.
LEMMA Promised ==
    ASSUME NEW o \in Object, NEW a \in Nat, NEW b \in Nat, a <= b, b <= Number(o)
    PROVE  (b - a) % Word = b - a
<1>1. Number(o) <= Size[o] /\ Size[o] \in Nat /\ Word > Size[o] /\ Word \in Nat /\ Number(o) \in Nat
  BY ChunksOf, GetLimits
<1>2. PICK d \in Nat : d = b - a
  OBVIOUS
<1>3. d < Word
  BY <1>1, <1>2
<1>4. d % Word = d
  BY <1>1, <1>3
<1> QED
  BY <1>2, <1>4

\* A stream that has ended without a failure has brought the range it was asked for.
THEOREM GetRangeServed == Spec => []RangeServed
<1>1. ASSUME k \in Kernel, Good(k), NEW g \in Get, NEW m, m = k.told[g][Len(k.told[g])],
             k.told[g] # <<>>, m.cmd = "chunk", Ended(g),
             Inside(k.uuid[g], k.range[g][2]) # {}
      PROVE  m.to = k.range[g][2] + 1
  <2> DEFINE o == k.uuid[g]
             r == k.range[g]
             first == FirstChunk(o, r)
             n == Len(k.told[g])
             c == k.curr[g] - first
  <2>0. k.told[g] \in Seq(Message) /\ n \in DOMAIN k.told[g] /\ n \in Nat \ {0}
    <3>1. k.told[g] \in Seq(Message)
      BY <1>1, KernelTypes
    <3> QED
      BY <1>1, <3>1
  <2>1. /\ o \in Object /\ Regular(o, r) /\ first \in Chunks(o) /\ first < k.curr[g]
        /\ k.curr[g] <= k.last[g] /\ k.last[g] = LastChunk(o, r) /\ k.last[g] \in 0 .. Number(o)
        /\ n \in 2 .. c + 1
        /\ k.told[g][1] = Prepare((k.last[g] - first) % Word)
        /\ \A i \in 2 .. c + 1 :
              first + i - 2 \in Chunks(o) /\ k.told[g][i] = PartOf(o, first + i - 2, r)
        /\ n = c + 1 \/ n = c + 2
    <3>1. ToldOf(k, g) /\ k.told[g][n].cmd = "chunk"
      BY <1>1 DEF Good, Told
    <3> QED
      BY <1>1, <2>0, <3>1, ToldChunks
  <2>2. first \in Nat /\ k.curr[g] \in Nat /\ Number(o) \in Nat
    <3>1. Chunks(o) = 0 .. Number(o) - 1 /\ Number(o) \in Nat
      BY <2>1, ChunksOf
    <3>2. k.curr[g] \in Nat
      BY <1>1, KernelTypes
    <3> HIDE DEF first, o
    <3> QED
      BY <2>1, <3>1, <3>2
  <2>3. (k.last[g] - first) % Word = k.last[g] - first
    <3>1. PICK a \in Nat : a = first
      BY <2>2
    <3>2. PICK b \in Nat : b = k.last[g]
      BY <2>1, <2>2
    <3>3. a <= b /\ b <= Number(o) /\ o \in Object
      BY <2>1, <2>2, <3>1, <3>2
    <3> HIDE DEF first, o
    <3>4. (b - a) % Word = b - a
      BY <3>3, Promised
    <3> QED
      BY <3>1, <3>2, <3>4
  <2>4. n = ((k.last[g] - first) % Word) + 1
    <3> DEFINE said == Conversation(k.told[g])
    <3>1. /\ DOMAIN said = 1 .. n /\ Len(said) = n /\ said # <<>>
          /\ said[n] = [cmd |-> "chunk"] /\ said[1] = Prepare((k.last[g] - first) % Word)
      <4>1. DOMAIN said = 1 .. n /\ Len(said) = n /\ said # <<>>
        BY <2>0 DEF Conversation
      <4>2. said[n] = [cmd |-> "chunk"]
        BY <1>1, <2>0 DEF Conversation
      <4>3. said[1] = Prepare((k.last[g] - first) % Word)
        BY <2>0, <2>1 DEF Conversation, Prepare
      <4> QED
        BY <4>1, <4>2, <4>3
    <3>2. Abstract!Complete(said)
      BY <1>1 DEF Ended
    <3> HIDE DEF said, n, first
    <3> QED
      BY <3>1, <3>2 DEF Abstract!Complete, Abstract!IsPrepare, Abstract!Data, Abstract!Fail, Prepare
  <2>5. k.curr[g] = k.last[g] /\ n = c + 1
    <3> HIDE DEF n, first, o, r
    <3> QED
      BY <2>1, <2>2, <2>3, <2>4
  <2> DEFINE i == k.last[g] - 1
  <2>6. i \in Chunks(o) /\ m = PartOf(o, i, r)
    <3>1. m = k.told[g][n]
      BY <1>1
    <3>2. first + n - 2 = i
      BY <2>1, <2>2, <2>5
    <3> HIDE DEF n, first, o, r, i
    <3> QED
      BY <2>1, <3>1, <3>2
  <2>7. r \in Int \X Int /\ r[1] \in Nat /\ r[2] \in Nat /\ r[1] <= r[2] + 1
    BY <1>1, <2>1, KernelTypes, GetAssumption DEF Regular
  <2>8. Start(o, i) < r[2] /\ r[2] < End(o, i)
    BY <1>1, <2>1, <2>7, ChunkRange
  <2> HIDE DEF i, o, r
  <2>9. Start(o, i) \in Nat /\ End(o, i) \in Nat
    BY <2>1, <2>6, ChunkEnds
  <2>10. PICK from \in Nat, to \in Nat :
              /\ PartOf(o, i, r) = Part(from, to)
              /\ from = IF Start(o, i) < r[1] THEN r[1] ELSE Start(o, i)
              /\ from < to => to = IF End(o, i) - 1 > r[2] THEN r[2] + 1 ELSE End(o, i)
              /\ from <= (IF End(o, i) - 1 > r[2] THEN r[2] + 1 ELSE End(o, i)) =>
                   to = IF End(o, i) - 1 > r[2] THEN r[2] + 1 ELSE End(o, i)
    BY <2>1, <2>6, <2>7, PartIs
  <2>11. to = r[2] + 1
    BY <2>7, <2>8, <2>9, <2>10
  <2> QED
    BY <2>6, <2>10, <2>11 DEF Part, r
<1>2. IInv => RangeServed
  BY <1>1 DEF IInv, RangeServed
<1> QED
  BY <1>2, Invariant, PTL

-----------------------------------------------------------------------------
(* The kernel keeps what GetService promises. *)

\* A promise of n chunks, at most as many, and perhaps a failure.
LEMMA LegalStream ==
    ASSUME NEW t \in Seq(Message), NEW c \in Nat, NEW n \in Nat, c <= n, t[1] = Prepare(n),
           \A i \in 2 .. c + 1 : t[i].cmd = "chunk",
           Len(t) = c + 1 \/ (Len(t) = c + 2 /\ t[c + 2] = Fail)
    PROVE  Abstract!Legal(Conversation(t))
<1> DEFINE s == Conversation(t)
           chunk == [cmd |-> "chunk"]
<1>1. /\ DOMAIN s = 1 .. Len(t) /\ Len(s) = Len(t) /\ Len(t) \in Nat \ {0}
      /\ \A i \in 1 .. Len(t) : s[i] = IF t[i].cmd = "chunk" THEN [cmd |-> "chunk"] ELSE t[i]
      /\ s # <<>>
  BY DEF Conversation
<1> HIDE DEF s
<1>2. s[1] = Prepare(n)
  <2>1. Prepare(n).cmd # "chunk"
    BY DEF Prepare
  <2>2. 1 \in 1 .. Len(t)
    OBVIOUS
  <2> QED
    BY <1>1, <2>1, <2>2
<1>3. \A i \in 2 .. c + 1 : s[i] = chunk
  <2> SUFFICES ASSUME NEW i \in 2 .. c + 1 PROVE s[i] = chunk
    OBVIOUS
  <2>1. t[i].cmd = "chunk" /\ i \in 1 .. Len(t)
    OBVIOUS
  <2> QED
    BY <1>1, <2>1
<1>4. Len(t) = c + 2 => s[c + 2] = Fail
  <2>1. Len(t) = c + 2 => t[c + 2] = Fail /\ c + 2 \in 1 .. Len(t)
    OBVIOUS
  <2>2. Fail.cmd # "chunk"
    BY DEF Fail
  <2> QED
    BY <1>1, <2>1, <2>2
<1>5. Fail # chunk /\ Prepare(n) # chunk
  BY DEF Fail, Prepare
<1> HIDE DEF chunk
<1>6. Prepare(n).cmd = "prepare_streaming" /\ Prepare(n).count = n
  BY DEF Prepare
<1>7. \A i \in 2 .. Len(s) : (s[i] = chunk /\ i <= n + 1) \/ (s[i] = Fail /\ i = Len(s))
  <2>1. CASE Len(t) = c + 1
    BY <1>1, <1>3, <2>1
  <2>2. CASE Len(t) = c + 2
    BY <1>1, <1>3, <1>4, <2>2
  <2> QED
    BY <2>1, <2>2
<1>8. Abstract!Stream(s)
  <2>1. Abstract!Chunk = chunk /\ Abstract!Fail = Fail
    BY DEF Abstract!Chunk, Abstract!Fail, Fail, chunk
  <2>2. s # <<>> /\ Abstract!IsPrepare(s[1]) /\ s[1].count = n
    BY <1>1, <1>2, <1>6 DEF Abstract!IsPrepare
  <2>3. \A i \in 2 .. Len(s) : \/ s[i] = Abstract!Chunk /\ i <= s[1].count + 1
                               \/ s[i] = Abstract!Fail /\ i = Len(s)
    BY <1>7, <2>1, <2>2
  <2> QED
    BY <2>2, <2>3 DEF Abstract!Stream
<1> QED
  BY <1>8 DEF Abstract!Legal, s

\* What a client has been told is what the service may say.
LEMMA ToldLegal ==
    ASSUME NEW s \in Kernel, Good(s), NEW g \in Get
    PROVE  Abstract!Legal(Conversation(s.told[g]))
<1> DEFINE t == s.told[g]
           o == s.uuid[g]
           r == s.range[g]
           first == FirstChunk(o, r)
<1>1. t \in Seq(Message) /\ ToldOf(s, g)
  BY KernelTypes DEF Good, Told
<1>2. CASE t \in {<<>>, <<Data>>, <<Fail>>}
  <2>1. Conversation(t) \in {<<>>, <<Data>>, <<Fail>>}
    BY <1>2 DEF Conversation, Data, Fail
  <2> QED
    BY <2>1 DEF Abstract!Legal, Abstract!Data, Abstract!Fail, Data, Fail
<1>3. ASSUME NEW q \in Seq(Message), IsStream(s, g, q), t \in {q, Append(q, Fail)}
      PROVE  Abstract!Legal(Conversation(t))
  <2> DEFINE c == s.curr[g] - first
             p == PartsFrom(o, r, first, c)
             n == (s.last[g] - first) % Word
  <2>1. o \in Object /\ r \in Int \X Int /\ s.curr[g] \in Nat /\ s.last[g] \in Nat
    BY KernelTypes
  <2>2. /\ first \in Chunks(o) /\ LastChunk(o, r) \in 0 .. Number(o)
        /\ Chunks(o) = 0 .. Number(o) - 1 /\ Number(o) \in Nat
    BY <2>1, ChunkRange, ChunksOf
  <2>3. /\ s.last[g] = LastChunk(o, r) /\ first <= s.curr[g]
        /\ s.curr[g] <= s.last[g] \/ s.curr[g] = first
        /\ q = <<Prepare(n)>> \o p
    BY <1>3, StreamIs
  <2>4. first \in Nat /\ c \in Nat /\ \A i \in first .. first + c - 1 : i \in Chunks(o)
    <3> HIDE DEF first
    <3>0. first \in Nat
      BY <2>2
    <3>1. first \in Nat /\ c \in Nat /\ first + c - 1 = s.curr[g] - 1
      BY <2>1, <2>3, <3>0
    <3>2. \A i \in first .. s.curr[g] - 1 : i \in Chunks(o)
      BY <2>1, <2>2, <2>3
    <3> QED
      BY <3>1, <3>2
  <2>5. /\ p \in Seq(Message) /\ Len(p) = c
        /\ \A i \in 1 .. c : p[i] = PartOf(o, first + i - 1, r)
    <3> HIDE DEF c, first
    <3>1. Within(o, first, c)
      BY <2>4 DEF Within
    <3> QED
      BY <2>1, <2>4, <3>1, PartsTypes
  <2>6. \A i \in 1 .. c : p[i].cmd = "chunk"
    <3> SUFFICES ASSUME NEW i \in 1 .. c PROVE p[i].cmd = "chunk"
      OBVIOUS
    <3> HIDE DEF c, first, p
    <3>1. PICK j \in first .. first + c - 1 : j = first + i - 1
      BY <2>4
    <3>2. p[i] = PartOf(o, j, r) /\ j \in Chunks(o)
      BY <2>4, <2>5, <3>1
    <3> QED
      BY <2>1, <3>2, PartTypes
  <2> HIDE DEF p, n
  <2>7. /\ Len(q) = c + 1 /\ q[1] = Prepare(n) /\ \A i \in 2 .. c + 1 : q[i].cmd = "chunk"
    <3> HIDE DEF c
    <3>1. Len(q) = c + 1 /\ q[1] = Prepare(n)
      BY <2>3, <2>4, <2>5
    <3>2. ASSUME NEW i \in 2 .. c + 1 PROVE q[i].cmd = "chunk"
      <4>1. PICK j \in 1 .. c : j = i - 1
        BY <2>4
      <4>2. q[i] = p[j]
        BY <2>3, <2>4, <2>5, <4>1
      <4> QED
        BY <2>6, <4>1, <4>2
    <3> QED
      BY <3>1, <3>2
  <2>8. /\ t[1] = Prepare(n) /\ \A i \in 2 .. c + 1 : t[i].cmd = "chunk"
        /\ Len(t) = c + 1 \/ (Len(t) = c + 2 /\ t[c + 2] = Fail)
    <3> HIDE DEF c, t
    <3>1. CASE t = q
      BY <2>4, <2>7, <3>1
    <3>2. CASE t = Append(q, Fail)
      BY <2>4, <2>7, <3>2
    <3> QED
      BY <1>3, <3>1, <3>2
  <2>9. n \in Nat /\ c <= n
    <3>1. PICK d \in Int : d = s.last[g] - first
      BY <2>1, <2>4
    <3>2. n \in Nat
      <4>1. Word \in Nat \ {0}
        BY <2>1, GetLimits, GetAssumption
      <4>2. d % Word \in Nat
        BY <4>1
      <4> QED
        BY <3>1, <4>2 DEF n
    <3>3. CASE s.curr[g] = first
      <4>1. c = 0
        BY <2>4, <3>3 DEF c
      <4> QED
        BY <3>2, <4>1
    <3>4. CASE s.curr[g] <= s.last[g]
      <4>1. PICK a \in Nat : a = first
        BY <2>4
      <4>2. PICK b \in Nat : b = s.last[g]
        BY <2>1
      <4>3. a <= b /\ b <= Number(o) /\ o \in Object /\ c <= b - a
        <5> HIDE DEF first
        <5> QED
          BY <2>1, <2>2, <2>3, <2>4, <3>4, <4>1, <4>2 DEF c
      <4>4. (b - a) % Word = b - a
        BY <4>3, Promised
      <4> QED
        BY <3>2, <4>1, <4>2, <4>3, <4>4 DEF n
    <3> QED
      BY <2>3, <3>3, <3>4
  <2>10. c \in Nat /\ t \in Seq(Message)
    BY <1>1, <2>4
  <2> HIDE DEF c, t
  <2> QED
    BY <2>8, <2>9, <2>10, LegalStream
<1> QED
  BY <1>1, <1>2, <1>3 DEF ToldOf

\* Every step of the kernel is one that GetService allows: whatever clients are told
\* is legal, and is never taken back.
THEOREM KernelKeepsPromise == Spec => GetService
<1> DEFINE said == [g \in Get |-> Conversation(k.told[g])]
<1>1. Init => Abstract!Init
  <2> SUFFICES ASSUME Init PROVE Abstract!Init
    OBVIOUS
  <2>1. k.cleaned = {} /\ \A g \in Get : k.told[g] = <<>>
    BY DEF Init
  <2>2. \A g \in Get : Conversation(k.told[g]) = <<>>
    BY <2>1 DEF Conversation
  <2> QED
    BY <2>1, <2>2 DEF Abstract!Init
<1>2. ASSUME NEW a \in Seq(Message), NEW b \in Seq(Message), Longer(a, b)
      PROVE  /\ Len(Conversation(b)) >= Len(Conversation(a))
             /\ SubSeq(Conversation(b), 1, Len(Conversation(a))) = Conversation(a)
  <2> DEFINE x == Conversation(a)
             y == Conversation(b)
  <2>1. /\ DOMAIN x = 1 .. Len(a) /\ Len(x) = Len(a) /\ DOMAIN y = 1 .. Len(b) /\ Len(y) = Len(b)
        /\ x = [i \in 1 .. Len(a) |-> x[i]]
        /\ \A i \in 1 .. Len(a) : x[i] = IF a[i].cmd = "chunk" THEN [cmd |-> "chunk"] ELSE a[i]
        /\ \A i \in 1 .. Len(b) : y[i] = IF b[i].cmd = "chunk" THEN [cmd |-> "chunk"] ELSE b[i]
    <3> DEFINE Said(m) == IF m.cmd = "chunk" THEN [cmd |-> "chunk"] ELSE m
    <3>1. x = [i \in 1 .. Len(a) |-> Said(a[i])] /\ y = [i \in 1 .. Len(b) |-> Said(b[i])]
      BY DEF Conversation
    <3> HIDE DEF Said, x, y
    <3>2. /\ DOMAIN x = 1 .. Len(a) /\ Len(x) = Len(a) /\ DOMAIN y = 1 .. Len(b) /\ Len(y) = Len(b)
          /\ x = [i \in 1 .. Len(a) |-> x[i]]
          /\ \A i \in 1 .. Len(a) : x[i] = Said(a[i])
          /\ \A i \in 1 .. Len(b) : y[i] = Said(b[i])
      BY <3>1
    <3> QED
      BY <3>2 DEF Said
  <2>2. Len(a) \in Nat /\ Len(b) \in Nat /\ Len(a) <= Len(b) /\ \A i \in 1 .. Len(a) : b[i] = a[i]
    BY <1>2 DEF Longer
  <2> HIDE DEF x, y
  <2>3. SubSeq(y, 1, Len(x)) = [i \in 1 .. Len(a) |-> y[i]]
    BY <2>1, <2>2
  <2>4. \A i \in 1 .. Len(a) : y[i] = x[i]
    BY <2>1, <2>2
  <2>5. SubSeq(y, 1, Len(x)) = x
    BY <2>1, <2>3, <2>4
  <2> QED
    BY <2>1, <2>2, <2>5 DEF x, y
<1>3. IInv /\ IInv' /\ Grows(k, k') => Abstract!Next
  <2> SUFFICES ASSUME IInv, IInv', Grows(k, k'), NEW g \in Get
               PROVE  /\ Len(Conversation(k'.told[g])) >= Len(Conversation(k.told[g]))
                      /\ SubSeq(Conversation(k'.told[g]), 1, Len(Conversation(k.told[g])))
                            = Conversation(k.told[g])
                      /\ Abstract!Legal(Conversation(k'.told[g]))
                      /\ g \in k.cleaned => k'.told[g] = k.told[g]
    BY DEF Grows, Abstract!Next, Abstract!Legal, Abstract!Stream, Abstract!Chunk, Abstract!Fail,
           Abstract!Data, Abstract!IsPrepare
  <2>1. k \in Kernel /\ k' \in Kernel /\ Good(k')
    BY DEF IInv, Good, OnePlace, Lists, Masters, Pieces, Units, Told, Streams
  <2>2. Abstract!Legal(Conversation(k'.told[g]))
    BY <2>1, ToldLegal
  <2>3. k.told[g] \in Seq(Message) /\ k'.told[g] \in Seq(Message) /\ Longer(k.told[g], k'.told[g])
    BY <2>1, KernelTypes DEF Grows
  <2> QED
    BY <1>2, <2>2, <2>3 DEF Grows
<1>4. IInv /\ IInv' /\ [Grows(k, k')]_vars => [Abstract!Next]_<<said, k.cleaned>>
  <2>1. UNCHANGED vars => said' = said /\ k.cleaned' = k.cleaned
    BY DEF vars, Conversation
  <2> QED
    BY <1>3, <2>1
<1> QED
  BY <1>1, <1>4, Invariant, PTL DEF Spec, GetService, Abstract!Spec
=============================================================================
