----------------------------- MODULE ListProofs -----------------------------
(***************************************************************************)
(* Facts about Lists: which entries its operators keep, and that they do   *)
(* not repeat any.                                                         *)
(***************************************************************************)
EXTENDS Lists, TLAPS, WellFoundedInduction, FiniteSetTheorems, SequenceTheorems

\* No entry comes twice.
Once(us) == \A i, j \in DOMAIN us : us[i] = us[j] => i = j

-----------------------------------------------------------------------------
(* What is kept: by induction over the list, as "no least counterexample". *)

\* A set of natural numbers that is not empty has a least one.
LEMMA LeastNat ==
    ASSUME NEW A \in SUBSET Nat, A # {}
    PROVE  \E n \in A : \A m \in A : n <= m
<1>1. \E x \in A : \A y \in A : ~ (<<y, x>> \in OpToRel(<, Nat))
  BY NatLessThanWellFounded, WFMin
<1>2. PICK x \in A : \A y \in A : ~ (<<y, x>> \in {ss \in Nat \X Nat : ss[1] < ss[2]})
  BY <1>1 DEF OpToRel
<1>3. ASSUME NEW y \in A PROVE x <= y
  <2>1. ~ (<<y, x>> \in {ss \in Nat \X Nat : ss[1] < ss[2]}) BY <1>2
  <2>2. <<y, x>> \in Nat \X Nat OBVIOUS
  <2>3. ~ (y < x) BY <2>1, <2>2
  <2> QED BY <2>3
<1> QED BY <1>3

\* How Kept goes on after n entries.
KeptStep(us, S, f, n) ==
    IF n = 0 THEN <<>>
    ELSE IF us[n] \in S THEN Append(f[n - 1], us[n]) ELSE f[n - 1]

\* There is a function with these steps: otherwise there were a first length for
\* which there is none.
LEMMA KeptExists ==
    ASSUME NEW us, NEW S, NEW N \in Nat
    PROVE  \E f : f = [n \in 0 .. N |-> KeptStep(us, S, f, n)]
<1> DEFINE P(m) == \E f : f = [n \in 0 .. m |-> KeptStep(us, S, f, n)]
           A == {m \in Nat : ~ P(m)}
<1>1. SUFFICES ASSUME A # {} PROVE FALSE
  OBVIOUS
<1>2. PICK m \in A : \A j \in A : m <= j
  <2> HIDE DEF A
  <2> A \in SUBSET Nat BY DEF A
  <2> QED BY <1>1, LeastNat
<1>3. m # 0
  <2>1. [n \in 0 .. 0 |-> <<>>] = [n \in 0 .. 0 |-> KeptStep(us, S, [n_1 \in 0 .. 0 |-> <<>>], n)]
    BY DEF KeptStep
  <2> QED BY <2>1, <1>2
<1>4. PICK f : f = [n \in 0 .. m - 1 |-> KeptStep(us, S, f, n)]
  <2>1. m - 1 \in Nat /\ ~ (m <= m - 1) BY <1>3
  <2> QED BY <2>1, <1>2
<1> DEFINE g == [n \in 0 .. m |-> IF n < m THEN f[n] ELSE KeptStep(us, S, f, n)]
<1>5. ASSUME NEW n \in 0 .. m PROVE g[n] = KeptStep(us, S, g, n)
  <2>1. n # 0 => n - 1 \in 0 .. m - 1 /\ g[n - 1] = f[n - 1]
    BY <1>3
  <2>2. KeptStep(us, S, f, n) = KeptStep(us, S, g, n)
    <3> HIDE DEF g
    <3> QED BY <2>1 DEF KeptStep
  <2>3. n < m => f[n] = KeptStep(us, S, f, n)
    <3> SUFFICES ASSUME n < m PROVE f[n] = KeptStep(us, S, f, n) OBVIOUS
    <3> n \in 0 .. m - 1 BY <1>3
    <3> HIDE DEF g
    <3> QED BY <1>4
  <2> QED BY <2>2, <2>3
<1>6. g = [n \in 0 .. m |-> KeptStep(us, S, g, n)]
  <2>1. g = [n \in 0 .. m |-> g[n]] OBVIOUS
  <2> HIDE DEF g
  <2> QED BY <2>1, <1>5
<1> HIDE DEF g
<1> QED BY <1>6, <1>2

\* Kept is what the steps make of the list.
LEMMA KeptIs ==
    ASSUME NEW us, NEW S, Len(us) \in Nat
    PROVE  \E f : /\ \A n \in 0 .. Len(us) : f[n] = KeptStep(us, S, f, n)
                  /\ Kept(us, S) = f[Len(us)]
<1> DEFINE f == CHOOSE f : f = [n \in 0 .. Len(us) |-> KeptStep(us, S, f, n)]
<1>1. f = [n \in 0 .. Len(us) |-> KeptStep(us, S, f, n)]
  BY KeptExists
<1>2. Kept(us, S) = f[Len(us)]
  BY DEF Kept, KeptStep
<1>3. \A n \in 0 .. Len(us) : f[n] = KeptStep(us, S, f, n)
  <2> HIDE DEF f
  <2> QED BY <1>1
<1> HIDE DEF f
<1> QED BY <1>2, <1>3

\* Kept(us, S) has the entries of us in S, and each of them as often: what the
\* kernel relies on when it takes units from its lists.
LEMMA KeptElements ==
    ASSUME NEW T, NEW us \in Seq(T), NEW S
    PROVE  /\ Kept(us, S) \in Seq(T)
           /\ ElementsOf(Kept(us, S)) = ElementsOf(us) \cap S
           /\ Once(us) => Once(Kept(us, S))
<1>1. PICK f : /\ \A n \in 0 .. Len(us) : f[n] = KeptStep(us, S, f, n)
               /\ Kept(us, S) = f[Len(us)]
  BY KeptIs
<1> DEFINE Q(n) == /\ f[n] \in Seq(T)
                   /\ \A x : x \in ElementsOf(f[n]) <=> \E i \in 1 .. n : x = us[i] /\ x \in S
                   /\ Once(us) => Once(f[n])
           A == {n \in 0 .. Len(us) : ~ Q(n)}
<1>2. ASSUME A # {} PROVE FALSE
  <2>1. PICK n \in A : \A m \in A : n <= m
    <3> A \in SUBSET Nat OBVIOUS
    <3> HIDE DEF A
    <3> QED BY <1>2, LeastNat
  <2>2. n \in 0 .. Len(us) /\ ~ Q(n) OBVIOUS
  <2>3. n # 0
    <3>1. f[0] = <<>> BY <1>1 DEF KeptStep
    <3>2. Q(0) BY <3>1 DEF ElementsOf, Once
    <3> QED BY <3>2, <2>2
  <2>4. Q(n - 1)
    <3> n - 1 \in 0 .. Len(us) /\ ~ (n <= n - 1) BY <2>2, <2>3
    <3> QED BY <2>1
  <2>5. CASE us[n] \in S
    <3>1. f[n] = Append(f[n - 1], us[n]) BY <1>1, <2>2, <2>3, <2>5 DEF KeptStep
    <3>2. us[n] \in T BY <2>2, <2>3
    <3>3. f[n] \in Seq(T) BY <3>1, <3>2, <2>4
    <3>4. \A x : x \in ElementsOf(f[n]) <=> x \in ElementsOf(f[n - 1]) \/ x = us[n]
      <4>1. f[n - 1] \in Seq(T) BY <2>4
      <4> HIDE DEF Q, A
      <4>2. DOMAIN f[n] = 1 .. Len(f[n - 1]) + 1 BY <4>1, <3>1
      <4>3. \A i \in DOMAIN f[n - 1] : f[n][i] = f[n - 1][i] /\ i \in DOMAIN f[n]
        BY <4>1, <3>1
      <4>4. f[n][Len(f[n - 1]) + 1] = us[n] BY <4>1, <3>1
      <4>5. \A i \in DOMAIN f[n] : i \in DOMAIN f[n - 1] \/ i = Len(f[n - 1]) + 1
        BY <4>1, <4>2
      <4>6. Len(f[n - 1]) + 1 \in DOMAIN f[n] BY <4>1, <4>2
      <4> QED BY <4>3, <4>4, <4>5, <4>6 DEF ElementsOf
    <3>5. \A x : x \in ElementsOf(f[n]) <=> \E i \in 1 .. n : x = us[i] /\ x \in S
      BY <3>4, <2>4, <2>5, <2>2, <2>3
    <3>6. ASSUME Once(us) PROVE Once(f[n])
      <4>1. Once(f[n - 1]) /\ f[n - 1] \in Seq(T) BY <3>6, <2>4
      <4>2. us[n] \notin ElementsOf(f[n - 1])
        <5>1. \A i \in 1 .. n - 1 : us[i] # us[n] BY <3>6, <2>2, <2>3 DEF Once
        <5> QED BY <5>1, <2>4
      <4> HIDE DEF Q, A
      <4> QED BY <4>1, <4>2, <3>1, <3>2 DEF Once, ElementsOf
    <3> QED BY <3>3, <3>5, <3>6, <2>2
  <2>6. CASE us[n] \notin S
    <3>1. f[n] = f[n - 1] BY <1>1, <2>2, <2>3, <2>6 DEF KeptStep
    <3>2. \A x : (\E i \in 1 .. n - 1 : x = us[i] /\ x \in S) <=> (\E i \in 1 .. n : x = us[i] /\ x \in S)
      BY <2>6, <2>2, <2>3
    <3> QED BY <3>1, <3>2, <2>4, <2>2
  <2> QED BY <2>5, <2>6
<1>3. Q(Len(us))
  <2> Len(us) \in 0 .. Len(us) OBVIOUS
  <2> SUFFICES ASSUME ~ Q(Len(us)) PROVE Len(us) \in A BY <1>2
  <2> QED OBVIOUS
<1>4. \A x : x \in ElementsOf(us) <=> \E i \in 1 .. Len(us) : x = us[i]
  BY DEF ElementsOf
<1> QED BY <1>3, <1>4, <1>1

-----------------------------------------------------------------------------
(* Lists that grow and shrink *)

\* The empty list.
LEMMA NoElements == ElementsOf(<<>>) = {} /\ Once(<<>>)
BY DEF ElementsOf, Once

\* A list of one entry.
LEMMA SingleElement ==
    ASSUME NEW x
    PROVE  ElementsOf(<<x>>) = {x} /\ Once(<<x>>)
BY DEF ElementsOf, Once

\* Two lists, one after the other.
LEMMA JoinedElements ==
    ASSUME NEW T, NEW us \in Seq(T), NEW ws \in Seq(T)
    PROVE  /\ us \o ws \in Seq(T)
           /\ ElementsOf(us \o ws) = ElementsOf(us) \cup ElementsOf(ws)
           /\ Once(us \o ws) <=> /\ Once(us) /\ Once(ws)
                                 /\ ElementsOf(us) \cap ElementsOf(ws) = {}
<1> DEFINE both == us \o ws
<1>1. both \in Seq(T) /\ Len(both) = Len(us) + Len(ws)
  OBVIOUS
<1>2. \A i \in DOMAIN us : i \in DOMAIN both /\ both[i] = us[i]
  OBVIOUS
<1>3. \A j \in DOMAIN ws : j + Len(us) \in DOMAIN both /\ both[j + Len(us)] = ws[j]
  OBVIOUS
<1>4. \A i \in DOMAIN both : i \in DOMAIN us \/ \E j \in DOMAIN ws : i = j + Len(us)
  <2> SUFFICES ASSUME NEW i \in DOMAIN both, i \notin DOMAIN us
               PROVE  \E j \in DOMAIN ws : i = j + Len(us)
    OBVIOUS
  <2>1. i - Len(us) \in DOMAIN ws /\ i = (i - Len(us)) + Len(us)
    BY <1>1
  <2> QED BY <2>1
<1>5. ElementsOf(both) = ElementsOf(us) \cup ElementsOf(ws)
  <2> HIDE DEF both
  <2> QED BY <1>2, <1>3, <1>4 DEF ElementsOf
<1>6. \A i \in DOMAIN us, j \in DOMAIN ws : i # j + Len(us)
  OBVIOUS
<1>7. \A i, j \in DOMAIN ws : i + Len(us) = j + Len(us) => i = j
  OBVIOUS
<1>8. ASSUME Once(us), Once(ws), ElementsOf(us) \cap ElementsOf(ws) = {}
      PROVE  Once(both)
  <2> HIDE DEF both
  <2> SUFFICES ASSUME NEW i \in DOMAIN both, NEW j \in DOMAIN both, both[i] = both[j]
               PROVE  i = j
    BY DEF Once
  <2>1. CASE i \in DOMAIN us /\ j \in DOMAIN us
    BY <2>1, <1>2, <1>8 DEF Once
  <2>2. ASSUME NEW n \in DOMAIN ws, i = n + Len(us), j \in DOMAIN us PROVE FALSE
    BY <2>2, <1>2, <1>3, <1>8 DEF ElementsOf
  <2>3. ASSUME NEW n \in DOMAIN ws, j = n + Len(us), i \in DOMAIN us PROVE FALSE
    BY <2>3, <1>2, <1>3, <1>8 DEF ElementsOf
  <2>4. ASSUME NEW n \in DOMAIN ws, NEW m \in DOMAIN ws, i = n + Len(us), j = m + Len(us)
        PROVE  i = j
    <3>1. ws[n] = ws[m] BY <2>4, <1>3
    <3>2. n = m BY <3>1, <1>8 DEF Once
    <3> QED BY <3>2, <2>4
  <2> QED BY <2>1, <2>2, <2>3, <2>4, <1>4
<1>9. ASSUME Once(both)
      PROVE  Once(us) /\ Once(ws) /\ ElementsOf(us) \cap ElementsOf(ws) = {}
  <2> HIDE DEF both
  <2>1. Once(us) BY <1>9, <1>2 DEF Once
  <2>2. Once(ws)
    <3> SUFFICES ASSUME NEW n \in DOMAIN ws, NEW m \in DOMAIN ws, ws[n] = ws[m]
                 PROVE  n = m
      BY DEF Once
    <3>1. n + Len(us) = m + Len(us) BY <1>9, <1>3 DEF Once
    <3> QED BY <3>1, <1>7
  <2>3. ElementsOf(us) \cap ElementsOf(ws) = {}
    <3> SUFFICES ASSUME NEW i \in DOMAIN us, NEW j \in DOMAIN ws, us[i] = ws[j]
                 PROVE  FALSE
      BY DEF ElementsOf
    <3>1. i = j + Len(us) BY <1>9, <1>2, <1>3 DEF Once
    <3> QED BY <3>1, <1>6
  <2> QED BY <2>1, <2>2, <2>3
<1> QED BY <1>1, <1>5, <1>8, <1>9

\* An entry at the end.
LEMMA AppendedElements ==
    ASSUME NEW T, NEW us \in Seq(T), NEW x \in T
    PROVE  /\ Append(us, x) \in Seq(T)
           /\ ElementsOf(Append(us, x)) = ElementsOf(us) \cup {x}
           /\ Once(Append(us, x)) <=> Once(us) /\ x \notin ElementsOf(us)
<1> DEFINE one == <<x>>
<1>1. Append(us, x) = us \o one /\ one \in Seq(T)
  OBVIOUS
<1>2. ElementsOf(one) = {x} /\ Once(one)
  BY SingleElement
<1> HIDE DEF one
<1>3. /\ us \o one \in Seq(T)
      /\ ElementsOf(us \o one) = ElementsOf(us) \cup ElementsOf(one)
      /\ Once(us \o one) <=> /\ Once(us) /\ Once(one)
                             /\ ElementsOf(us) \cap ElementsOf(one) = {}
  BY <1>1, JoinedElements
<1> QED BY <1>1, <1>2, <1>3

\* An entry at the front.
LEMMA PushedElements ==
    ASSUME NEW T, NEW us \in Seq(T), NEW x \in T
    PROVE  /\ <<x>> \o us \in Seq(T)
           /\ ElementsOf(<<x>> \o us) = ElementsOf(us) \cup {x}
           /\ Once(<<x>> \o us) <=> Once(us) /\ x \notin ElementsOf(us)
<1> DEFINE one == <<x>>
<1>1. one \in Seq(T)
  OBVIOUS
<1>2. ElementsOf(one) = {x} /\ Once(one)
  BY SingleElement
<1> HIDE DEF one
<1>3. /\ one \o us \in Seq(T)
      /\ ElementsOf(one \o us) = ElementsOf(one) \cup ElementsOf(us)
      /\ Once(one \o us) <=> /\ Once(one) /\ Once(us)
                             /\ ElementsOf(one) \cap ElementsOf(us) = {}
  BY <1>1, JoinedElements
<1>4. /\ one \o us \in Seq(T)
      /\ ElementsOf(one \o us) = ElementsOf(us) \cup {x}
      /\ Once(one \o us) <=> Once(us) /\ x \notin ElementsOf(us)
  BY <1>2, <1>3
<1> QED BY <1>4 DEF one

\* The list without its first entry.
LEMMA TailElements ==
    ASSUME NEW T, NEW us \in Seq(T), us # <<>>
    PROVE  /\ Head(us) \in T /\ Tail(us) \in Seq(T)
           /\ ElementsOf(us) = ElementsOf(Tail(us)) \cup {Head(us)}
           /\ Once(us) <=> Once(Tail(us)) /\ Head(us) \notin ElementsOf(Tail(us))
<1> DEFINE h == Head(us)
           t == Tail(us)
<1>1. h \in T /\ t \in Seq(T) /\ us = <<h>> \o t
  OBVIOUS
<1> HIDE DEF h, t
<1>2. /\ ElementsOf(<<h>> \o t) = ElementsOf(t) \cup {h}
      /\ Once(<<h>> \o t) <=> Once(t) /\ h \notin ElementsOf(t)
  BY <1>1, PushedElements
<1>3. /\ ElementsOf(us) = ElementsOf(t) \cup {h}
      /\ Once(us) <=> Once(t) /\ h \notin ElementsOf(t)
  BY <1>1, <1>2
<1> QED BY <1>1, <1>3 DEF h, t

\* A list is its front and what is behind.
LEMMA TwoParts ==
    ASSUME NEW T, NEW us \in Seq(T), NEW front \in Seq(T), NEW behind \in Seq(T),
           Len(us) = Len(front) + Len(behind),
           \A i \in 1 .. Len(front) : front[i] = us[i],
           \A i \in 1 .. Len(behind) : behind[i] = us[Len(front) + i]
    PROVE  us = front \o behind
<1>1. \A i \in 1 .. Len(us) : (front \o behind)[i] = us[i]
  <2> SUFFICES ASSUME NEW i \in 1 .. Len(us) PROVE (front \o behind)[i] = us[i]
    OBVIOUS
  <2>1. CASE i <= Len(front)
    BY <2>1
  <2>2. CASE i > Len(front)
    <3>1. (front \o behind)[i] = behind[i - Len(front)]
      BY <2>2
    <3>2. i - Len(front) \in 1 .. Len(behind) /\ Len(front) + (i - Len(front)) = i
      BY <2>2
    <3> QED BY <3>1, <3>2
  <2> QED BY <2>1, <2>2
<1>2. front \o behind \in Seq(T) /\ Len(front \o behind) = Len(us)
  OBVIOUS
<1> QED BY <1>1, <1>2, SeqEqual

\* The front and the rest of a list share no entry when all differ.
LEMMA CutElements ==
    ASSUME NEW T, NEW us \in Seq(T), NEW n \in 0 .. Len(us)
    PROVE  /\ Front(us, n) \in Seq(T) /\ Behind(us, n) \in Seq(T) /\ Len(Front(us, n)) = n
           /\ ElementsOf(us) = ElementsOf(Front(us, n)) \cup ElementsOf(Behind(us, n))
           /\ Once(us) <=> /\ Once(Front(us, n)) /\ Once(Behind(us, n))
                           /\ ElementsOf(Front(us, n)) \cap ElementsOf(Behind(us, n)) = {}
<1> DEFINE front == SubSeq(us, 1, n)
           behind == SubSeq(us, n + 1, Len(us))
<1>0. front = Front(us, n) /\ behind = Behind(us, n)
  BY DEF Front, Behind
<1>1. front \in Seq(T) /\ Len(front) = n /\ \A i \in 1 .. n : front[i] = us[i]
  OBVIOUS
<1>2. /\ behind \in Seq(T) /\ Len(behind) = Len(us) - n
      /\ \A i \in 1 .. Len(us) - n : behind[i] = us[n + i]
  OBVIOUS
<1> HIDE DEF front, behind
<1>3. SUFFICES ASSUME NEW xs \in Seq(T), NEW ys \in Seq(T), xs = front, ys = behind
               PROVE  /\ ElementsOf(us) = ElementsOf(xs) \cup ElementsOf(ys)
                      /\ Once(us) <=> /\ Once(xs) /\ Once(ys)
                                      /\ ElementsOf(xs) \cap ElementsOf(ys) = {}
  BY <1>0, <1>1, <1>2
<1>4. us = xs \o ys
  <2>0. Len(xs) = n /\ Len(ys) = Len(us) - n /\ Len(us) \in Nat
    BY <1>1, <1>2, <1>3
  <2>1. Len(us) = Len(xs) + Len(ys) /\ Len(xs) = n
    BY <2>0
  <2>2. \A i \in 1 .. Len(xs) : xs[i] = us[i]
    BY <1>1, <1>3, <2>0
  <2>3. \A i \in 1 .. Len(ys) : ys[i] = us[Len(xs) + i]
    BY <1>1, <1>2, <1>3, <2>0
  <2> QED BY <2>1, <2>2, <2>3, TwoParts
<1>5. /\ ElementsOf(xs \o ys) = ElementsOf(xs) \cup ElementsOf(ys)
      /\ Once(xs \o ys) <=> /\ Once(xs) /\ Once(ys)
                            /\ ElementsOf(xs) \cap ElementsOf(ys) = {}
  BY JoinedElements
<1> QED BY <1>4, <1>5

\* A list has finitely many entries.
LEMMA FiniteElements ==
    ASSUME NEW T, NEW us \in Seq(T)
    PROVE  /\ IsFiniteSet(ElementsOf(us))
           /\ Once(us) => Cardinality(ElementsOf(us)) = Len(us)
<1> DEFINE f == [i \in 1 .. Len(us) |-> us[i]]
<1>1. DOMAIN us = 1 .. Len(us)
  OBVIOUS
<1>2. f \in Surjection(1 .. Len(us), ElementsOf(us))
  BY <1>1 DEF Surjection, ElementsOf
<1>3. IsFiniteSet(1 .. Len(us)) /\ Cardinality(1 .. Len(us)) = Len(us)
  <2>1. Len(us) \in Nat OBVIOUS
  <2> QED BY <2>1, FS_Interval, SMTT(30)
<1>4. Once(us) => f \in Injection(1 .. Len(us), ElementsOf(us))
  <2>1. f \in [1 .. Len(us) -> ElementsOf(us)]
    BY <1>1 DEF ElementsOf
  <2>2. Once(us) => IsInjective(f)
    BY <1>1 DEF IsInjective, Once
  <2> QED BY <2>1, <2>2 DEF Injection
<1> HIDE DEF f
<1> QED BY <1>2, <1>3, <1>4, FS_Surjection

-----------------------------------------------------------------------------
(* What is kept of lists that grow and shrink *)

\* f follows the steps for the first n entries, which two lists have in common.
Follows(us, S, f, N) == \A n \in 0 .. N : f[n] = KeptStep(us, S, f, n)
Common(us, ws, N) == \A n \in 1 .. N : us[n] = ws[n]

\* Two runs of these steps over the same entries come to the same.
LEMMA KeptSame ==
    ASSUME NEW us, NEW ws, NEW S, NEW N \in Nat, NEW f, NEW g,
           Follows(us, S, f, N), Follows(ws, S, g, N), Common(us, ws, N)
    PROVE  f[N] = g[N]
<1> DEFINE A == {n \in 0 .. N : f[n] # g[n]}
<1>1. SUFFICES ASSUME A # {} PROVE FALSE
  OBVIOUS
<1>2. PICK n \in A : \A m \in A : n <= m
  <2> A \in SUBSET Nat OBVIOUS
  <2> HIDE DEF A
  <2> QED BY <1>1, LeastNat
<1>3. n # 0
  BY DEF KeptStep, Follows
<1>4. n - 1 \in 0 .. N /\ f[n - 1] = g[n - 1]
  <2> n - 1 \in 0 .. N /\ ~ (n <= n - 1) BY <1>3
  <2> QED BY <1>2
<1> QED BY <1>3, <1>4 DEF KeptStep, Follows, Common

\* An entry at the end is kept or not.
LEMMA KeptAppend ==
    ASSUME NEW T, NEW us \in Seq(T), NEW x \in T, NEW S
    PROVE  Kept(Append(us, x), S) = IF x \in S THEN Append(Kept(us, S), x) ELSE Kept(us, S)
<1> DEFINE ws == Append(us, x)
<1>1. /\ ws \in Seq(T) /\ Len(ws) = Len(us) + 1 /\ ws[Len(us) + 1] = x
      /\ \A n \in 1 .. Len(us) : us[n] = ws[n]
  OBVIOUS
<1> HIDE DEF ws
<1>2. PICK f : /\ \A n \in 0 .. Len(us) : f[n] = KeptStep(us, S, f, n)
               /\ Kept(us, S) = f[Len(us)]
  BY KeptIs
<1>3. PICK g : /\ \A n \in 0 .. Len(ws) : g[n] = KeptStep(ws, S, g, n)
               /\ Kept(ws, S) = g[Len(ws)]
  BY <1>1, KeptIs
<1>4. f[Len(us)] = g[Len(us)]
  <2>1. SUFFICES ASSUME NEW N \in Nat, N = Len(us) PROVE f[N] = g[N]
    OBVIOUS
  <2>2. Follows(ws, S, g, N) BY <1>1, <1>3, <2>1 DEF Follows
  <2>3. Follows(us, S, f, N) BY <1>2, <2>1 DEF Follows
  <2>4. Common(us, ws, N) BY <1>1, <2>1 DEF Common
  <2> QED BY <2>2, <2>3, <2>4, KeptSame
<1>5. g[Len(us) + 1] = KeptStep(ws, S, g, Len(us) + 1)
  BY <1>1, <1>3
<1>6. g[Len(us) + 1] = IF x \in S THEN Append(f[Len(us)], x) ELSE f[Len(us)]
  BY <1>1, <1>4, <1>5 DEF KeptStep
<1> QED BY <1>1, <1>2, <1>3, <1>6 DEF ws

\* The entry at the front is kept or not.
LEMMA KeptTail ==
    ASSUME NEW T, NEW us \in Seq(T), us # <<>>, NEW S
    PROVE  /\ Kept(Tail(us), S) \in Seq(T)
           /\ Kept(us, S) = IF Head(us) \in S THEN <<Head(us)>> \o Kept(Tail(us), S)
                                              ELSE Kept(Tail(us), S)
<1> DEFINE ws == Tail(us)
           h == Head(us)
           With(s) == IF h \in S THEN <<h>> \o s ELSE s
<1>1. /\ ws \in Seq(T) /\ Len(ws) = Len(us) - 1 /\ h = us[1] /\ h \in T /\ Len(us) \in Nat \ {0}
      /\ \A n \in 2 .. Len(us) : us[n] = ws[n - 1]
  OBVIOUS
<1>a. ASSUME NEW s \in Seq(T), NEW x \in T PROVE Append(With(s), x) = With(Append(s, x))
  OBVIOUS
<1> HIDE DEF ws, h, With
<1>2. PICK f : /\ \A n \in 0 .. Len(us) : f[n] = KeptStep(us, S, f, n)
               /\ Kept(us, S) = f[Len(us)]
  BY <1>1, KeptIs
<1>3. PICK g : /\ \A n \in 0 .. Len(ws) : g[n] = KeptStep(ws, S, g, n)
               /\ Kept(ws, S) = g[Len(ws)]
  BY <1>1, KeptIs
<1> DEFINE Q(n) == g[n - 1] \in Seq(T) /\ f[n] = With(g[n - 1])
           A == {n \in 1 .. Len(us) : ~ Q(n)}
<1>4. ASSUME A # {} PROVE FALSE
  <2>1. PICK n \in A : \A m \in A : n <= m
    <3> A \in SUBSET Nat OBVIOUS
    <3> HIDE DEF A
    <3> QED BY <1>4, LeastNat
  <2>2. n \in 1 .. Len(us) /\ ~ Q(n) OBVIOUS
  <2>3. n # 1
    <3>1. g[0] = <<>> /\ f[0] = <<>> BY <1>1, <1>2, <1>3 DEF KeptStep
    <3>2. f[1] = IF us[1] \in S THEN Append(f[0], us[1]) ELSE f[0] BY <1>1, <1>2 DEF KeptStep
    <3>3. With(<<>>) = IF h \in S THEN <<h>> ELSE <<>> BY DEF With
    <3>4. g[0] \in Seq(T) /\ f[1] = With(g[0])
      <4>1. Append(<<>>, us[1]) = <<us[1]>> /\ <<>> \in Seq(T) OBVIOUS
      <4> QED BY <3>1, <3>2, <3>3, <1>1, <4>1
    <3>5. Q(1)
      <4> 1 - 1 = 0 OBVIOUS
      <4> QED BY <3>4
    <3> QED BY <3>5, <2>2
  <2>4. Q(n - 1)
    <3> n - 1 \in 1 .. Len(us) /\ ~ (n <= n - 1) BY <2>2, <2>3
    <3> QED BY <2>1
  <2> HIDE DEF A
  <2>5. g[n - 1] = IF us[n] \in S THEN Append(g[n - 2], us[n]) ELSE g[n - 2]
    <3>1. n - 1 \in 0 .. Len(ws) /\ n - 1 # 0 /\ (n - 1) - 1 = n - 2 BY <1>1, <2>2, <2>3
    <3>2. ws[n - 1] = us[n] BY <1>1, <2>2, <2>3
    <3>3. g[n - 1] = KeptStep(ws, S, g, n - 1) BY <3>1, <1>3
    <3> QED BY <3>1, <3>2, <3>3 DEF KeptStep
  <2>6. f[n] = IF us[n] \in S THEN Append(f[n - 1], us[n]) ELSE f[n - 1]
    BY <1>1, <1>2, <2>2 DEF KeptStep
  <2>7. us[n] \in T /\ (n - 1) - 1 = n - 2 BY <1>1, <2>2
  <2>8. g[n - 2] \in Seq(T) /\ f[n - 1] = With(g[n - 2]) BY <2>4, <2>7
  <2>9. g[n - 1] \in Seq(T) BY <2>5, <2>7, <2>8
  <2>10. f[n] = With(g[n - 1]) BY <2>5, <2>6, <2>7, <2>8, <1>a
  <2> QED BY <2>2, <2>9, <2>10
<1>5. Q(Len(us))
  <2>1. Len(us) \in 1 .. Len(us) BY <1>1
  <2> SUFFICES ASSUME ~ Q(Len(us)) PROVE Len(us) \in A BY <1>4
  <2> HIDE DEF Q
  <2> QED BY <2>1
<1> QED BY <1>1, <1>2, <1>3, <1>5 DEF ws, h, With

\* Nothing is kept of nothing.
LEMMA KeptNone ==
    ASSUME NEW S
    PROVE  Kept(<<>>, S) = <<>>
<1>1. PICK f : /\ \A n \in 0 .. Len(<<>>) : f[n] = KeptStep(<<>>, S, f, n)
               /\ Kept(<<>>, S) = f[Len(<<>>)]
  <2> Len(<<>>) \in Nat OBVIOUS
  <2> QED BY KeptIs
<1> QED BY <1>1 DEF KeptStep
=============================================================================
