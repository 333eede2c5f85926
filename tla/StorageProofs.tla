--------------------------- MODULE StorageProofs ---------------------------
(***************************************************************************)
(* Proofs about Storage, for any jobs, names, sizes and limits: an answer  *)
(* comes once and carries the data of its own request (AnswersMatch), and  *)
(* a get shows no overwritten, no torn and no missing data without one of  *)
(* the causes that RegularGet names.                                       *)
(***************************************************************************)
EXTENDS Storage, SequenceTheorems, FiniteSetTheorems, TLAPS

-----------------------------------------------------------------------------
(* The invariant *)

\* The steps that a job of each kind may do.
Does ==
    [get |-> {"choose", "open", "measure", "load", "fill", "commit"},
     read |-> {"choose", "open", "measure", "load", "tell"},
     save |-> {"truncate", "write", "count", "fill", "commit"},
     update |-> {"exists", "shrink", "truncate", "write", "count", "fill", "commit"},
     store |-> {"exists", "shrink", "truncate", "write", "count", "tell"},
     copy |-> {"found", "weigh", "duplicate", "pour", "count", "tell"},
     del |-> {"exists", "shrink", "remove", "found", "tell"},
     delUuids |-> {"exists", "shrink", "remove", "found"},
     delete |-> {"exists", "shrink", "remove", "fill", "commit"},
     add |-> {"truncate", "write", "count"},
     uncache |-> {"exists", "shrink", "remove"},
     move |-> {"list", "duplicate", "pour", "remove", "reset", "tell"},
     cleanup |-> {"list", "expire", "trim", "shrink", "remove"}]

\* What may follow a step in the program of job j; "end" is the end of it.
After(j, do) ==
    CASE do = "choose" -> {"fill", "tell"}
      [] do = "open" -> {"measure"}
      [] do = "measure" -> {"load"}
      [] do = "load" -> {"fill", "tell"}
      [] do = "exists" -> {"shrink"}
      [] do = "shrink" ->
            IF Kind[j] \in {"update", "store"} THEN {"truncate"} ELSE {"remove"}
      [] do = "remove" ->
            IF Kind[j] = "move" THEN {"duplicate", "reset"}
            ELSE {"exists", "found", "expire", "trim", "fill", "tell", "end"}
      [] do = "truncate" -> {"write"}
      [] do = "write" -> {"count"}
      [] do = "count" -> {"fill", "tell", "end"}
      [] do = "found" -> {"weigh", "exists"}
      [] do = "weigh" -> {"duplicate"}
      [] do = "duplicate" -> {"pour"}
      [] do = "pour" -> IF Kind[j] = "move" THEN {"remove"} ELSE {"count"}
      [] do = "list" ->
            IF Kind[j] = "move" THEN {"duplicate", "reset"}
            ELSE {"expire", "trim", "end"}
      [] do \in {"expire", "trim"} -> {"shrink"}
      [] do = "reset" -> {"tell"}
      [] do = "fill" -> {"commit"}
      [] OTHER -> {"end"}

\* What follows step i of s if e comes after s.
Follower(s, i, e) == IF i < Len(s) THEN s[i + 1].do ELSE e

\* The directory in which a job opens files.
PlaceOf(j) == IF Kind[j] \in {"add", "move"} THEN "cache" ELSE "db"

Steps == [do : UNION {Does[k] : k \in Kinds}, in : Places, of : Uuid]

\* Job j may do the step a before a step e.
Fits(j, a, e) ==
    /\ a.do \in Does[Kind[j]]
    /\ Kind[j] \notin {"move", "cleanup"} => a.of = Of[j]
    /\ a.do \in {"truncate", "duplicate"} => a.in = PlaceOf(j)
    /\ e \in After(j, a.do)

\* s may be a part of what job j has to do, before a step e.
IsPart(j, s, e) ==
    /\ s \in Seq(Steps)
    /\ \A i \in 1 .. Len(s) : Fits(j, s[i], Follower(s, i, e))

\* s may be what job j still has to do.
IsProgram(j, s) == IsPart(j, s, "end")

Programs == \A j \in Job : IsProgram(j, program[j])

\* Job j is going to do the step do.
Doing(j, do) == program[j] # <<>> /\ Head1(j).do = do

Results == {"none", "get_data", "save_confirm", "updated", "copy_succeeded",
            "deleted", "completed", "refuse", "nack", "failed", "no_space"}
Replies == [is : Results, data : Seq(Version)]

MoreTypes ==
    /\ mix \in SUBSET Job
    /\ program \in [Job -> Seq(Steps)]
    /\ result \in [Job -> Results]
    /\ slot \in [{"storage", "writer"} -> {<<>>} \cup (Job \X Replies)]
    /\ answers \in [Job -> Seq(Replies)]

\* A job that has not begun has nothing; one that is answered has ended, and the
\* answer is its own.
Answered == \A j \in Job :
    /\ j \notin started =>
          /\ program[j] = <<>> /\ answers[j] = <<>> /\ data[j] = <<>>
          /\ fd[j] = 0 /\ result[j] = "none"
    /\ Len(answers[j]) <= 1
    /\ answers[j] # <<>> => program[j] = <<>> /\ answers[j][1] = Answer(j)

\* A thread that has filled the scratch item of its instance finds it as it was.
Locked == \A i \in Job : Doing(i, "commit") =>
    /\ slot[Instance(i)] = <<i, Answer(i)>>
    /\ \A j \in Job : Doing(j, "commit") /\ Instance(i) = Instance(j) => i = j

\* A get has read data of the name it asks for.
DataOfName == \A j \in Job : ToSet(data[j]) \subseteq VersionsOf[Of[j]] \cup {Garbage}

\* The versions that get into the cache.
CacheVersions == {j \in Job : Kind[j] = "add"} \cup Cached

\* home[f] is the directory and the name under which file f was made.
EntryHome(home) == \A p \in Places, u \in Uuid :
    entry[p][u] # 0 => home[entry[p][u]] = <<p, u>>
FileHome(home) == \A f \in 1 .. Len(files) :
    /\ ToSet(files[f]) \subseteq VersionsOf[home[f][2]]
    /\ home[f][1] = "cache" => ToSet(files[f]) \subseteq CacheVersions

\* The files that job j has open are those of the names it works on.
OpenHome(j, home) ==
    /\ fd[j] # 0 =>
          CASE Kind[j] \in {"get", "read"} -> home[fd[j]][2] = Of[j]
            [] Kind[j] \in {"save", "update", "store", "add"} ->
                 home[fd[j]] = <<PlaceOf(j), Of[j]>>
            [] Kind[j] = "copy" ->
                 /\ home[fd[j]] = <<"db", Of[j]>>
                 /\ out[j] # 0 /\ home[out[j]] = <<"db", Target[j]>>
            [] Kind[j] = "move" ->
                 /\ home[fd[j]][1] = "cache"
                 /\ out[j] # 0 /\ home[out[j]] = <<"db", home[fd[j]][2]>>
            [] OTHER -> FALSE
    /\ out[j] # 0 => fd[j] # 0 /\ Kind[j] \in {"copy", "move"}

HomesOf(home) ==
    EntryHome(home) /\ FileHome(home) /\ \A j \in Job : OpenHome(j, home)

Homes == \E home \in [1 .. Len(files) -> Places \X Uuid] : HomesOf(home)

\* A job has the file open that it is going to work on.
HasOpen == \A j \in Job :
    /\ \A do \in {"measure", "load", "write", "pour"} : Doing(j, do) => fd[j] # 0
    /\ Doing(j, "pour") => out[j] # 0

\* What the history remembers: two jobs at work have met, and each job came
\* after or met all others that had begun when it ended.
Histories ==
    /\ \A j \in Job : before[j] \subseteq started /\ met[j] \subseteq started
    /\ \A j \in Job : \A i \in before[j] : program[i] = <<>>
    /\ \A i, j \in Active : i # j => i \in met[j]
    /\ \A j \in Active : started \subseteq before[j] \cup met[j] \cup {j}

\* No file of u was removed since the start.
Kept(u) == \A j \in started \cap Removers : u \notin Touches(j)

Reads(g) == Kind[g] \in {"get", "read"}

\* A file that nobody removes is there, also for the get that has looked it up.
Presence ==
    /\ \A u \in Uuid : Kept(u) =>
          /\ u \in Stored => entry["db"][u] # 0
          /\ u \in Cached => entry["cache"][u] # 0
    /\ \A g \in Job : Doing(g, "open") /\ Kept(Of[g]) => File(g) # 0

\* A get is refused when its data was never there or may be gone.
Refusals == \A g \in Job :
    /\ result[g] = "get_data" => Reads(g)
    /\ Reads(g) /\ result[g] \in {"refuse", "failed"} =>
          \/ Of[g] \notin Stored \cup Cached
          \/ \E j \in Removers \cap (met[g] \cup before[g]) : Of[g] \in Touches(j)

\* No writer failed or met another job on its data.
Calm == \A w \in Writers \cap started :
    /\ w \notin Faulty
    /\ \A j \in started : w \in met[j] => Touches(w) \cap Touches(j) = {}

\* d is the whole of a version of u.
Whole(d, u) == \E v \in VersionsOf[u] :
    d = [k \in 1 .. IF v \in Job THEN Size[v] ELSE 1 |-> v]

\* File f was opened for writing and nothing was written yet.
Blank(f) == \E w \in Job :
    \/ Doing(w, "write") /\ fd[w] = f
    \/ Doing(w, "pour") /\ out[w] = f

\* What a name stands for is whole or blank.
WholeNames == \A p \in Places, u \in Uuid : entry[p][u] # 0 =>
    Whole(files[entry[p][u]], u) \/ Blank(entry[p][u])

\* What job j writes to is blank and what it reads from is whole.
WholeOpen(j) ==
    /\ Doing(j, "write") => files[fd[j]] = <<>>
    /\ Doing(j, "pour") =>
          /\ files[out[j]] = <<>>
          /\ \A u \in Uuid : entry["db"][u] = out[j] => Whole(files[fd[j]], u)
    /\ \A do \in {"measure", "load"} : Doing(j, do) => Whole(files[fd[j]], Of[j])
    /\ Doing(j, "load") => len[j] = Len(files[fd[j]])

WholeFiles == Calm => WholeNames /\ \A j \in Job : WholeOpen(j)

\* A get that has read has read a whole version.
Loaded(g) == g \in started /\ (program[g] = <<>> \/ \E do \in {"fill", "commit", "tell"} : Doing(g, do))
WholeData == \A g \in Job : Reads(g) =>
    /\ ~Loaded(g) => data[g] = <<>>
    /\ Loaded(g) /\ result[g] = "get_data" /\ ~Disturbed(g) => Whole(data[g], Of[g])

\* Job w has opened its file in the storage directory and written to it or is
\* about to.
Past(w) ==
    /\ w \in started
    /\ Kind[w] \in {"save", "update", "store"}
    /\ result[w] \in {"save_confirm", "updated"}
    /\ \A do \in {"exists", "shrink", "truncate"} : ~Doing(w, do)

\* Version v was there before w began, and no copy among the jobs C is later.
Older(v, w, C) ==
    /\ \A c \in C : Kind[c] = "copy" /\ Target[c] = Of[w] => c \in before[w]
    /\ IF v \in Job THEN v \in before[w] /\ Kind[v] # "add"
                    ELSE v = Of[w] /\ Of[w] \notin Cached

\* An overwritten version is in no file with the name, and no later get has it.
Gone ==
    /\ \A w \in Job, v \in Version, p \in Places :
          Past(w) /\ Older(v, w, started) /\ entry[p][Of[w]] # 0 =>
             v \notin ToSet(files[entry[p][Of[w]]])
    /\ \A g \in Job : Reads(g) => \A w \in before[g], v \in Version :
          Past(w) /\ Of[w] = Of[g] /\ Older(v, w, before[g] \cup met[g]) =>
             /\ v \notin ToSet(data[g])
             /\ fd[g] # 0 /\ program[g] # <<>> => v \notin ToSet(files[fd[g]])

\* What holds of every answer, and what else holds of what a get returns.
CoreInv ==
    /\ TypeOK /\ MoreTypes /\ Programs /\ Answered /\ Locked /\ DataOfName
    /\ Homes /\ HasOpen
ReadInv ==
    /\ Histories /\ Presence /\ Refusals /\ WholeFiles /\ WholeData /\ Gone
StorageInv == CoreInv /\ ReadInv

-----------------------------------------------------------------------------
(* Programs *)

LEMMA RestOfProgram ==
    ASSUME NEW j \in Job, NEW s, IsProgram(j, s), NEW n \in 1 .. Len(s)
    PROVE  /\ IsProgram(j, SubSeq(s, n + 1, Len(s)))
           /\ SubSeq(s, n + 1, Len(s)) # <<>> =>
                /\ n < Len(s)
                /\ Head(SubSeq(s, n + 1, Len(s))) = s[n + 1]
           /\ n < Len(s) => SubSeq(s, n + 1, Len(s)) # <<>>
<1> DEFINE t == SubSeq(s, n + 1, Len(s))
<1>1. s \in Seq(Steps) /\ Len(s) \in Nat
  BY DEF IsProgram, IsPart
<1>2. /\ t \in Seq(Steps)
      /\ Len(t) = Len(s) - n
      /\ \A i \in 1 .. Len(t) : t[i] = s[n + i]
  <2>1. \A i \in (n + 1) .. Len(s) : s[i] \in Steps
    BY <1>1
  <2>2. /\ t \in Seq(Steps)
        /\ Len(t) = IF n + 1 <= Len(s) THEN Len(s) - (n + 1) + 1 ELSE 0
        /\ \A i \in 1 .. Len(s) - (n + 1) + 1 : t[i] = s[n + 1 + i - 1]
    BY <1>1, <2>1, SubSeqProperties
  <2> QED
    BY <1>1, <2>2
<1> HIDE DEF t
<1>3. IsProgram(j, t)
  <2> SUFFICES ASSUME NEW i \in 1 .. Len(t)
               PROVE  Fits(j, t[i], Follower(t, i, "end"))
    BY <1>2 DEF IsProgram, IsPart
  <2>1. n + i \in 1 .. Len(s) /\ t[i] = s[n + i]
    BY <1>1, <1>2
  <2>2. Follower(t, i, "end") = Follower(s, n + i, "end")
    BY <1>1, <1>2, <2>1 DEF Follower
  <2> QED
    BY <2>1, <2>2 DEF IsProgram, IsPart
<1>4. t # <<>> => n < Len(s) /\ Head(t) = s[n + 1]
  BY <1>1, <1>2
<1>5. n < Len(s) => t # <<>>
  BY <1>1, <1>2
<1> QED
  BY <1>3, <1>4, <1>5 DEF t

LEMMA PartsInOrder ==
    ASSUME NEW j \in Job, NEW s, NEW t, NEW e,
           t # <<>>, IsPart(j, s, t[1].do), IsPart(j, t, e)
    PROVE  IsPart(j, s \o t, e)
<1> DEFINE w == s \o t
<1>1. s \in Seq(Steps) /\ t \in Seq(Steps) /\ Len(s) \in Nat /\ Len(t) \in Nat \ {0}
  BY DEF IsPart
<1>2. /\ w \in Seq(Steps)
      /\ Len(w) = Len(s) + Len(t)
      /\ \A i \in 1 .. Len(s) : w[i] = s[i]
      /\ \A i \in 1 .. Len(t) : w[Len(s) + i] = t[i]
  BY <1>1
<1> HIDE DEF w
<1> SUFFICES ASSUME NEW i \in 1 .. Len(w)
             PROVE  Fits(j, w[i], Follower(w, i, e))
  BY <1>2 DEF IsPart, w
<1>3. CASE i \in 1 .. Len(s)
  <2>1. w[i] = s[i]
    BY <1>2, <1>3
  <2>2. Follower(w, i, e) = Follower(s, i, t[1].do)
    <3>1. CASE i < Len(s)
      BY <1>1, <1>2, <1>3, <3>1 DEF Follower
    <3>2. CASE i = Len(s)
      BY <1>1, <1>2, <1>3, <3>2 DEF Follower
    <3> QED
      BY <1>1, <1>3, <3>1, <3>2
  <2> QED
    BY <1>3, <2>1, <2>2 DEF IsPart
<1>4. CASE i \notin 1 .. Len(s)
  <2>1. PICK k \in 1 .. Len(t) : i = Len(s) + k
    <3>1. i - Len(s) \in 1 .. Len(t) /\ i = Len(s) + (i - Len(s))
      BY <1>1, <1>2, <1>4
    <3> QED
      BY <3>1
  <2>2. w[i] = t[k]
    BY <1>2, <2>1
  <2>3. Follower(w, i, e) = Follower(t, k, e)
    BY <1>1, <1>2, <2>1 DEF Follower
  <2> QED
    BY <2>1, <2>2, <2>3 DEF IsPart
<1> QED
  BY <1>3, <1>4

LEMMA PartOfOne ==
    ASSUME NEW j \in Job, NEW a \in Steps, NEW e, Fits(j, a, e)
    PROVE  IsPart(j, <<a>>, e)
<1>1. <<a>> \in Seq(Steps) /\ Len(<<a>>) = 1 /\ <<a>>[1] = a
  OBVIOUS
<1> QED
  BY <1>1 DEF IsPart, Follower

LEMMA StepIs ==
    ASSUME NEW j \in Job, NEW do, NEW p \in Places,
           do \in Does[Kind[j]], Kind[j] \in Kinds
    PROVE  /\ Step(do, p, Of[j]) \in Steps
           /\ Step(do, p, Of[j]).do = do
           /\ Step(do, p, Of[j]).in = p
           /\ Step(do, p, Of[j]).of = Of[j]
BY JobAssumption DEF Step, Steps

\* A step of kind do, in directory p, on the job's own data, before e.
LEMMA StepFits ==
    ASSUME NEW j \in Job, NEW do, NEW p \in Places, NEW e,
           do \in Does[Kind[j]], e \in After(j, do),
           do \in {"truncate", "duplicate"} => p = PlaceOf(j)
    PROVE  Step(do, p, Of[j]) \in Steps /\ Fits(j, Step(do, p, Of[j]), e)
<1>1. Kind[j] \in Kinds
  BY JobAssumption
<1> QED
  BY <1>1, StepIs DEF Fits

LEMMA OneStep ==
    ASSUME NEW j \in Job, NEW do, NEW p \in Places, NEW e,
           do \in Does[Kind[j]], e \in After(j, do),
           do \in {"truncate", "duplicate"} => p = PlaceOf(j)
    PROVE  IsPart(j, << Step(do, p, Of[j]) >>, e)
BY StepFits, PartOfOne

LEMMA TwoSteps ==
    ASSUME NEW j \in Job, NEW a \in Steps, NEW b \in Steps, NEW e,
           Fits(j, a, b.do), Fits(j, b, e)
    PROVE  IsPart(j, <<a, b>>, e)
<1> DEFINE s == <<a, b>>
<1>1. s \in Seq(Steps) /\ Len(s) = 2 /\ s[1] = a /\ s[2] = b
  OBVIOUS
<1>2. Follower(s, 1, e) = b.do /\ Follower(s, 2, e) = e
  BY <1>1 DEF Follower
<1> HIDE DEF s
<1>3. \A i \in 1 .. Len(s) : i = 1 \/ i = 2
  BY <1>1
<1>4. IsPart(j, s, e)
  BY <1>1, <1>2, <1>3 DEF IsPart
<1> QED
  BY <1>4 DEF s

LEMMA ThreeSteps ==
    ASSUME NEW j \in Job, NEW a \in Steps, NEW b \in Steps, NEW c \in Steps, NEW e,
           Fits(j, a, b.do), Fits(j, b, c.do), Fits(j, c, e)
    PROVE  IsPart(j, <<a, b, c>>, e)
<1> DEFINE s == <<a, b, c>>
<1>1. s \in Seq(Steps) /\ Len(s) = 3 /\ s[1] = a /\ s[2] = b /\ s[3] = c
  OBVIOUS
<1>2. Follower(s, 1, e) = b.do /\ Follower(s, 2, e) = c.do /\ Follower(s, 3, e) = e
  BY <1>1 DEF Follower
<1> HIDE DEF s
<1>3. \A i \in 1 .. Len(s) : i = 1 \/ i = 2 \/ i = 3
  BY <1>1
<1>4. IsPart(j, s, e)
  BY <1>1, <1>2, <1>3 DEF IsPart
<1> QED
  BY <1>4 DEF s

LEMMA UnlinkPart ==
    ASSUME NEW j \in Job, NEW p \in Places, NEW e,
           Kind[j] \in {"del", "delUuids", "delete", "uncache"},
           e \in {"exists", "found", "fill", "tell", "end"}
    PROVE  /\ IsPart(j, Unlink(p, Of[j]), e)
           /\ Unlink(p, Of[j]) # <<>> /\ Unlink(p, Of[j])[1].do = "exists"
<1>1. {"exists", "shrink", "remove"} \subseteq Does[Kind[j]]
  BY DEF Does
<1>2. /\ Step("exists", p, Of[j]) \in Steps /\ Fits(j, Step("exists", p, Of[j]), "shrink")
      /\ Step("shrink", p, Of[j]) \in Steps /\ Fits(j, Step("shrink", p, Of[j]), "remove")
      /\ Step("remove", p, Of[j]) \in Steps /\ Fits(j, Step("remove", p, Of[j]), e)
  BY <1>1, StepFits DEF After
<1>3. \A do : Step(do, p, Of[j]).do = do
  BY DEF Step
<1>4. IsPart(j, Unlink(p, Of[j]), e)
  BY <1>2, <1>3, ThreeSteps DEF Unlink
<1> QED
  BY <1>3, <1>4 DEF Unlink

LEMMA ReducePart ==
    ASSUME NEW j \in Job, Kind[j] \in {"update", "store"}
    PROVE  IsPart(j, ReduceSize(Of[j]), "truncate")
<1>1. {"exists", "shrink"} \subseteq Does[Kind[j]] /\ "db" \in Places
  BY DEF Does, Places
<1>2. /\ Step("exists", "db", Of[j]) \in Steps
      /\ Fits(j, Step("exists", "db", Of[j]), "shrink")
      /\ Step("shrink", "db", Of[j]) \in Steps
      /\ Fits(j, Step("shrink", "db", Of[j]), "truncate")
  BY <1>1, StepFits DEF After
<1>3. \A do : Step(do, "db", Of[j]).do = do
  BY DEF Step
<1> QED
  BY <1>2, <1>3, TwoSteps DEF ReduceSize

LEMMA CreatePart ==
    ASSUME NEW j \in Job, NEW e, NEW p, p = PlaceOf(j),
           Kind[j] \in {"save", "update", "store", "add"},
           e \in {"fill", "tell", "end"}
    PROVE  /\ IsPart(j, Create(p, Of[j]), e)
           /\ Create(p, Of[j]) # <<>> /\ Create(p, Of[j])[1].do = "truncate"
<1>1. {"truncate", "write", "count"} \subseteq Does[Kind[j]] /\ p \in Places
  BY DEF Does, Places, PlaceOf
<1>2. /\ Step("truncate", p, Of[j]) \in Steps /\ Fits(j, Step("truncate", p, Of[j]), "write")
      /\ Step("write", p, Of[j]) \in Steps /\ Fits(j, Step("write", p, Of[j]), "count")
      /\ Step("count", p, Of[j]) \in Steps /\ Fits(j, Step("count", p, Of[j]), e)
  BY <1>1, StepFits DEF After
<1>3. \A do : Step(do, p, Of[j]).do = do
  BY DEF Step
<1>4. IsPart(j, Create(p, Of[j]), e)
  BY <1>2, <1>3, ThreeSteps DEF Create
<1> QED
  BY <1>3, <1>4 DEF Create

LEMMA KindIs == ASSUME NEW j \in Job PROVE Kind[j] \in Kinds /\ Of[j] \in Uuid
BY JobAssumption

LEMMA NothingToDo == ASSUME NEW j \in Job, NEW e PROVE IsPart(j, <<>>, e)
BY DEF IsPart

\* What comes first in the end of a job's program.
EndOf(j) ==
    IF Kind[j] \in {"get", "save", "update", "delete"} THEN "fill"
    ELSE IF Kind[j] \in {"read", "store", "copy", "del", "move"} THEN "tell"
    ELSE "end"

LEMMA EndingProgram ==
    ASSUME NEW j \in Job
    PROVE  /\ IsProgram(j, Ending(j))
           /\ Ending(j) # <<>> => Ending(j)[1].do = EndOf(j) /\ EndOf(j) # "end"
           /\ Ending(j) = <<>> => EndOf(j) = "end"
           /\ Ending(j) \in Seq(Steps)
<1>0. "db" \in Places
  BY DEF Places
<1>1. CASE Kind[j] \in {"get", "save", "update", "delete"}
  <2>1. {"fill", "commit"} \subseteq Does[Kind[j]]
    BY <1>1 DEF Does
  <2>2. /\ Step("fill", "db", Of[j]) \in Steps /\ Fits(j, Step("fill", "db", Of[j]), "commit")
        /\ Step("commit", "db", Of[j]) \in Steps /\ Fits(j, Step("commit", "db", Of[j]), "end")
    BY <1>0, <2>1, StepFits DEF After
  <2>3. \A do : Step(do, "db", Of[j]).do = do
    BY DEF Step
  <2>4. Ending(j) = << Step("fill", "db", Of[j]), Step("commit", "db", Of[j]) >>
    BY <1>1 DEF Ending
  <2>5. IsProgram(j, Ending(j))
    BY <2>2, <2>3, <2>4, TwoSteps DEF IsProgram
  <2> QED
    BY <1>1, <2>3, <2>4, <2>5 DEF IsProgram, IsPart, EndOf
<1>2. CASE Kind[j] \in {"read", "store", "copy", "del", "move"} /\ Kind[j] # "move"
  <2>1. "tell" \in Does[Kind[j]]
    BY <1>2 DEF Does
  <2>2. IsProgram(j, << Step("tell", "db", Of[j]) >>)
    BY <1>0, <2>1, OneStep DEF After, IsProgram
  <2>3. Ending(j) = << Step("tell", "db", Of[j]) >>
    BY <1>2 DEF Ending
  <2> QED
    BY <1>2, <2>2, <2>3 DEF IsProgram, IsPart, EndOf, Step
<1>3. CASE Kind[j] = "move"
  <2>1. "tell" \in Does[Kind[j]]
    BY <1>3 DEF Does
  <2>2. IsProgram(j, << Step("tell", "db", Of[j]) >>)
    BY <1>0, <2>1, OneStep DEF After, IsProgram
  <2>3. Ending(j) = << Step("tell", "db", Of[j]) >>
    BY <1>3 DEF Ending
  <2> QED
    BY <1>3, <2>2, <2>3 DEF IsProgram, IsPart, EndOf, Step
<1>4. CASE Kind[j] \in {"delUuids", "add", "uncache", "cleanup"}
  <2>1. Ending(j) = <<>>
    BY <1>4 DEF Ending
  <2> QED
    BY <1>4, <2>1, NothingToDo DEF IsProgram, EndOf
<1> QED
  BY <1>1, <1>2, <1>3, <1>4, KindIs DEF Kinds

LEMMA BeforeEnding ==
    ASSUME NEW j \in Job, NEW s, IsPart(j, s, EndOf(j))
    PROVE  IsProgram(j, s \o Ending(j))
<1>1. CASE Ending(j) = <<>>
  <2>1. EndOf(j) = "end"
    BY <1>1, EndingProgram
  <2>2. s \in Seq(Steps)
    BY DEF IsPart
  <2>3. s \o <<>> = s
    BY <2>2
  <2> QED
    BY <1>1, <2>1, <2>3 DEF IsProgram
<1>2. CASE Ending(j) # <<>>
  BY <1>2, EndingProgram, PartsInOrder DEF IsProgram
<1> QED
  BY <1>1, <1>2

LEMMA FirstOfTwo ==
    ASSUME NEW S, NEW s \in Seq(S), NEW t \in Seq(S), s # <<>>
    PROVE  /\ s \o t \in Seq(S) /\ s \o t # <<>> /\ (s \o t)[1] = s[1]
           /\ Head(s \o t) = s[1]
<1>1. Len(s) \in Nat \ {0} /\ Len(t) \in Nat
  OBVIOUS
<1>2. Len(s \o t) = Len(s) + Len(t) /\ (s \o t)[1] = s[1] /\ s \o t \in Seq(S)
  BY <1>1
<1>3. s \o t # <<>>
  BY <1>1, <1>2
<1> QED
  BY <1>2, <1>3

LEMMA BodyPart ==
    ASSUME NEW j \in Job
    PROVE  /\ IsPart(j, Body(j), EndOf(j))
           /\ Kind[j] = "delete" => IsPart(j, Body(j), "end")
           /\ Body(j) # <<>>
           /\ Body(j)[1].do \in {"choose", "exists", "truncate", "found", "list"}
<1> DEFINE u == Of[j]
<1>0. "db" \in Places /\ "cache" \in Places /\ \A do, p, x : Step(do, p, x).do = do
  BY DEF Places, Step
<1>1. CASE Kind[j] \in {"get", "read"}
  <2>1. Body(j) = << Step("choose", "db", u) >>
    BY <1>1 DEF Body
  <2>2. IsPart(j, Body(j), EndOf(j))
    <3>1. "choose" \in Does[Kind[j]] /\ EndOf(j) \in After(j, "choose")
      BY <1>1 DEF Does, EndOf, After
    <3> QED
      BY <1>0, <2>1, <3>1, OneStep
  <2> QED
    BY <1>0, <1>1, <2>1, <2>2
<1>2. CASE Kind[j] = "save"
  <2>1. Body(j) = Create("db", u)
    BY <1>2 DEF Body
  <2> QED
    BY <1>2, <2>1, CreatePart DEF PlaceOf, EndOf
<1>3. CASE Kind[j] \in {"update", "store"}
  <2>1. Body(j) = ReduceSize(u) \o Create("db", u)
    BY <1>3 DEF Body
  <2>2. /\ IsPart(j, Create("db", u), EndOf(j))
        /\ Create("db", u) # <<>> /\ Create("db", u)[1].do = "truncate"
    BY <1>3, CreatePart DEF PlaceOf, EndOf
  <2>3. IsPart(j, Body(j), EndOf(j))
    BY <1>3, <2>1, <2>2, ReducePart, PartsInOrder
  <2>4. Body(j) # <<>> /\ Body(j)[1].do = "exists"
    <3>1. ReduceSize(u) \in Seq(Steps) /\ Create("db", u) \in Seq(Steps)
      BY <1>3, <2>2, ReducePart DEF IsPart
    <3>2. Len(ReduceSize(u)) = 2 /\ ReduceSize(u)[1].do = "exists"
      BY <1>0 DEF ReduceSize
    <3> QED
      BY <2>1, <3>1, <3>2
  <2> QED
    BY <1>3, <2>3, <2>4
<1>4. CASE Kind[j] = "copy"
  <2> DEFINE s == << Step("found", "db", u), Step("weigh", "db", u) >>
             t == << Step("duplicate", "db", u), Step("pour", "db", u),
                     Step("count", "db", u) >>
  <2>1. Body(j) = << Step("found", "db", u), Step("weigh", "db", u),
                     Step("duplicate", "db", u), Step("pour", "db", u),
                     Step("count", "db", u) >>
    BY <1>4 DEF Body
  <2>2. {"found", "weigh", "duplicate", "pour", "count"} \subseteq Does[Kind[j]]
        /\ PlaceOf(j) = "db"
    BY <1>4 DEF Does, PlaceOf
  <2>3. /\ Fits(j, Step("found", "db", u), "weigh")
        /\ Fits(j, Step("weigh", "db", u), "duplicate")
        /\ Fits(j, Step("duplicate", "db", u), "pour")
        /\ Fits(j, Step("pour", "db", u), "count")
        /\ Fits(j, Step("count", "db", u), EndOf(j))
        /\ \A do \in {"found", "weigh", "duplicate", "pour", "count"} :
              Step(do, "db", u) \in Steps
    <3>1. EndOf(j) \in After(j, "count")
      BY <1>4 DEF EndOf, After
    <3> QED
      BY <1>0, <1>4, <2>2, <3>1, StepFits DEF After
  <2>4. /\ Body(j) \in Seq(Steps) /\ Len(Body(j)) = 5
        /\ Body(j)[1] = Step("found", "db", u)
        /\ Body(j)[2] = Step("weigh", "db", u)
        /\ Body(j)[3] = Step("duplicate", "db", u)
        /\ Body(j)[4] = Step("pour", "db", u)
        /\ Body(j)[5] = Step("count", "db", u)
    BY <2>1, <2>3
  <2>5. /\ Follower(Body(j), 1, EndOf(j)) = "weigh"
        /\ Follower(Body(j), 2, EndOf(j)) = "duplicate"
        /\ Follower(Body(j), 3, EndOf(j)) = "pour"
        /\ Follower(Body(j), 4, EndOf(j)) = "count"
        /\ Follower(Body(j), 5, EndOf(j)) = EndOf(j)
    BY <1>0, <2>4 DEF Follower
  <2>6. \A i \in 1 .. Len(Body(j)) : i \in {1, 2, 3, 4, 5}
    BY <2>4
  <2>7. IsPart(j, Body(j), EndOf(j))
    BY <2>3, <2>4, <2>5, <2>6 DEF IsPart
  <2> QED
    BY <1>0, <1>4, <2>4, <2>7
<1>5. CASE Kind[j] \in {"delete", "uncache", "del", "delUuids"}
  <2> DEFINE e == IF Kind[j] \in {"del"} THEN "tell" ELSE "end"
  <2>1. ASSUME NEW f \in {"fill", "tell", "end"}
        PROVE  IsPart(j, DeleteUuid(u), f) /\ DeleteUuid(u) # <<>>
               /\ DeleteUuid(u)[1].do = "exists"
    <3>1. /\ IsPart(j, Unlink("db", u), f)
          /\ Unlink("db", u) # <<>> /\ Unlink("db", u)[1].do = "exists"
      BY <1>0, <1>5, UnlinkPart
    <3>2. IsPart(j, Unlink("cache", u), "exists")
      BY <1>0, <1>5, UnlinkPart
    <3>3. IsPart(j, DeleteUuid(u), f)
      BY <3>1, <3>2, PartsInOrder DEF DeleteUuid
    <3>4. Unlink("cache", u) \in Seq(Steps) /\ Unlink("db", u) \in Seq(Steps)
      BY <3>1, <3>2 DEF IsPart
    <3>5. Len(Unlink("cache", u)) = 3 /\ Unlink("cache", u)[1].do = "exists"
      BY <1>0 DEF Unlink
    <3> QED
      BY <3>3, <3>4, <3>5 DEF DeleteUuid
  <2>2. CASE Kind[j] = "delete"
    BY <2>1, <2>2 DEF Body, EndOf
  <2>3. CASE Kind[j] = "uncache"
    <3>1. Body(j) = Unlink("cache", u) /\ EndOf(j) = "end"
      BY <2>3 DEF Body, EndOf
    <3>2. /\ IsPart(j, Unlink("cache", Of[j]), "end")
          /\ Unlink("cache", Of[j]) # <<>> /\ Unlink("cache", Of[j])[1].do = "exists"
      <4>1. "cache" \in Places
        BY <1>0
      <4> QED
        BY <2>3, <4>1, UnlinkPart
    <3> QED
      BY <2>3, <3>1, <3>2
  <2>4. CASE Kind[j] \in {"del", "delUuids"}
    <3> DEFINE found == << Step("found", IF Kind[j] = "del" THEN "db" ELSE "cache", u) >>
    <3>1. IsPart(j, DeleteUuid(u), EndOf(j)) /\ DeleteUuid(u) # <<>>
          /\ DeleteUuid(u)[1].do = "exists" /\ DeleteUuid(u) \in Seq(Steps)
      BY <2>1, <2>4 DEF EndOf, IsPart
    <3>2. IsPart(j, found, "exists")
      <4>1. "found" \in Does[Kind[j]] /\ "exists" \in After(j, "found")
        BY <2>4 DEF Does, After
      <4> QED
        BY <1>0, <4>1, OneStep
    <3>3. found \in Seq(Steps) /\ Len(found) = 1 /\ found[1].do = "found"
      BY <1>0, <3>2 DEF IsPart
    <3> HIDE DEF found
    <3>4. /\ IsPart(j, found \o DeleteUuid(u), EndOf(j))
          /\ found \o DeleteUuid(u) # <<>>
          /\ (found \o DeleteUuid(u))[1].do = "found"
          /\ found \o DeleteUuid(u) \in Seq(Steps)
      <4>1. IsPart(j, found \o DeleteUuid(u), EndOf(j))
        BY <3>1, <3>2, PartsInOrder
      <4> QED
        <5>1. found # <<>>
          BY <3>3
        <5> QED
          BY <3>1, <3>3, <4>1, <5>1, FirstOfTwo
    <3>5. CASE Kind[j] = "delUuids"
      BY <3>4, <3>5 DEF Body, found
    <3>6. CASE Kind[j] = "del"
      <4>1. /\ IsPart(j, Unlink("cache", u), "found")
            /\ Unlink("cache", u) # <<>> /\ Unlink("cache", u)[1].do = "exists"
            /\ Unlink("cache", u) \in Seq(Steps)
        <5>1. "cache" \in Places
          BY <1>0
        <5>2. /\ IsPart(j, Unlink("cache", Of[j]), "found")
              /\ Unlink("cache", Of[j]) # <<>> /\ Unlink("cache", Of[j])[1].do = "exists"
          BY <3>6, <5>1, UnlinkPart
        <5> QED
          BY <5>2 DEF IsPart
      <4>2. Body(j) = Unlink("cache", u) \o (found \o DeleteUuid(u))
        <5>1. Body(j) = Unlink("cache", u) \o found \o DeleteUuid(u)
          BY <3>6 DEF Body, found
        <5>2. Unlink("cache", u) \o found \o DeleteUuid(u)
                = Unlink("cache", u) \o (found \o DeleteUuid(u))
          BY <3>1, <3>3, <4>1, ConcatAssociative
        <5> QED
          BY <5>1, <5>2
      <4>3. IsPart(j, Body(j), EndOf(j))
        BY <3>4, <4>1, <4>2, PartsInOrder
      <4>4. Body(j) # <<>> /\ Body(j)[1].do = "exists"
        BY <3>4, <4>1, <4>2
      <4> QED
        BY <3>6, <4>3, <4>4
    <3> QED
      BY <2>4, <3>5, <3>6
  <2> QED
    BY <1>5, <2>2, <2>3, <2>4
<1>6. CASE Kind[j] = "add"
  <2>1. Body(j) = Create("cache", u)
    BY <1>6 DEF Body
  <2> QED
    BY <1>6, <2>1, CreatePart DEF PlaceOf, EndOf
<1>7. CASE Kind[j] = "move"
  <2>1. Body(j) = << Step("list", "cache", u), Step("reset", "cache", u) >>
    BY <1>7 DEF Body
  <2>2. {"list", "reset"} \subseteq Does[Kind[j]]
    BY <1>7 DEF Does
  <2>3. /\ Step("list", "cache", u) \in Steps /\ Fits(j, Step("list", "cache", u), "reset")
        /\ Step("reset", "cache", u) \in Steps /\ Fits(j, Step("reset", "cache", u), EndOf(j))
    <3>1. EndOf(j) \in After(j, "reset") /\ "reset" \in After(j, "list")
      BY <1>7 DEF EndOf, After
    <3> QED
      BY <1>0, <2>2, <3>1, StepFits
  <2>4. IsPart(j, Body(j), EndOf(j))
    BY <1>0, <2>1, <2>3, TwoSteps
  <2> QED
    BY <1>0, <1>7, <2>1, <2>4
<1>8. CASE Kind[j] = "cleanup"
  <2>1. Body(j) = << Step("list", "cache", u) >>
    BY <1>8 DEF Body
  <2>2. "list" \in Does[Kind[j]] /\ EndOf(j) \in After(j, "list")
    BY <1>8 DEF Does, After, EndOf
  <2>3. IsPart(j, Body(j), EndOf(j))
    BY <1>0, <2>1, <2>2, OneStep
  <2> QED
    BY <1>0, <1>8, <2>1, <2>3
<1> QED
  BY <1>1, <1>2, <1>3, <1>4, <1>5, <1>6, <1>7, <1>8, KindIs DEF Kinds

-----------------------------------------------------------------------------
(* What every step of a job does to its program *)

\* What a job does just before the steps that rely on an earlier one.
EntersFrom(d, e) ==
    /\ e = "commit" => d = "fill"
    /\ e = "open" => d = "choose"
    /\ e = "measure" => d = "open"
    /\ e = "load" => d = "measure"
    /\ e = "write" => d = "truncate"
    /\ e = "pour" => d = "duplicate"

\* Job j goes from the step d to the first step of its new program.
Moved(j) ==
    /\ program' \in [Job -> Seq(Steps)]
    /\ \A i \in Job \ {j} : program'[i] = program[i]
    /\ IsProgram(j, program'[j])
    /\ program'[j] # <<>> => EntersFrom(Head1(j).do, Head(program'[j]).do)

LEMMA AfterEnters ==
    ASSUME NEW j \in Job, NEW d, NEW e \in After(j, d)
    PROVE  EntersFrom(d, e)
BY DEF After, EntersFrom

LEMMA FirstStep ==
    ASSUME MoreTypes, Programs, NEW j \in Job, program[j] # <<>>
    PROVE  /\ program[j] \in Seq(Steps) /\ Len(program[j]) \in Nat \ {0}
           /\ Head1(j) = program[j][1] /\ Head1(j) \in Steps
           /\ Fits(j, Head1(j), Follower(program[j], 1, "end"))
<1>1. program[j] \in Seq(Steps)
  BY DEF MoreTypes
<1>2. Len(program[j]) \in Nat \ {0} /\ Head(program[j]) = program[j][1]
      /\ program[j][1] \in Steps
  BY <1>1
<1>3. IsProgram(j, program[j])
  BY DEF Programs
<1> QED
  BY <1>1, <1>2, <1>3 DEF Head1, IsProgram, IsPart

LEMMA NextStep ==
    ASSUME NEW j \in Job, NEW s, IsProgram(j, s), NEW i \in 1 .. Len(s)
    PROVE  /\ s \in Seq(Steps)
           /\ i < Len(s) => s[i + 1].do \in After(j, s[i].do)
           /\ "end" \notin After(j, s[i].do) => i < Len(s)
           /\ s[i] \in Steps /\ Fits(j, s[i], Follower(s, i, "end"))
BY DEF IsProgram, IsPart, Fits, Follower

LEMMA Continued ==
    ASSUME MoreTypes, Programs, NEW j \in Job, program[j] # <<>>,
           NEW n \in 1 .. Len(program[j]), Continue(j, n)
    PROVE  /\ program' = [program EXCEPT ![j] = SubSeq(program[j], n + 1, Len(program[j]))]
           /\ program' \in [Job -> Seq(Steps)]
           /\ \A i \in Job \ {j} : program'[i] = program[i]
           /\ IsProgram(j, program'[j])
           /\ program'[j] # <<>> =>
                /\ n < Len(program[j])
                /\ Head(program'[j]) = program[j][n + 1]
                /\ Head(program'[j]).do \in After(j, program[j][n].do)
           /\ n < Len(program[j]) => program'[j] # <<>>
           /\ result' = result /\ crashed' = crashed
<1> DEFINE s == program[j]
           t == SubSeq(s, n + 1, Len(s))
<1>1. program' = [program EXCEPT ![j] = t] /\ result' = result /\ crashed' = crashed
  BY DEF Continue
<1>2. IsProgram(j, s) /\ program \in [Job -> Seq(Steps)]
  BY DEF Programs, MoreTypes
<1>3. /\ IsProgram(j, t)
      /\ t # <<>> => n < Len(s) /\ Head(t) = s[n + 1]
      /\ n < Len(s) => t # <<>>
  BY <1>2, RestOfProgram
<1>4. t \in Seq(Steps)
  BY <1>3 DEF IsProgram, IsPart
<1>5. n < Len(s) => s[n + 1].do \in After(j, s[n].do)
  BY <1>2, NextStep
<1> HIDE DEF t
<1>6. program'[j] = t
  BY <1>1, <1>2
<1>7. program' \in [Job -> Seq(Steps)] /\ \A i \in Job \ {j} : program'[i] = program[i]
  BY <1>1, <1>2, <1>4
<1>8. program' = [program EXCEPT ![j] = SubSeq(program[j], n + 1, Len(program[j]))]
  BY <1>1 DEF t
<1> QED
  BY <1>1, <1>3, <1>5, <1>6, <1>7, <1>8

LEMMA ContinuedOne ==
    ASSUME MoreTypes, Programs, NEW j \in Job, program[j] # <<>>, Continue(j, 1)
    PROVE  /\ Moved(j)
           /\ program'[j] # <<>> => Head(program'[j]).do \in After(j, Head1(j).do)
           /\ "end" \notin After(j, Head1(j).do) => program'[j] # <<>>
           /\ result' = result /\ crashed' = crashed
<1>1. Head1(j) = program[j][1] /\ 1 \in 1 .. Len(program[j]) /\ IsProgram(j, program[j])
  BY FirstStep DEF Programs
<1>2. /\ program' \in [Job -> Seq(Steps)]
      /\ \A i \in Job \ {j} : program'[i] = program[i]
      /\ IsProgram(j, program'[j])
      /\ program'[j] # <<>> => Head(program'[j]).do \in After(j, program[j][1].do)
      /\ 1 < Len(program[j]) => program'[j] # <<>>
      /\ result' = result /\ crashed' = crashed
  BY <1>1, Continued
<1>3. "end" \notin After(j, program[j][1].do) => 1 < Len(program[j])
  BY <1>1, NextStep
<1> QED
  BY <1>1, <1>2, <1>3, AfterEnters DEF Moved

\* After an exception move_cache_to_storage goes on with the next file.
LEMMA NextFileProgram ==
    ASSUME NEW j \in Job, Kind[j] = "move", NEW s, IsProgram(j, s), s # <<>>,
           s[1].do \in {"duplicate", "remove"}
    PROVE  /\ IsProgram(j, NextFile(s))
           /\ NextFile(s) # <<>> /\ Head(NextFile(s)).do \in {"duplicate", "reset"}
<1> DEFINE rest == {i \in DOMAIN s : i > 1 /\ s[i].do \in {"duplicate", "reset"}}
<1>0. s \in Seq(Steps) /\ Len(s) \in Nat \ {0} /\ DOMAIN s = 1 .. Len(s)
  BY DEF IsProgram, IsPart
<1>1. \E n \in 1 .. Len(s) :
         /\ n < Len(s)
         /\ n + 1 \in rest /\ \A i \in rest : n + 1 <= i
  <2>1. CASE s[1].do = "remove"
    <3>1. 1 < Len(s) /\ s[2].do \in {"duplicate", "reset"}
      <4>1. 1 \in 1 .. Len(s) /\ After(j, s[1].do) = {"duplicate", "reset"}
        BY <1>0, <2>1 DEF After
      <4>2. 1 < Len(s) /\ s[1 + 1].do \in After(j, s[1].do)
        BY <4>1, NextStep
      <4> QED
        BY <4>1, <4>2
    <3> QED
      BY <1>0, <3>1
  <2>2. CASE s[1].do = "duplicate"
    <3>1. 1 < Len(s) /\ s[2].do = "pour"
      <4>1. 1 \in 1 .. Len(s) /\ After(j, s[1].do) = {"pour"}
        BY <1>0, <2>2 DEF After
      <4>2. 1 < Len(s) /\ s[1 + 1].do \in After(j, s[1].do)
        BY <4>1, NextStep
      <4> QED
        BY <4>1, <4>2
    <3>2. 2 < Len(s) /\ s[3].do = "remove"
      <4>1. 2 \in 1 .. Len(s) /\ After(j, s[2].do) = {"remove"}
        BY <1>0, <3>1 DEF After
      <4>2. 2 < Len(s) /\ s[2 + 1].do \in After(j, s[2].do)
        BY <4>1, NextStep
      <4> QED
        BY <4>1, <4>2
    <3>3. 3 < Len(s) /\ s[4].do \in {"duplicate", "reset"}
      <4>1. 3 \in 1 .. Len(s) /\ After(j, s[3].do) = {"duplicate", "reset"}
        BY <1>0, <3>2 DEF After
      <4>2. 3 < Len(s) /\ s[3 + 1].do \in After(j, s[3].do)
        BY <4>1, NextStep
      <4> QED
        BY <4>1, <4>2
    <3> QED
      BY <1>0, <3>1, <3>2, <3>3
  <2> QED
    BY <2>1, <2>2
<1>2. PICK n \in 1 .. Len(s) :
         /\ n < Len(s)
         /\ n + 1 \in rest /\ \A i \in rest : n + 1 <= i
  BY <1>1
<1>3. (CHOOSE i \in rest : \A k \in rest : i <= k) = n + 1
  <2>1. \A i \in rest : (\A k \in rest : i <= k) => i = n + 1
    BY <1>0, <1>2
  <2> QED
    BY <1>2, <2>1
<1>4. NextFile(s) = SubSeq(s, n + 1, Len(s))
  BY <1>3 DEF NextFile
<1> QED
  BY <1>2, <1>4, RestOfProgram

Whys == {"failed", "no_space"}

LEMMA Thrown ==
    ASSUME MoreTypes, Programs, NEW j \in Job, program[j] # <<>>, NEW why \in Whys,
           Kind[j] = "move" => Head1(j).do \in {"duplicate", "remove"}, Throw(j, why)
    PROVE  /\ Moved(j)
           /\ program'[j] # <<>> =>
                 Head(program'[j]).do \in {"fill", "tell", "duplicate", "reset"}
           /\ Kind[j] \in {"save", "update"} => program'[j] = <<>>
           /\ result' = [result EXCEPT ![j] =
                 CASE Kind[j] = "get" -> "refuse"
                   [] Kind[j] = "del" -> "nack"
                   [] OTHER -> why]
<1>1. Head1(j) = program[j][1] /\ IsProgram(j, program[j])
      /\ program \in [Job -> Seq(Steps)]
  BY FirstStep DEF Programs, MoreTypes
<1>2. result' = [result EXCEPT ![j] =
                 CASE Kind[j] = "get" -> "refuse"
                   [] Kind[j] = "del" -> "nack"
                   [] OTHER -> why]
  BY DEF Throw
<1>3. CASE Kind[j] \in {"get", "read", "store", "copy", "del"}
  <2>1. program' = [program EXCEPT ![j] = Ending(j)]
    BY <1>3 DEF Throw
  <2>2. program'[j] = Ending(j) /\ \A i \in Job \ {j} : program'[i] = program[i]
    BY <1>1, <2>1
  <2>3. /\ IsProgram(j, Ending(j)) /\ Ending(j) \in Seq(Steps)
        /\ Ending(j) # <<>> => Head(Ending(j)).do \in {"fill", "tell"}
    BY <1>3, EndingProgram DEF EndOf
  <2>4. program' \in [Job -> Seq(Steps)]
    BY <1>1, <2>1, <2>3
  <2> QED
    BY <1>2, <1>3, <2>2, <2>3, <2>4 DEF Moved, EntersFrom
<1>4. CASE Kind[j] = "move"
  <2>1. program' = [program EXCEPT ![j] = NextFile(program[j])]
    BY <1>4 DEF Throw
  <2>2. program'[j] = NextFile(program[j]) /\ \A i \in Job \ {j} : program'[i] = program[i]
    BY <1>1, <2>1
  <2>3. /\ IsProgram(j, NextFile(program[j]))
        /\ Head(NextFile(program[j])).do \in {"duplicate", "reset"}
    BY <1>1, <1>4, NextFileProgram
  <2>4. NextFile(program[j]) \in Seq(Steps)
    BY <2>3 DEF IsProgram, IsPart
  <2>5. program' \in [Job -> Seq(Steps)]
    BY <1>1, <2>1, <2>4
  <2> QED
    BY <1>2, <1>4, <2>2, <2>3, <2>5 DEF Moved, EntersFrom
<1>5. CASE Kind[j] \notin {"get", "read", "store", "copy", "del", "move"}
  <2>1. program' = [program EXCEPT ![j] = <<>>]
    BY <1>5 DEF Throw
  <2>2. program'[j] = <<>> /\ \A i \in Job \ {j} : program'[i] = program[i]
    BY <1>1, <2>1
  <2>3. IsProgram(j, <<>>)
    BY NothingToDo DEF IsProgram
  <2>4. program' \in [Job -> Seq(Steps)]
    BY <1>1, <2>1
  <2> QED
    BY <1>2, <1>5, <2>2, <2>3, <2>4 DEF Moved
<1> QED
  BY <1>3, <1>4, <1>5

\* The loop over the names in order, n of them too old.
LoopOver(j, order, n) ==
    [k \in 1 .. 3 * Len(order) |->
        LET i == (k + 2) \div 3
            body == LoopBody(j, IF i <= n THEN "expire" ELSE "trim")
        IN  Step(body[k - 3 * (i - 1)], "cache", order[i])]

LEMMA LoopPart ==
    ASSUME NEW j \in Job, Kind[j] \in {"move", "cleanup"},
           NEW order \in Seq(Uuid), NEW n \in Nat, NEW e \in After(j, "list")
    PROVE  IsPart(j, LoopOver(j, order, n), e)
<1> DEFINE s == LoopOver(j, order, n)
           test(i) == IF i <= n THEN "expire" ELSE "trim"
           Tests == {"expire", "trim"}
<1>0. Len(order) \in Nat /\ \A i \in 1 .. Len(order) : order[i] \in Uuid
  OBVIOUS
<1>1. ASSUME NEW b \in Tests
      PROVE  /\ LoopBody(j, b)[1] \in After(j, "list")
             /\ LoopBody(j, b)[1] \in {"duplicate", "expire", "trim"}
             /\ LoopBody(j, b)[2] \in After(j, LoopBody(j, b)[1])
             /\ LoopBody(j, b)[2] \in {"pour", "shrink"}
             /\ LoopBody(j, b)[3] \in After(j, LoopBody(j, b)[2])
             /\ LoopBody(j, b)[3] = "remove"
             /\ \A r \in {1, 2, 3} : LoopBody(j, b)[r] \in Does[Kind[j]]
  BY DEF LoopBody, After, Does
<1>a. After(j, "list") \subseteq After(j, "remove")
  BY DEF After
<1>b. \A i : test(i) \in Tests
  OBVIOUS
<1>2. ASSUME NEW k \in 1 .. 3 * Len(order)
      PROVE  \E i \in 1 .. Len(order), r \in {1, 2, 3} :
               k = 3 * (i - 1) + r /\ (k + 2) \div 3 = i
  <2>1. (k + 2) \div 3 \in 1 .. Len(order)
    BY <1>0
  <2>2. k - 3 * ((k + 2) \div 3 - 1) \in {1, 2, 3}
    BY <1>0
  <2> QED
    BY <2>1, <2>2
<1>3. ASSUME NEW k \in 1 .. 3 * Len(order), NEW i \in 1 .. Len(order), NEW r \in {1, 2, 3},
             k = 3 * (i - 1) + r, (k + 2) \div 3 = i
      PROVE  /\ s[k] = Step(LoopBody(j, test(i))[r], "cache", order[i])
             /\ s[k] \in Steps /\ s[k].do = LoopBody(j, test(i))[r] /\ s[k].in = "cache"
  <2>1. k - 3 * (i - 1) = r
    BY <1>3
  <2>2. s[k] = Step(LoopBody(j, test(i))[r], "cache", order[i])
    BY <1>3, <2>1 DEF LoopOver
  <2>3. LoopBody(j, test(i))[r] \in Does[Kind[j]] /\ order[i] \in Uuid /\ Kind[j] \in Kinds
    BY <1>0, <1>1, <1>b, KindIs
  <2>4. s[k].do = LoopBody(j, test(i))[r] /\ s[k].in = "cache"
    BY <2>2 DEF Step
  <2>5. s[k] \in Steps
    BY <2>2, <2>3 DEF Step, Steps, Places
  <2> QED
    BY <2>2, <2>4, <2>5
<1>4. s \in Seq(Steps) /\ Len(s) = 3 * Len(order)
  <2>1. \A k \in 1 .. 3 * Len(order) : s[k] \in Steps
    BY <1>2, <1>3
  <2>2. 3 * Len(order) \in Nat
    BY <1>0
  <2>3. s = [k \in 1 .. 3 * Len(order) |-> s[k]]
    BY DEF LoopOver
  <2> HIDE DEF s
  <2>4. s \in [1 .. 3 * Len(order) -> Steps]
    BY <2>1, <2>3
  <2> QED
    BY <2>2, <2>4
<1> HIDE DEF s, test, Tests
<1> SUFFICES ASSUME NEW k \in 1 .. Len(s)
             PROVE  Fits(j, s[k], Follower(s, k, e))
  BY <1>4 DEF IsPart, s
<1>5. PICK i \in 1 .. Len(order), r \in {1, 2, 3} :
         k = 3 * (i - 1) + r /\ (k + 2) \div 3 = i
  BY <1>2, <1>4
<1>6. s[k].do = LoopBody(j, test(i))[r] /\ s[k].in = "cache"
  BY <1>3, <1>4, <1>5
<1>7. Follower(s, k, e) \in After(j, s[k].do)
  <2>1. CASE r \in {1, 2}
    <3>1. k + 1 \in 1 .. Len(s) /\ k < Len(s)
      BY <1>0, <1>4, <1>5, <2>1
    <3>2. (k + 3) \div 3 = i /\ k + 1 = 3 * (i - 1) + (r + 1) /\ r + 1 \in {1, 2, 3}
      BY <1>5, <2>1
    <3>3. k + 1 + 2 = k + 3
      BY <1>5
    <3>4. s[k + 1].do = LoopBody(j, test(i))[r + 1]
      BY <1>3, <1>4, <3>1, <3>2, <3>3
    <3>5. Follower(s, k, e) = LoopBody(j, test(i))[r + 1]
      BY <3>1, <3>4 DEF Follower
    <3>6. test(i) \in Tests
      BY <1>b
    <3>7. CASE r = 1
      BY <1>1, <1>6, <3>5, <3>6, <3>7
    <3>8. CASE r = 2
      BY <1>1, <1>6, <3>5, <3>6, <3>8
    <3> QED
      BY <2>1, <3>7, <3>8
  <2>2. CASE r = 3
    <3>1. s[k].do = "remove"
      BY <1>1, <1>b, <1>6, <2>2
    <3>2. CASE k = Len(s)
      BY <1>a, <3>1, <3>2 DEF Follower
    <3>3. CASE k # Len(s)
      <4>1. k + 1 \in 1 .. Len(s) /\ k < Len(s) /\ i + 1 \in 1 .. Len(order)
        BY <1>0, <1>4, <1>5, <2>2, <3>3
      <4>2. ((k + 1) + 2) \div 3 = i + 1 /\ k + 1 = 3 * ((i + 1) - 1) + 1 /\ 1 \in {1, 2, 3}
        BY <1>5, <2>2
      <4>3. s[k + 1].do = LoopBody(j, test(i + 1))[1]
        BY <1>3, <1>4, <4>1, <4>2
      <4>4. Follower(s, k, e) = LoopBody(j, test(i + 1))[1]
        BY <4>1, <4>3 DEF Follower
      <4>5. test(i + 1) \in Tests
        BY <1>b
      <4> QED
        <5>1. LoopBody(j, test(i + 1))[1] \in After(j, "list")
          BY <1>1, <4>5
        <5> QED
          BY <1>a, <3>1, <4>4, <5>1
    <3> QED
      BY <3>2, <3>3
  <2> QED
    BY <1>5, <2>1, <2>2
<1>8. s[k].do \in Does[Kind[j]]
  BY <1>1, <1>b, <1>6
<1>9. s[k].do \in {"truncate", "duplicate"} => s[k].in = PlaceOf(j)
  <2>1. CASE Kind[j] = "move"
    BY <1>6, <2>1 DEF PlaceOf
  <2>2. CASE Kind[j] = "cleanup"
    BY <1>8, <2>2 DEF Does
  <2> QED
    BY <2>1, <2>2
<1> QED
  BY <1>7, <1>8, <1>9 DEF Fits

LEMMA FirstOfLoop ==
    ASSUME NEW j \in Job, Kind[j] \in {"move", "cleanup"},
           NEW order \in Seq(Uuid), NEW n \in Nat, LoopOver(j, order, n) # <<>>
    PROVE  LoopOver(j, order, n)[1].do \in After(j, "list")
<1> DEFINE s == LoopOver(j, order, n)
           test(i) == IF i <= n THEN "expire" ELSE "trim"
<1>1. Len(order) \in Nat
  OBVIOUS
<1>2. Len(order) # 0
  <2> SUFFICES ASSUME Len(order) = 0 PROVE s = <<>>
    OBVIOUS
  <2>1. 1 .. 3 * Len(order) = {}
    OBVIOUS
  <2> QED
    BY <2>1 DEF LoopOver
<1>3. 1 \in 1 .. 3 * Len(order) /\ (1 + 2) \div 3 = 1 /\ 1 - 3 * (1 - 1) = 1
  BY <1>1, <1>2
<1>4. s[1] = Step(LoopBody(j, test(1))[1], "cache", order[1])
  BY <1>3 DEF LoopOver
<1>5. s[1].do = LoopBody(j, test(1))[1]
  BY <1>4 DEF Step
<1> QED
  BY <1>5 DEF LoopBody, After

\* The kinds of jobs that do a step.
LEMMA KindsDoing ==
    ASSUME MoreTypes, Programs, NEW j \in Job, program[j] # <<>>
    PROVE  /\ Head1(j).do \in Does[Kind[j]]
           /\ Head1(j).do \in {"choose", "open", "measure", "load"} => Reads(j)
           /\ Head1(j).do = "truncate" => Kind[j] \in {"save", "update", "store", "add"}
           /\ Head1(j).do = "write" => Kind[j] \in {"save", "update", "store", "add"}
           /\ Head1(j).do \in {"duplicate", "pour"} => Kind[j] \in {"copy", "move"}
           /\ Head1(j).do = "weigh" => Kind[j] = "copy"
           /\ Head1(j).do = "remove" => Kind[j] \in {"del", "delUuids", "delete", "uncache", "move", "cleanup"}
           /\ Head1(j).do = "list" => Kind[j] \in {"move", "cleanup"}
           /\ Head1(j).do = "found" => Kind[j] \in {"copy", "del", "delUuids"}
           /\ Head1(j).do \in {"expire", "trim"} => Kind[j] = "cleanup"
           /\ Head1(j).do \in {"exists", "shrink"} => Kind[j] # "move" /\ ~ Reads(j)
           /\ Head1(j).do \in {"fill", "commit"} =>
                Kind[j] \in {"get", "save", "update", "delete"}
           /\ Head1(j).do = "tell" => Kind[j] \in {"read", "store", "copy", "del", "move"}
<1>1. Head1(j).do \in Does[Kind[j]]
  BY FirstStep DEF Fits
<1>2. Kind[j] \in Kinds
  BY KindIs
<1> QED
  BY <1>1, <1>2 DEF Does, Kinds, Reads

\* The results of other jobs stay.
OwnResult(j) ==
    /\ result' \in [Job -> Results]
    /\ \A i \in Job \ {j} : result'[i] = result[i]

LEMMA ContinuedStep ==
    ASSUME MoreTypes, Programs, NEW j \in Job, program[j] # <<>>, Continue(j, 1)
    PROVE  Moved(j) /\ OwnResult(j)
BY ContinuedOne DEF MoreTypes, OwnResult

LEMMA ThrownStep ==
    ASSUME MoreTypes, Programs, NEW j \in Job, program[j] # <<>>, NEW why \in Whys,
           Kind[j] = "move" => Head1(j).do \in {"duplicate", "remove"}, Throw(j, why)
    PROVE  Moved(j) /\ OwnResult(j)
<1>1. result \in [Job -> Results] /\ {"refuse", "nack", why} \subseteq Results
  BY DEF MoreTypes, Whys, Results
<1>2. result' = [result EXCEPT ![j] =
                 CASE Kind[j] = "get" -> "refuse"
                   [] Kind[j] = "del" -> "nack"
                   [] OTHER -> why]
  BY Thrown
<1>3. OwnResult(j)
  BY <1>1, <1>2 DEF OwnResult
<1> QED
  BY <1>3, Thrown

\* What an update or a store does after it found its file, or found none.
LEMMA ExistsMoves ==
    ASSUME MoreTypes, Programs, NEW j \in Job, Exists(j)
    PROVE  /\ program[j] # <<>> /\ Moved(j) /\ OwnResult(j) /\ result' = result
           /\ Kind[j] \in {"update", "store"} =>
                program'[j] # <<>> /\ Head(program'[j]).do \in {"shrink", "truncate"}
<1> DEFINE s == program[j]
<1>1. s # <<>> /\ Head1(j).do = "exists"
  BY DEF Exists, At
<1>2. /\ IsProgram(j, s) /\ Len(s) \in Nat \ {0} /\ s[1].do = "exists"
      /\ 1 \in 1 .. Len(s)
  BY <1>1, FirstStep DEF Programs
<1>3. 1 < Len(s) /\ s[2].do = "shrink"
  <2>1. After(j, s[1].do) = {"shrink"}
    BY <1>2 DEF After
  <2>2. 1 < Len(s) /\ s[1 + 1].do \in After(j, s[1].do)
    BY <1>2, <2>1, NextStep
  <2> QED
    BY <2>1, <2>2
<1>4. 2 < Len(s) /\ s[3].do \in After(j, "shrink")
  <2>1. "end" \notin After(j, s[2].do) /\ 2 \in 1 .. Len(s)
    BY <1>2, <1>3 DEF After
  <2>2. 2 < Len(s) /\ s[2 + 1].do \in After(j, s[2].do)
    BY <1>2, <2>1, NextStep
  <2> QED
    BY <1>3, <2>2
<1>5. CASE File(j) # 0
  <2>1. Continue(j, 1)
    BY <1>5 DEF Exists
  <2>2. program'[j] # <<>> /\ Head(program'[j]).do \in {"shrink"}
    BY <1>1, <2>1, ContinuedOne DEF After
  <2> QED
    BY <1>1, <2>1, <2>2, ContinuedStep, ContinuedOne
<1>6. CASE File(j) = 0 /\ Kind[j] \in {"update", "store"}
  <2>1. Continue(j, 2) /\ 2 \in 1 .. Len(s)
    BY <1>3, <1>6, <1>2 DEF Exists
  <2>2. /\ program' \in [Job -> Seq(Steps)]
        /\ \A i \in Job \ {j} : program'[i] = program[i]
        /\ IsProgram(j, program'[j])
        /\ program'[j] # <<>> /\ Head(program'[j]) = s[3]
        /\ result' = result
    BY <1>1, <1>4, <2>1, Continued
  <2>3. s[3].do = "truncate"
    BY <1>4, <1>6 DEF After
  <2> QED
    BY <1>1, <2>2, <2>3 DEF Moved, OwnResult, MoreTypes, EntersFrom
<1>7. CASE File(j) = 0 /\ Kind[j] \notin {"update", "store"}
  <2>1. Continue(j, 3) /\ 3 \in 1 .. Len(s)
    BY <1>2, <1>4, <1>7 DEF Exists
  <2>2. s[3].do = "remove"
    BY <1>4, <1>7 DEF After
  <2>3. /\ program' \in [Job -> Seq(Steps)]
        /\ \A i \in Job \ {j} : program'[i] = program[i]
        /\ IsProgram(j, program'[j])
        /\ program'[j] # <<>> => Head(program'[j]).do \in After(j, "remove")
        /\ result' = result
    BY <1>1, <2>1, <2>2, Continued
  <2> QED
    BY <1>1, <1>7, <2>3 DEF Moved, OwnResult, MoreTypes, EntersFrom, After
<1> QED
  BY <1>5, <1>6, <1>7

LEMMA MeasureMoves ==
    ASSUME MoreTypes, Programs, NEW j \in Job, Measure(j)
    PROVE  /\ program[j] # <<>> /\ Moved(j) /\ OwnResult(j) /\ result' = result
           /\ IF files[fd[j]] = <<>>
              THEN program'[j] # <<>> => Head(program'[j]).do \in {"fill", "tell"}
              ELSE program'[j] # <<>> /\ Head(program'[j]).do = "load"
<1> DEFINE s == program[j]
<1>1. s # <<>> /\ Head1(j).do = "measure"
  BY DEF Measure, At
<1>2. /\ IsProgram(j, s) /\ Len(s) \in Nat \ {0} /\ s[1].do = "measure"
      /\ 1 \in 1 .. Len(s)
  BY <1>1, FirstStep DEF Programs
<1>3. 1 < Len(s) /\ s[2].do = "load"
  <2>1. After(j, s[1].do) = {"load"}
    BY <1>2 DEF After
  <2>2. 1 < Len(s) /\ s[1 + 1].do \in After(j, s[1].do)
    BY <1>2, <2>1, NextStep
  <2> QED
    BY <2>1, <2>2
<1>4. CASE files[fd[j]] # <<>>
  <2>1. Continue(j, 1)
    BY <1>4 DEF Measure
  <2>2. program'[j] # <<>> /\ Head(program'[j]).do \in {"load"}
    BY <1>1, <2>1, ContinuedOne DEF After
  <2> QED
    BY <1>1, <1>4, <2>1, <2>2, ContinuedStep, ContinuedOne
<1>5. CASE files[fd[j]] = <<>>
  <2>1. Continue(j, 2) /\ 2 \in 1 .. Len(s)
    BY <1>2, <1>3, <1>5 DEF Measure
  <2>2. /\ program' \in [Job -> Seq(Steps)]
        /\ \A i \in Job \ {j} : program'[i] = program[i]
        /\ IsProgram(j, program'[j])
        /\ program'[j] # <<>> => Head(program'[j]).do \in After(j, "load")
        /\ result' = result
    BY <1>1, <1>3, <2>1, Continued
  <2>3. program'[j] # <<>> => Head(program'[j]).do \in {"fill", "tell"}
    BY <2>2 DEF After
  <2> QED
    BY <1>1, <1>5, <2>2, <2>3 DEF Moved, OwnResult, MoreTypes, EntersFrom
<1> QED
  BY <1>4, <1>5

LEMMA ChooseMoves ==
    ASSUME TypeOK, MoreTypes, Programs, NEW j \in Job, ChoosePlace(j)
    PROVE  /\ program[j] # <<>> /\ Moved(j) /\ OwnResult(j) /\ Reads(j)
           /\ \/ /\ entry["cache"][Of[j]] = 0 /\ entry["db"][Of[j]] = 0
                 /\ Throw(j, "failed")
              \/ /\ result' = result /\ program'[j] # <<>>
                 /\ Head(program'[j]).do = "open"
                 /\ Head(program'[j]).of = Of[j]
                 /\ entry[Head(program'[j]).in][Of[j]] # 0
<1> DEFINE s == program[j]
           u == Of[j]
           p == IF entry["cache"][u] # 0 THEN "cache" ELSE "db"
           t == << Step("open", p, u), Step("measure", p, u), Step("load", p, u) >>
<1>1. s # <<>> /\ Head1(j).do = "choose" /\ Reads(j)
  BY KindsDoing DEF ChoosePlace, At
<1>2. /\ IsProgram(j, s) /\ Len(s) \in Nat \ {0} /\ s[1].do = "choose"
      /\ 1 \in 1 .. Len(s) /\ s \in Seq(Steps)
  BY <1>1, FirstStep DEF Programs
<1>3. CASE entry[p][u] = 0
  <2>1. Throw(j, "failed")
    BY <1>3 DEF ChoosePlace
  <2>2. entry["cache"][u] = 0 /\ entry["db"][u] = 0
    BY <1>3
  <2>3. Moved(j) /\ OwnResult(j)
    BY <1>1, <2>1, ThrownStep DEF Reads, Whys
  <2> QED
    BY <1>1, <2>1, <2>2, <2>3
<1>4. CASE entry[p][u] # 0
  <2>1. program' = [program EXCEPT ![j] = t \o Tail(s)] /\ result' = result
    BY <1>4 DEF ChoosePlace
  <2>2. program \in [Job -> Seq(Steps)]
    BY DEF MoreTypes
  <2>3. p \in Places
    BY DEF Places
  <2>4. \A x : Step("open", p, x).do = "open" /\ Step("open", p, x).in = p
               /\ Step("open", p, x).of = x
               /\ Step("measure", p, x).do = "measure" /\ Step("load", p, x).do = "load"
    BY DEF Step
  <2> HIDE DEF p
  <2>5. {"open", "measure", "load"} \subseteq Does[Kind[j]]
    BY <1>1 DEF Reads, Does
  <2>6. Tail(s) = SubSeq(s, 1 + 1, Len(s)) /\ Tail(s) \in Seq(Steps)
    BY <1>2, TailIsSubSeq
  <2>7. IsProgram(j, Tail(s))
    <3>1. IsProgram(j, SubSeq(s, 1 + 1, Len(s)))
      BY <1>2, RestOfProgram
    <3> QED
      BY <2>6, <3>1
  <2>8. Tail(s) # <<>> /\ Tail(s)[1].do \in {"fill", "tell"}
    <3>1. After(j, s[1].do) = {"fill", "tell"}
      BY <1>2 DEF After
    <3>2. 1 < Len(s) /\ s[1 + 1].do \in {"fill", "tell"}
      BY <1>2, <3>1, NextStep
    <3>3. SubSeq(s, 1 + 1, Len(s)) # <<>> /\ Head(SubSeq(s, 1 + 1, Len(s))) = s[1 + 1]
      BY <1>2, <3>2, RestOfProgram
    <3> QED
      BY <2>6, <3>2, <3>3
  <2>9. IsPart(j, t, Tail(s)[1].do)
    <3>1. /\ Step("open", p, u) \in Steps /\ Fits(j, Step("open", p, u), "measure")
          /\ Step("measure", p, u) \in Steps /\ Fits(j, Step("measure", p, u), "load")
          /\ Step("load", p, u) \in Steps /\ Fits(j, Step("load", p, u), Tail(s)[1].do)
      BY <2>3, <2>5, <2>8, StepFits DEF After
    <3> QED
      BY <2>4, <3>1, ThreeSteps
  <2>10. IsProgram(j, t \o Tail(s))
    BY <2>7, <2>8, <2>9, PartsInOrder DEF IsProgram
  <2>11. t \in Seq(Steps) /\ t # <<>> /\ t[1] = Step("open", p, u)
    BY <2>9 DEF IsPart
  <2>12. /\ t \o Tail(s) \in Seq(Steps) /\ t \o Tail(s) # <<>>
         /\ Head(t \o Tail(s)) = Step("open", p, u)
    <3> HIDE DEF t
    <3> QED
      BY <2>6, <2>11, FirstOfTwo
  <2> HIDE DEF t
  <2>13. program'[j] = t \o Tail(s)
    BY <2>1, <2>2
  <2>14. program' \in [Job -> Seq(Steps)] /\ \A i \in Job \ {j} : program'[i] = program[i]
    BY <2>1, <2>2, <2>12
  <2>15. Moved(j)
    BY <1>1, <2>4, <2>10, <2>12, <2>13, <2>14 DEF Moved, EntersFrom
  <2>16. OwnResult(j)
    BY <2>1 DEF OwnResult, MoreTypes
  <2>17. /\ program'[j] # <<>>
         /\ Head(program'[j]).do = "open"
         /\ Head(program'[j]).of = u
         /\ Head(program'[j]).in = p
    BY <2>4, <2>12, <2>13
  <2> QED
    BY <1>1, <1>4, <2>1, <2>15, <2>16, <2>17
<1> QED
  BY <1>3, <1>4

LEMMA FoundMoves ==
    ASSUME MoreTypes, Programs, NEW j \in Job, Found(j)
    PROVE  /\ program[j] # <<>> /\ Moved(j) /\ OwnResult(j)
           /\ Kind[j] \in {"copy", "del", "delUuids"}
<1>1. program[j] # <<>> /\ Head1(j).do = "found" /\ Kind[j] \in {"copy", "del", "delUuids"}
  BY KindsDoing DEF Found, At
<1>2. CASE Continue(j, 1)
  BY <1>1, <1>2, ContinuedStep
<1>3. CASE /\ program' = [program EXCEPT ![j] = Ending(j)]
           /\ result' = [result EXCEPT ![j] = "nack"]
  <2>1. program \in [Job -> Seq(Steps)] /\ result \in [Job -> Results] /\ "nack" \in Results
    BY DEF MoreTypes, Results
  <2>2. program'[j] = Ending(j) /\ \A i \in Job \ {j} : program'[i] = program[i]
    BY <1>3, <2>1
  <2>3. /\ IsProgram(j, Ending(j)) /\ Ending(j) \in Seq(Steps)
        /\ Ending(j) # <<>> => Head(Ending(j)).do \in {"fill", "tell"}
    BY EndingProgram DEF EndOf
  <2>4. program' \in [Job -> Seq(Steps)]
    BY <1>3, <2>1, <2>3
  <2>5. Moved(j)
    BY <2>2, <2>3, <2>4 DEF Moved, EntersFrom
  <2>6. OwnResult(j)
    BY <1>3, <2>1 DEF OwnResult
  <2> QED
    BY <1>1, <2>5, <2>6
<1> QED
  BY <1>2, <1>3 DEF Found

LEMMA FiniteNames ==
    ASSUME TypeOK
    PROVE  /\ Cardinality(CachedNames) \in Nat
           /\ \A order \in SetToSeqs(CachedNames) : order \in Seq(Uuid)
<1>1. CachedNames \subseteq Uuid
  BY DEF CachedNames
<1>2. IsFiniteSet(CachedNames)
  BY <1>1, PlaceAssumption, FS_Subset
<1>3. Cardinality(CachedNames) \in Nat
  BY <1>2, FS_CardinalityType
<1>4. ASSUME NEW order \in SetToSeqs(CachedNames)
      PROVE  order \in Seq(Uuid)
  <2>1. order \in [1 .. Cardinality(CachedNames) -> CachedNames]
    BY DEF SetToSeqs
  <2>2. order \in [1 .. Cardinality(CachedNames) -> Uuid]
    BY <1>1, <2>1
  <2> QED
    BY <1>3, <2>2
<1> QED
  BY <1>3, <1>4

LEMMA ListMoves ==
    ASSUME TypeOK, MoreTypes, Programs, NEW j \in Job, List(j)
    PROVE  /\ program[j] # <<>> /\ Moved(j) /\ OwnResult(j) /\ result' = result
           /\ Kind[j] \in {"move", "cleanup"}
<1> DEFINE s == program[j]
<1>1. s # <<>> /\ Head1(j).do = "list" /\ Kind[j] \in {"move", "cleanup"}
  BY KindsDoing DEF List, At
<1>2. /\ IsProgram(j, s) /\ Len(s) \in Nat \ {0} /\ s[1].do = "list"
      /\ 1 \in 1 .. Len(s) /\ s \in Seq(Steps)
  BY <1>1, FirstStep DEF Programs
<1>3. PICK order \in SetToSeqs(CachedNames), n \in 0 .. Cardinality(CachedNames) :
         program' = [program EXCEPT ![j] = LoopOver(j, order, n) \o Tail(s)]
  BY DEF List, LoopOver
<1>4. result' = result
  BY DEF List
<1>5. order \in Seq(Uuid) /\ n \in Nat
  BY FiniteNames
<1> DEFINE t == LoopOver(j, order, n)
<1>6. Tail(s) = SubSeq(s, 1 + 1, Len(s)) /\ Tail(s) \in Seq(Steps)
  BY <1>2, TailIsSubSeq
<1>7. /\ IsProgram(j, Tail(s))
      /\ Tail(s) # <<>> => 1 < Len(s) /\ Head(Tail(s)) = s[1 + 1]
      /\ 1 < Len(s) => Tail(s) # <<>>
  BY <1>2, <1>6, RestOfProgram
<1>8. 1 < Len(s) => s[1 + 1].do \in After(j, "list")
  BY <1>2, NextStep
<1>9. /\ IsProgram(j, t \o Tail(s))
      /\ t \o Tail(s) # <<>> => Head(t \o Tail(s)).do \in After(j, "list")
      /\ t \o Tail(s) \in Seq(Steps)
  <2>1. CASE Tail(s) # <<>>
    <3>1. Tail(s)[1].do \in After(j, "list")
      BY <1>7, <1>8, <2>1
    <3>2. IsPart(j, t, Tail(s)[1].do)
      BY <1>1, <1>5, <3>1, LoopPart
    <3>3. t \in Seq(Steps)
      BY <3>2 DEF IsPart
    <3>4. IsProgram(j, t \o Tail(s))
      BY <1>7, <2>1, <3>2, PartsInOrder DEF IsProgram
    <3>5. t \o Tail(s) \in Seq(Steps)
      BY <3>4 DEF IsProgram, IsPart
    <3>6. CASE t = <<>>
      <4>1. t \o Tail(s) = Tail(s)
        BY <1>6, <3>6
      <4> QED
        BY <3>1, <3>4, <3>5, <4>1
    <3>7. CASE t # <<>>
      <4>1. t[1].do \in After(j, "list")
        BY <1>1, <1>5, <3>7, <3>1, FirstOfLoop
      <4>2. Head(t \o Tail(s)) = t[1]
        BY <1>6, <3>3, <3>7, FirstOfTwo
      <4> QED
        BY <3>4, <3>5, <4>1, <4>2
    <3> QED
      BY <3>6, <3>7
  <2>2. CASE Tail(s) = <<>>
    <3>1. "end" \in After(j, "list")
      BY <1>2, <1>7, <2>2, NextStep
    <3>2. IsPart(j, t, "end")
      BY <1>1, <1>5, <3>1, LoopPart
    <3>3. t \in Seq(Steps)
      BY <3>2 DEF IsPart
    <3>4. t # <<>> => t[1].do \in After(j, "list")
      BY <1>1, <1>5, <3>1, FirstOfLoop
    <3> HIDE DEF t
    <3>5. t \o Tail(s) = t
      BY <2>2, <3>3, ConcatEmptySeq
    <3>6. t # <<>> => Head(t).do \in After(j, "list")
      BY <3>3, <3>4
    <3> QED
      BY <3>2, <3>3, <3>5, <3>6 DEF IsProgram
  <2> QED
    BY <2>1, <2>2
<1> HIDE DEF t
<1>10. program \in [Job -> Seq(Steps)] /\ program' = [program EXCEPT ![j] = t \o Tail(s)]
  BY <1>3 DEF MoreTypes, t
<1>11. program'[j] = t \o Tail(s) /\ \A i \in Job \ {j} : program'[i] = program[i]
  BY <1>10
<1>12. program' \in [Job -> Seq(Steps)]
  BY <1>9, <1>10
<1>13. Moved(j)
  BY <1>1, <1>9, <1>11, <1>12, AfterEnters DEF Moved
<1> QED
  BY <1>1, <1>4, <1>13 DEF OwnResult, MoreTypes

LEMMA TrimMoves ==
    ASSUME MoreTypes, Programs, NEW j \in Job, Trim(j)
    PROVE  program[j] # <<>> /\ Moved(j) /\ OwnResult(j) /\ Kind[j] = "cleanup"
<1>1. program[j] # <<>> /\ Kind[j] = "cleanup"
  BY KindsDoing DEF Trim, At
<1>2. CASE Continue(j, 1)
  BY <1>1, <1>2, ContinuedStep
<1>3. CASE Continue(j, Len(program[j]))
  <2>1. Len(program[j]) \in 1 .. Len(program[j])
    BY <1>1, FirstStep
  <2>2. /\ program' \in [Job -> Seq(Steps)]
        /\ \A i \in Job \ {j} : program'[i] = program[i]
        /\ IsProgram(j, program'[j])
        /\ program'[j] = <<>>
        /\ result' = result
    BY <1>1, <1>3, <2>1, Continued
  <2> QED
    BY <1>1, <2>2 DEF Moved, OwnResult, MoreTypes
<1> QED
  BY <1>2, <1>3 DEF Trim

\* Every step of a job goes on in its own program and changes its own result only.
LEMMA WorkMoves ==
    ASSUME TypeOK, MoreTypes, Programs, NEW j \in Job, Work(j)
    PROVE  program[j] # <<>> /\ Moved(j) /\ OwnResult(j)
<1> USE DEF Whys
<1>1. CASE ChoosePlace(j)
  BY <1>1, ChooseMoves
<1>2. CASE Open(j)
  <2>1. program[j] # <<>> /\ Reads(j)
    BY <1>2, KindsDoing DEF Open, At
  <2> QED
    BY <1>2, <2>1, ContinuedStep, ThrownStep DEF Open, Reads
<1>3. CASE Measure(j)
  BY <1>3, MeasureMoves
<1>4. CASE Load(j)
  BY <1>4, ContinuedStep DEF Load, At
<1>5. CASE Exists(j)
  BY <1>5, ExistsMoves
<1>6. CASE Found(j)
  BY <1>6, FoundMoves
<1>7. CASE Truncate(j)
  <2>1. program[j] # <<>> /\ Kind[j] # "move"
    BY <1>7, KindsDoing DEF Truncate, At
  <2> QED
    BY <1>7, <2>1, ContinuedStep, ThrownStep DEF Truncate
<1>8. CASE Write(j)
  <2>1. program[j] # <<>> /\ Kind[j] # "move"
    BY <1>8, KindsDoing DEF Write, At
  <2>2. Continue(j, 1) \/ Throw(j, "failed")
    BY <1>8 DEF Write
  <2> QED
    BY <2>1, <2>2, ContinuedStep, ThrownStep
<1>9. CASE Count(j)
  BY <1>9, ContinuedStep DEF Count, At
<1>10. CASE Shrink(j)
  <2>1. program[j] # <<>> /\ Kind[j] # "move"
    BY <1>10, KindsDoing DEF Shrink, At
  <2> QED
    BY <1>10, <2>1, ContinuedStep, ThrownStep DEF Shrink
<1>11. CASE RemoveFile(j)
  BY <1>11, ContinuedStep, ThrownStep DEF RemoveFile, At
<1>12. CASE Weigh(j)
  <2>1. program[j] # <<>> /\ Kind[j] # "move"
    BY <1>12, KindsDoing DEF Weigh, At
  <2>2. Continue(j, 1) \/ Throw(j, "failed") \/ Throw(j, "no_space")
    BY <1>12 DEF Weigh
  <2> QED
    BY <2>1, <2>2, ContinuedStep, ThrownStep
<1>13. CASE Duplicate(j)
  BY <1>13, ContinuedStep, ThrownStep DEF Duplicate, At
<1>14. CASE Pour(j)
  BY <1>14, ContinuedStep DEF Pour, At
<1>15. CASE List(j)
  BY <1>15, ListMoves
<1>16. CASE Trim(j)
  BY <1>16, TrimMoves
<1>17. CASE Reset(j)
  BY <1>17, ContinuedStep DEF Reset, At
<1>18. CASE Tell(j)
  BY <1>18, ContinuedStep DEF Tell, At
<1>19. CASE Fill(j)
  BY <1>19, ContinuedStep DEF Fill, At
<1>20. CASE Commit(j)
  BY <1>20, ContinuedStep DEF Commit, At
<1> QED
  BY <1>1, <1>2, <1>3, <1>4, <1>5, <1>6, <1>7, <1>8, <1>9, <1>10, <1>11, <1>12, <1>13,
     <1>14, <1>15, <1>16, <1>17, <1>18, <1>19, <1>20 DEF Work

\* Which steps change what.
LEMMA WorkFrames ==
    ASSUME NEW j \in Job, Work(j)
    PROVE  /\ mix' = mix /\ started' = started /\ met' = met /\ before' = before
           /\ answers' # answers => Tell(j) \/ Commit(j)
           /\ slot' # slot => Fill(j)
           /\ data' # data => Load(j)
           /\ fd' # fd => Open(j) \/ Truncate(j) \/ Duplicate(j)
           /\ out' # out => Duplicate(j)
           /\ files' # files => Truncate(j) \/ Write(j) \/ Duplicate(j) \/ Pour(j)
           /\ entry' # entry => Truncate(j) \/ RemoveFile(j) \/ Duplicate(j)
           /\ len' # len => Measure(j) \/ Truncate(j) \/ Weigh(j)
           /\ size' # size => Count(j) \/ Shrink(j) \/ Reset(j)
<1> USE DEF fileVars, localVars, tellVars, historyVars
<1>1. CASE ChoosePlace(j)
  BY <1>1 DEF ChoosePlace
<1>2. CASE Open(j)
  BY <1>2 DEF Open
<1>3. CASE Measure(j)
  BY <1>3 DEF Measure
<1>4. CASE Load(j)
  BY <1>4 DEF Load
<1>5. CASE Exists(j)
  BY <1>5 DEF Exists
<1>6. CASE Found(j)
  BY <1>6 DEF Found
<1>7. CASE Truncate(j)
  BY <1>7 DEF Truncate
<1>8. CASE Write(j)
  BY <1>8 DEF Write
<1>9. CASE Count(j)
  BY <1>9 DEF Count
<1>10. CASE Shrink(j)
  BY <1>10 DEF Shrink
<1>11. CASE RemoveFile(j)
  BY <1>11 DEF RemoveFile
<1>12. CASE Weigh(j)
  BY <1>12 DEF Weigh
<1>13. CASE Duplicate(j)
  BY <1>13 DEF Duplicate
<1>14. CASE Pour(j)
  BY <1>14 DEF Pour
<1>15. CASE List(j)
  BY <1>15 DEF List
<1>16. CASE Trim(j)
  BY <1>16 DEF Trim
<1>17. CASE Reset(j)
  BY <1>17 DEF Reset
<1>18. CASE Tell(j)
  BY <1>18 DEF Tell
<1>19. CASE Fill(j)
  BY <1>19 DEF Fill
<1>20. CASE Commit(j)
  BY <1>20 DEF Commit
<1> QED
  BY <1>1, <1>2, <1>3, <1>4, <1>5, <1>6, <1>7, <1>8, <1>9, <1>10, <1>11, <1>12, <1>13,
     <1>14, <1>15, <1>16, <1>17, <1>18, <1>19, <1>20 DEF Work

LEMMA WorkResults ==
    ASSUME TypeOK, MoreTypes, Programs, NEW j \in Job, Work(j)
    PROVE  /\ result'[j] = result[j] \/ result'[j] \in {"refuse", "nack", "failed", "no_space"}
           /\ Reads(j) /\ result'[j] # result[j] =>
                \/ ChoosePlace(j) /\ Throw(j, "failed")
                \/ Open(j) /\ File(j) = 0
<1> USE DEF Whys, MoreTypes
<1>0. ASSUME NEW why \in Whys, Throw(j, why)
      PROVE  result'[j] \in {"refuse", "nack", "failed", "no_space"}
  BY <1>0 DEF Throw
<1>a. ASSUME NEW n, Continue(j, n)
      PROVE  result'[j] = result[j]
  BY <1>a DEF Continue
<1>1. CASE ChoosePlace(j)
  BY <1>0, <1>1, ChooseMoves
<1>2. CASE Open(j)
  BY <1>0, <1>a, <1>2 DEF Open
<1>3. CASE Measure(j)
  BY <1>a, <1>3 DEF Measure
<1>4. CASE Load(j)
  BY <1>a, <1>4 DEF Load
<1>5. CASE Exists(j)
  BY <1>5, ExistsMoves
<1>6. CASE Found(j)
  <2>1. ~ Reads(j)
    BY <1>6, FoundMoves DEF Reads
  <2>2. result'[j] = result[j] \/ result'[j] = "nack"
    BY <1>a, <1>6 DEF Found
  <2> QED
    BY <2>1, <2>2
<1>7. CASE Truncate(j)
  <2>1. ~ Reads(j)
    BY <1>7, KindsDoing DEF Truncate, At, Reads
  <2>2. Continue(j, 1) \/ Throw(j, "no_space")
    BY <1>7 DEF Truncate
  <2> QED
    BY <1>0, <1>a, <2>1, <2>2
<1>8. CASE Write(j)
  <2>1. ~ Reads(j)
    BY <1>8, KindsDoing DEF Write, At, Reads
  <2>2. Continue(j, 1) \/ Throw(j, "failed")
    BY <1>8 DEF Write
  <2> QED
    BY <1>0, <1>a, <2>1, <2>2
<1>9. CASE Count(j)
  BY <1>a, <1>9 DEF Count
<1>10. CASE Shrink(j)
  <2>1. ~ Reads(j)
    BY <1>10, KindsDoing DEF Shrink, At
  <2>2. Continue(j, 1) \/ Throw(j, "failed")
    BY <1>10 DEF Shrink
  <2> QED
    BY <1>0, <1>a, <2>1, <2>2
<1>11. CASE RemoveFile(j)
  <2>1. ~ Reads(j)
    BY <1>11, KindsDoing DEF RemoveFile, At, Reads
  <2>2. Continue(j, 1) \/ Throw(j, "failed")
    BY <1>11 DEF RemoveFile
  <2> QED
    BY <1>0, <1>a, <2>1, <2>2
<1>12. CASE Weigh(j)
  <2>1. ~ Reads(j)
    BY <1>12, KindsDoing DEF Weigh, At, Reads
  <2>2. Continue(j, 1) \/ Throw(j, "failed") \/ Throw(j, "no_space")
    BY <1>12 DEF Weigh
  <2> QED
    BY <1>0, <1>a, <2>1, <2>2
<1>13. CASE Duplicate(j)
  <2>1. ~ Reads(j)
    BY <1>13, KindsDoing DEF Duplicate, At, Reads
  <2>2. Continue(j, 1) \/ Throw(j, "failed")
    BY <1>13 DEF Duplicate
  <2> QED
    BY <1>0, <1>a, <2>1, <2>2
<1>14. CASE Pour(j)
  BY <1>a, <1>14 DEF Pour
<1>15. CASE List(j)
  BY <1>15, ListMoves
<1>16. CASE Trim(j)
  BY <1>a, <1>16 DEF Trim
<1>17. CASE Reset(j)
  BY <1>a, <1>17 DEF Reset
<1>18. CASE Tell(j)
  BY <1>a, <1>18 DEF Tell
<1>19. CASE Fill(j)
  BY <1>a, <1>19 DEF Fill
<1>20. CASE Commit(j)
  BY <1>a, <1>20 DEF Commit
<1> QED
  BY <1>1, <1>2, <1>3, <1>4, <1>5, <1>6, <1>7, <1>8, <1>9, <1>10, <1>11, <1>12, <1>13,
     <1>14, <1>15, <1>16, <1>17, <1>18, <1>19, <1>20 DEF Work

-----------------------------------------------------------------------------
(* Files *)

LEMMA OverlayIs ==
    ASSUME NEW V, NEW old \in Seq(V), NEW d \in Seq(V)
    PROVE  /\ Overlay(old, d) \in Seq(V)
           /\ ToSet(Overlay(old, d)) \subseteq ToSet(old) \cup ToSet(d)
           /\ old = <<>> => Overlay(old, d) = d
<1> DEFINE t == SubSeq(old, Len(d) + 1, Len(old))
<1>1. Len(old) \in Nat /\ Len(d) \in Nat
  OBVIOUS
<1>2. \A i \in (Len(d) + 1) .. Len(old) : old[i] \in V
  BY <1>1
<1>3. /\ t \in Seq(V)
      /\ Len(t) = IF Len(d) + 1 <= Len(old) THEN Len(old) - (Len(d) + 1) + 1 ELSE 0
      /\ \A i \in 1 .. Len(old) - (Len(d) + 1) + 1 : t[i] = old[Len(d) + 1 + i - 1]
  BY <1>1, <1>2, SubSeqProperties
<1>4. \A i \in 1 .. Len(t) : t[i] \in ToSet(old)
  BY <1>1, <1>3 DEF ToSet
<1>5. old = <<>> => t = <<>>
  BY <1>1, <1>3
<1> HIDE DEF t
<1>6. Overlay(old, d) = d \o t
  BY DEF Overlay, t
<1>7. d \o t \in Seq(V) /\ Len(d \o t) = Len(d) + Len(t)
  BY <1>3
<1>8. ASSUME NEW i \in 1 .. Len(d \o t)
      PROVE  (d \o t)[i] \in ToSet(old) \cup ToSet(d)
  <2>1. CASE i <= Len(d)
    BY <1>1, <1>3, <2>1 DEF ToSet
  <2>2. CASE i > Len(d)
    <3>1. (d \o t)[i] = t[i - Len(d)] /\ i - Len(d) \in 1 .. Len(t)
      BY <1>1, <1>3, <1>7, <2>2
    <3> QED
      BY <1>4, <3>1
  <2> QED
    BY <1>1, <2>1, <2>2
<1>9. ToSet(d \o t) \subseteq ToSet(old) \cup ToSet(d)
  <2>1. DOMAIN (d \o t) = 1 .. Len(d \o t)
    BY <1>7
  <2> QED
    BY <1>8, <2>1 DEF ToSet
<1>10. old = <<>> => d \o t = d
  BY <1>5, ConcatEmptySeq
<1> QED
  BY <1>6, <1>7, <1>9, <1>10

LEMMA ExceptIs ==
    ASSUME NEW S, NEW s \in Seq(S), NEW i \in 1 .. Len(s), NEW x \in S
    PROVE  /\ [s EXCEPT ![i] = x] \in Seq(S) /\ Len([s EXCEPT ![i] = x]) = Len(s)
           /\ [s EXCEPT ![i] = x][i] = x
           /\ \A k \in 1 .. Len(s) : k # i => [s EXCEPT ![i] = x][k] = s[k]
BY ExceptSeq

LEMMA FilesAre ==
    ASSUME TypeOK
    PROVE  /\ Len(files) \in Nat /\ files \in Seq(Seq(Version))
           /\ \A f \in 1 .. Len(files) : files[f] \in Seq(Version)
           /\ \A p \in Places, u \in Uuid : entry[p][u] \in 0 .. Len(files)
           /\ \A j \in Job : fd[j] \in 0 .. Len(files) /\ out[j] \in 0 .. Len(files)
BY DEF TypeOK, FileNo

\* What opening a file for writing does.
LEMMA OpenedEffect ==
    ASSUME TypeOK, NEW p \in Places, NEW u \in Uuid, Opened(p, u)
    PROVE  /\ files' \in Seq(Seq(Version))
           /\ Len(files') \in Nat /\ Len(files) <= Len(files')
           /\ \/ /\ entry[p][u] # 0 /\ Opens(p, u) = entry[p][u] /\ Len(files') = Len(files)
              \/ /\ entry[p][u] = 0 /\ Opens(p, u) = Len(files) + 1
                 /\ Len(files') = Len(files) + 1
           /\ Opens(p, u) \in 1 .. Len(files') /\ files'[Opens(p, u)] = <<>>
           /\ \A f \in 1 .. Len(files) : f # Opens(p, u) => files'[f] = files[f]
           /\ entry' \in [Places -> [Uuid -> 0 .. Len(files')]]
           /\ entry'[p][u] = Opens(p, u)
           /\ \A q \in Places, x \in Uuid : <<q, x>> # <<p, u>> => entry'[q][x] = entry[q][x]
<1>0. /\ Len(files) \in Nat /\ files \in Seq(Seq(Version))
      /\ entry \in [Places -> [Uuid -> 0 .. Len(files)]]
      /\ <<>> \in Seq(Version)
  BY FilesAre DEF TypeOK, FileNo
<1>1. CASE entry[p][u] # 0
  <2>1. files' = [files EXCEPT ![entry[p][u]] = <<>>] /\ entry' = entry
    BY <1>1 DEF Opened
  <2>2. Opens(p, u) = entry[p][u] /\ entry[p][u] \in 1 .. Len(files)
    BY <1>0, <1>1 DEF Opens
  <2>3. /\ files' \in Seq(Seq(Version)) /\ Len(files') = Len(files)
        /\ files'[Opens(p, u)] = <<>>
        /\ \A f \in 1 .. Len(files) : f # Opens(p, u) => files'[f] = files[f]
    BY <1>0, <2>1, <2>2, ExceptIs
  <2>4. entry' \in [Places -> [Uuid -> 0 .. Len(files')]]
    BY <1>0, <2>1, <2>3
  <2> QED
    <3>1. Len(files') \in Nat /\ Len(files) <= Len(files') /\ Opens(p, u) \in 1 .. Len(files')
      BY <1>0, <2>2, <2>3
    <3>2. /\ entry'[p][u] = Opens(p, u)
          /\ \A q \in Places, x \in Uuid : entry'[q][x] = entry[q][x]
      BY <2>1, <2>2
    <3> QED
      BY <1>1, <2>2, <2>3, <2>4, <3>1, <3>2
<1>2. CASE entry[p][u] = 0
  <2>1. files' = Append(files, <<>>)
        /\ entry' = [entry EXCEPT ![p][u] = Len(files) + 1]
    BY <1>2 DEF Opened
  <2>2. Opens(p, u) = Len(files) + 1
    BY <1>2 DEF Opens
  <2>3. /\ files' \in Seq(Seq(Version)) /\ Len(files') = Len(files) + 1
        /\ files'[Len(files) + 1] = <<>>
        /\ \A f \in 1 .. Len(files) : files'[f] = files[f]
    BY <1>0, <2>1
  <2>4. entry' \in [Places -> [Uuid -> 0 .. Len(files')]]
    BY <1>0, <2>1, <2>3
  <2>5. entry'[p][u] = Len(files) + 1
    BY <1>0, <2>1
  <2>6. \A q \in Places, x \in Uuid : <<q, x>> # <<p, u>> => entry'[q][x] = entry[q][x]
    BY <1>0, <2>1
  <2> QED
    BY <1>0, <1>2, <2>2, <2>3, <2>4, <2>5, <2>6
<1> QED
  BY <1>1, <1>2

Written(j) == [k \in 1 .. Size[j] |-> j]

LEMMA WrittenIs ==
    ASSUME NEW j \in Job
    PROVE  Written(j) \in Seq(Version) /\ ToSet(Written(j)) \subseteq {j} /\ Size[j] \in Nat
<1>1. Size[j] \in Nat /\ j \in Version
  BY JobAssumption DEF Version
<1>2. Written(j) \in [1 .. Size[j] -> Version]
  BY <1>1 DEF Written
<1>3. Written(j) \in Seq(Version)
  BY <1>1, <1>2
<1>4. \A k \in DOMAIN Written(j) : Written(j)[k] = j
  BY DEF Written
<1> QED
  BY <1>1, <1>3, <1>4 DEF ToSet

\* What a successful write does; a failed one changes no file.
LEMMA WriteEffect ==
    ASSUME TypeOK, MoreTypes, Programs, HasOpen, NEW j \in Job, Write(j)
    PROVE  /\ program[j] # <<>> /\ Head1(j).do = "write"
           /\ Kind[j] \in {"save", "update", "store", "add"}
           /\ fd[j] \in 1 .. Len(files)
           /\ \/ /\ files' = [files EXCEPT ![fd[j]] = Overlay(files[fd[j]], Written(j))]
                 /\ files' \in Seq(Seq(Version)) /\ Len(files') = Len(files)
                 /\ files'[fd[j]] = Overlay(files[fd[j]], Written(j))
                 /\ \A f \in 1 .. Len(files) : f # fd[j] => files'[f] = files[f]
                 /\ ToSet(files'[fd[j]]) \subseteq ToSet(files[fd[j]]) \cup {j}
                 /\ Continue(j, 1)
              \/ files' = files /\ j \in Faulty
<1>1. program[j] # <<>> /\ Head1(j).do = "write"
      /\ Kind[j] \in {"save", "update", "store", "add"}
  BY KindsDoing DEF Write, At
<1>2. fd[j] \in 1 .. Len(files) /\ files[fd[j]] \in Seq(Version)
      /\ files \in Seq(Seq(Version))
  BY <1>1, FilesAre DEF HasOpen, Doing
<1>3. CASE /\ files' = [files EXCEPT ![fd[j]] = Overlay(@, [k \in 1 .. Size[j] |-> j])]
           /\ Continue(j, 1)
  <2> DEFINE d == Overlay(files[fd[j]], Written(j))
  <2>1. files' = [files EXCEPT ![fd[j]] = d]
    BY <1>3 DEF Written
  <2>2. d \in Seq(Version) /\ ToSet(d) \subseteq ToSet(files[fd[j]]) \cup {j}
    BY <1>2, WrittenIs, OverlayIs
  <2> HIDE DEF d
  <2>3. /\ files' \in Seq(Seq(Version)) /\ Len(files') = Len(files) /\ files'[fd[j]] = d
        /\ \A f \in 1 .. Len(files) : f # fd[j] => files'[f] = files[f]
    BY <1>2, <2>1, <2>2, ExceptIs
  <2> QED
    BY <1>1, <1>2, <1>3, <2>1, <2>2, <2>3 DEF d
<1>4. CASE files' = files /\ j \in Faulty
  BY <1>1, <1>2, <1>4
<1> QED
  BY <1>3, <1>4 DEF Write

LEMMA PourEffect ==
    ASSUME TypeOK, MoreTypes, Programs, HasOpen, NEW j \in Job, Pour(j)
    PROVE  /\ program[j] # <<>> /\ Head1(j).do = "pour" /\ Kind[j] \in {"copy", "move"}
           /\ fd[j] \in 1 .. Len(files) /\ out[j] \in 1 .. Len(files)
           /\ files' = [files EXCEPT ![out[j]] = Overlay(files[out[j]], files[fd[j]])]
           /\ files' \in Seq(Seq(Version)) /\ Len(files') = Len(files)
           /\ files'[out[j]] = Overlay(files[out[j]], files[fd[j]])
           /\ \A f \in 1 .. Len(files) : f # out[j] => files'[f] = files[f]
           /\ ToSet(files'[out[j]]) \subseteq ToSet(files[out[j]]) \cup ToSet(files[fd[j]])
           /\ Continue(j, 1)
<1>1. program[j] # <<>> /\ Head1(j).do = "pour" /\ Kind[j] \in {"copy", "move"}
  BY KindsDoing DEF Pour, At
<1>2. /\ fd[j] \in 1 .. Len(files) /\ out[j] \in 1 .. Len(files)
      /\ files[fd[j]] \in Seq(Version) /\ files[out[j]] \in Seq(Version)
      /\ files \in Seq(Seq(Version))
  BY <1>1, FilesAre DEF HasOpen, Doing
<1> DEFINE d == Overlay(files[out[j]], files[fd[j]])
<1>3. files' = [files EXCEPT ![out[j]] = d] /\ Continue(j, 1)
  BY DEF Pour
<1>4. d \in Seq(Version) /\ ToSet(d) \subseteq ToSet(files[out[j]]) \cup ToSet(files[fd[j]])
  BY <1>2, OverlayIs
<1> HIDE DEF d
<1>5. /\ files' \in Seq(Seq(Version)) /\ Len(files') = Len(files) /\ files'[out[j]] = d
      /\ \A f \in 1 .. Len(files) : f # out[j] => files'[f] = files[f]
  BY <1>2, <1>3, <1>4, ExceptIs
<1> QED
  BY <1>1, <1>2, <1>3, <1>4, <1>5 DEF d

\* Truncate either throws or opens the file of its name for writing.
LEMMA TruncateEffect ==
    ASSUME TypeOK, MoreTypes, Programs, NEW j \in Job, Truncate(j)
    PROVE  /\ program[j] # <<>> /\ Head1(j).do = "truncate"
           /\ Kind[j] \in {"save", "update", "store", "add"}
           /\ Head1(j).in = PlaceOf(j) /\ PlaceOf(j) \in Places
           /\ \/ /\ Throw(j, "no_space") /\ UNCHANGED <<files, entry, fd, len>>
                 /\ PlaceOf(j) = "db"
              \/ /\ Opened(PlaceOf(j), Of[j])
                 /\ fd' = [fd EXCEPT ![j] = Opens(PlaceOf(j), Of[j])]
                 /\ len' = [len EXCEPT ![j] = Size[j]]
                 /\ Continue(j, 1)
                 /\ program'[j] # <<>> /\ Head(program'[j]).do = "write"
<1>1. program[j] # <<>> /\ Head1(j).do = "truncate"
      /\ Kind[j] \in {"save", "update", "store", "add"}
  BY KindsDoing DEF Truncate, At
<1>2. Head1(j).in = PlaceOf(j) /\ PlaceOf(j) \in Places
  BY <1>1, FirstStep DEF Fits, PlaceOf, Places
<1>3. ASSUME Continue(j, 1)
      PROVE  program'[j] # <<>> /\ Head(program'[j]).do = "write"
  <2>1. After(j, Head1(j).do) = {"write"}
    BY <1>1 DEF After
  <2> QED
    BY <1>1, <1>3, <2>1, ContinuedOne
<1> QED
  BY <1>1, <1>2, <1>3 DEF Truncate, fileVars

LEMMA DuplicateEffect ==
    ASSUME TypeOK, MoreTypes, Programs, NEW j \in Job, Duplicate(j)
    PROVE  /\ program[j] # <<>> /\ Head1(j).do = "duplicate" /\ Kind[j] \in {"copy", "move"}
           /\ Head1(j).in = PlaceOf(j) /\ PlaceOf(j) \in Places /\ "db" \in Places
           /\ Head1(j).of \in Uuid /\ CopyName(j) \in Uuid
           /\ Kind[j] = "copy" => Head1(j).of = Of[j] /\ CopyName(j) = Target[j]
           /\ Kind[j] = "move" => CopyName(j) = Head1(j).of
           /\ \/ /\ File(j) = 0 /\ Throw(j, "failed") /\ UNCHANGED <<files, entry, fd, out>>
              \/ /\ File(j) # 0 /\ Opened("db", CopyName(j))
                 /\ fd' = [fd EXCEPT ![j] = File(j)]
                 /\ out' = [out EXCEPT ![j] = Opens("db", CopyName(j))]
                 /\ Continue(j, 1)
                 /\ program'[j] # <<>> /\ Head(program'[j]).do = "pour"
<1>1. program[j] # <<>> /\ Head1(j).do = "duplicate" /\ Kind[j] \in {"copy", "move"}
  BY KindsDoing DEF Duplicate, At
<1>2. /\ Head1(j).in = PlaceOf(j) /\ PlaceOf(j) \in Places /\ "db" \in Places
      /\ Head1(j) \in Steps
      /\ Kind[j] # "move" => Head1(j).of = Of[j]
  BY <1>1, FirstStep DEF Fits, PlaceOf, Places
<1>3. Head1(j).of \in Uuid /\ Target[j] \in Uuid
  BY <1>2, JobAssumption DEF Steps
<1>4. ASSUME Continue(j, 1)
      PROVE  program'[j] # <<>> /\ Head(program'[j]).do = "pour"
  <2>1. After(j, Head1(j).do) = {"pour"}
    BY <1>1 DEF After
  <2> QED
    BY <1>1, <1>4, <2>1, ContinuedOne
<1> QED
  BY <1>1, <1>2, <1>3, <1>4 DEF Duplicate, fileVars, CopyName

LEMMA OpenEffect ==
    ASSUME TypeOK, MoreTypes, Programs, NEW j \in Job, Open(j)
    PROVE  /\ program[j] # <<>> /\ Head1(j).do = "open" /\ Reads(j)
           /\ Head1(j).of = Of[j] /\ Head1(j).in \in Places
           /\ \/ /\ File(j) = 0 /\ Throw(j, "failed") /\ fd' = fd
              \/ /\ File(j) # 0 /\ fd' = [fd EXCEPT ![j] = File(j)]
                 /\ Continue(j, 1)
                 /\ program'[j] # <<>> /\ Head(program'[j]).do = "measure"
<1>1. program[j] # <<>> /\ Head1(j).do = "open" /\ Reads(j)
  BY KindsDoing DEF Open, At
<1>2. Head1(j).of = Of[j] /\ Head1(j).in \in Places
  BY <1>1, FirstStep DEF Fits, Steps, Reads
<1>3. ASSUME Continue(j, 1)
      PROVE  program'[j] # <<>> /\ Head(program'[j]).do = "measure"
  <2>1. After(j, Head1(j).do) = {"measure"}
    BY <1>1 DEF After
  <2> QED
    BY <1>1, <1>3, <2>1, ContinuedOne
<1> QED
  BY <1>1, <1>2, <1>3 DEF Open

LEMMA TwiceExcept ==
    ASSUME NEW A, NEW B, NEW C, NEW f \in [A -> [B -> C]],
           NEW a \in A, NEW b \in B, NEW c \in C
    PROVE  /\ [f EXCEPT ![a][b] = c] \in [A -> [B -> C]]
           /\ [f EXCEPT ![a][b] = c][a][b] = c
           /\ \A x \in A, y \in B : <<x, y>> # <<a, b>> =>
                 [f EXCEPT ![a][b] = c][x][y] = f[x][y]
OBVIOUS

\* What removing a file does.
LEMMA RemoveEffect ==
    ASSUME TypeOK, MoreTypes, Programs, NEW j \in Job, RemoveFile(j)
    PROVE  /\ program[j] # <<>> /\ Head1(j).do = "remove"
           /\ Kind[j] \in {"del", "delUuids", "delete", "uncache", "move", "cleanup"}
           /\ Head1(j).in \in Places /\ Head1(j).of \in Uuid
           /\ Kind[j] \notin {"move", "cleanup"} => Head1(j).of = Of[j]
           /\ \/ /\ File(j) = 0 /\ Throw(j, "failed") /\ entry' = entry
              \/ /\ File(j) # 0 /\ Continue(j, 1)
                 /\ entry' = [entry EXCEPT ![Head1(j).in][Head1(j).of] = 0]
                 /\ entry' \in [Places -> [Uuid -> FileNo]]
                 /\ entry'[Head1(j).in][Head1(j).of] = 0
                 /\ \A p \in Places, u \in Uuid :
                       <<p, u>> # <<Head1(j).in, Head1(j).of>> =>
                          entry'[p][u] = entry[p][u]
<1>1. program[j] # <<>> /\ Head1(j).do = "remove"
      /\ Kind[j] \in {"del", "delUuids", "delete", "uncache", "move", "cleanup"}
  BY KindsDoing DEF RemoveFile, At
<1>2. /\ Head1(j).in \in Places /\ Head1(j).of \in Uuid
      /\ Kind[j] \notin {"move", "cleanup"} => Head1(j).of = Of[j]
  BY <1>1, FirstStep DEF Fits, Steps
<1>3. entry \in [Places -> [Uuid -> FileNo]] /\ 0 \in FileNo
  BY FilesAre DEF TypeOK, FileNo
<1> DEFINE p1 == Head1(j).in
           u1 == Head1(j).of
<1>4. CASE File(j) = 0
  BY <1>1, <1>2, <1>4 DEF RemoveFile
<1>5. CASE File(j) # 0
  <2>1. entry' = [entry EXCEPT ![p1][u1] = 0] /\ Continue(j, 1)
    BY <1>5 DEF RemoveFile
  <2>2. p1 \in Places /\ u1 \in Uuid
    BY <1>2
  <2> HIDE DEF p1, u1
  <2>3. /\ entry' \in [Places -> [Uuid -> FileNo]] /\ entry'[p1][u1] = 0
        /\ \A p \in Places, u \in Uuid : <<p, u>> # <<p1, u1>> => entry'[p][u] = entry[p][u]
    BY <1>3, <2>1, <2>2, TwiceExcept
  <2> QED
    BY <1>1, <1>2, <1>5, <2>1, <2>3 DEF p1, u1
<1> QED
  BY <1>4, <1>5

-----------------------------------------------------------------------------
(* The types *)

LEMMA FileTypes ==
    ASSUME TypeOK, MoreTypes, Programs, HasOpen, NEW j \in Job, Work(j)
    PROVE  /\ files' \in Seq(Seq(Version)) /\ Len(files') \in Nat
           /\ Len(files) <= Len(files')
           /\ entry' \in [Places -> [Uuid -> FileNo']]
           /\ fd' \in [Job -> FileNo'] /\ out' \in [Job -> FileNo']
           /\ \A i \in Job \ {j} : fd'[i] = fd[i] /\ out'[i] = out[i]
<1>0. /\ files \in Seq(Seq(Version)) /\ Len(files) \in Nat
      /\ entry \in [Places -> [Uuid -> FileNo]]
      /\ fd \in [Job -> FileNo] /\ out \in [Job -> FileNo]
  BY FilesAre DEF TypeOK
<1>1. CASE Truncate(j)
  <2>1. out' = out
    BY <1>1 DEF Truncate
  <2>2. CASE UNCHANGED <<files, entry, fd, len>>
    BY <1>0, <2>1, <2>2 DEF FileNo
  <2>3. CASE /\ Opened(PlaceOf(j), Of[j]) /\ PlaceOf(j) \in Places
             /\ fd' = [fd EXCEPT ![j] = Opens(PlaceOf(j), Of[j])]
    <3>1. /\ files' \in Seq(Seq(Version)) /\ Len(files') \in Nat
          /\ Len(files) <= Len(files') /\ entry' \in [Places -> [Uuid -> 0 .. Len(files')]]
          /\ Opens(PlaceOf(j), Of[j]) \in 1 .. Len(files')
      BY <2>3, OpenedEffect, KindIs
    <3>2. fd' \in [Job -> 0 .. Len(files')] /\ out' \in [Job -> 0 .. Len(files')]
          /\ \A i \in Job \ {j} : fd'[i] = fd[i]
      BY <1>0, <2>1, <2>3, <3>1 DEF FileNo
    <3> QED
      BY <2>1, <3>1, <3>2 DEF FileNo
  <2> QED
    BY <1>1, <2>2, <2>3, TruncateEffect
<1>2. CASE Duplicate(j)
  <2>1. CASE UNCHANGED <<files, entry, fd, out>>
    BY <1>0, <2>1 DEF FileNo
  <2>2. CASE /\ Opened("db", CopyName(j))
             /\ fd' = [fd EXCEPT ![j] = File(j)]
             /\ out' = [out EXCEPT ![j] = Opens("db", CopyName(j))]
    <3>0. "db" \in Places /\ CopyName(j) \in Uuid
      BY <1>2, DuplicateEffect
    <3>1. /\ files' \in Seq(Seq(Version)) /\ Len(files') \in Nat
          /\ Len(files) <= Len(files') /\ entry' \in [Places -> [Uuid -> 0 .. Len(files')]]
          /\ Opens("db", CopyName(j)) \in 1 .. Len(files')
      BY <2>2, <3>0, OpenedEffect
    <3>2. File(j) \in 0 .. Len(files)
      BY <1>2, DuplicateEffect, FilesAre DEF File
    <3>3. fd' \in [Job -> 0 .. Len(files')] /\ out' \in [Job -> 0 .. Len(files')]
          /\ \A i \in Job \ {j} : fd'[i] = fd[i] /\ out'[i] = out[i]
      BY <1>0, <2>2, <3>1, <3>2 DEF FileNo
    <3> QED
      BY <3>1, <3>3 DEF FileNo
  <2> QED
    BY <1>2, <2>1, <2>2, DuplicateEffect
<1>3. CASE ~ Truncate(j) /\ ~ Duplicate(j)
  <2>1. out' = out
    BY <1>3, WorkFrames
  <2>2. files' \in Seq(Seq(Version)) /\ Len(files') = Len(files)
    BY <1>0, <1>3, WorkFrames, WriteEffect, PourEffect
  <2>3. FileNo' = FileNo
    BY <2>2 DEF FileNo
  <2>4. entry' \in [Places -> [Uuid -> FileNo]]
    <3>1. CASE RemoveFile(j)
      BY <1>0, <3>1, RemoveEffect
    <3> QED
      BY <1>0, <1>3, <3>1, WorkFrames
  <2>5. fd' \in [Job -> FileNo] /\ \A i \in Job \ {j} : fd'[i] = fd[i]
    <3>1. CASE Open(j)
      <4>1. fd' = fd \/ fd' = [fd EXCEPT ![j] = File(j)]
        BY <3>1 DEF Open
      <4>2. File(j) \in FileNo
        BY <3>1, OpenEffect, FilesAre, KindIs DEF File, FileNo
      <4> QED
        BY <1>0, <4>1, <4>2
    <3> QED
      BY <1>0, <1>3, <3>1, WorkFrames
  <2> QED
    BY <1>0, <2>1, <2>2, <2>3, <2>4, <2>5
<1> QED
  BY <1>1, <1>2, <1>3

LEMMA SizeTypes ==
    ASSUME TypeOK, MoreTypes, Programs, NEW j \in Job, Work(j)
    PROVE  size' \in [Places -> 0 .. Word - 1]
<1>0. Word \in Nat \ {0} /\ size \in [Places -> 0 .. Word - 1] /\ len \in [Job -> Nat]
  BY LimitAssumption DEF TypeOK
<1>1. ASSUME NEW n \in Int
      PROVE  n % Word \in 0 .. Word - 1
  BY <1>0
<1>2. CASE Count(j)
  <2>1. size' = [size EXCEPT ![Head1(j).in] = (@ + len[j]) % Word]
    BY <1>2 DEF Count
  <2>2. program[j] # <<>>
    BY <1>2 DEF Count, At
  <2>3. Head1(j).in \in Places
    BY <2>2, FirstStep DEF Steps
  <2>4. (size[Head1(j).in] + len[j]) % Word \in 0 .. Word - 1
    <3>1. size[Head1(j).in] + len[j] \in Int
      BY <1>0, <2>3
    <3> QED
      BY <1>1, <3>1
  <2> QED
    BY <1>0, <2>1, <2>4
<1>3. CASE Shrink(j) /\ File(j) # 0
  <2>1. size' = [size EXCEPT ![Head1(j).in] = (@ - Len(files[File(j)])) % Word]
    BY <1>3 DEF Shrink
  <2>2. program[j] # <<>>
    BY <1>3 DEF Shrink, At
  <2>3. Head1(j).in \in Places /\ Head1(j).of \in Uuid
    BY <2>2, FirstStep DEF Steps
  <2>4. files[File(j)] \in Seq(Version)
    BY <1>3, <2>3, FilesAre DEF File
  <2>5. (size[Head1(j).in] - Len(files[File(j)])) % Word \in 0 .. Word - 1
    <3>1. size[Head1(j).in] - Len(files[File(j)]) \in Int
      BY <1>0, <2>3, <2>4
    <3> QED
      BY <1>1, <3>1
  <2> QED
    BY <1>0, <2>1, <2>5
<1>4. CASE Shrink(j) /\ File(j) = 0
  BY <1>0, <1>4 DEF Shrink
<1>5. CASE Reset(j)
  <2>1. size' = [size EXCEPT !["cache"] = 0]
    BY <1>5 DEF Reset
  <2>2. 0 \in 0 .. Word - 1
    BY <1>0
  <2> QED
    BY <1>0, <2>1, <2>2
<1> QED
  BY <1>0, <1>2, <1>3, <1>4, <1>5, WorkFrames

LEMMA LenTypes ==
    ASSUME TypeOK, MoreTypes, Programs, HasOpen, NEW j \in Job, Work(j)
    PROVE  len' \in [Job -> Nat] /\ \A i \in Job \ {j} : len'[i] = len[i]
<1>0. len \in [Job -> Nat] /\ Size[j] \in Nat
  BY JobAssumption DEF TypeOK
<1>1. CASE Measure(j)
  <2>1. len' = [len EXCEPT ![j] = Len(files[fd[j]])]
    BY <1>1 DEF Measure
  <2>2. fd[j] \in 1 .. Len(files)
    BY <1>1, FilesAre DEF Measure, At, HasOpen, Doing
  <2>3. Len(files[fd[j]]) \in Nat
    BY <2>2, FilesAre
  <2> QED
    BY <1>0, <2>1, <2>3
<1>2. CASE Truncate(j)
  <2>1. len' = len \/ len' = [len EXCEPT ![j] = Size[j]]
    BY <1>2 DEF Truncate
  <2> QED
    BY <1>0, <2>1
<1>3. CASE Weigh(j)
  <2>1. \/ len' = len
        \/ /\ File(j) # 0
           /\ len' = [len EXCEPT ![j] = Len(files[File(j)])]
    BY <1>3 DEF Weigh
  <2>2. program[j] # <<>>
    BY <1>3 DEF Weigh, At
  <2>3. Head1(j).in \in Places /\ Head1(j).of \in Uuid
    BY <2>2, FirstStep DEF Steps
  <2>4. File(j) # 0 => Len(files[File(j)]) \in Nat
    BY <2>3, FilesAre DEF File
  <2> QED
    BY <1>0, <2>1, <2>4
<1> QED
  BY <1>0, <1>1, <1>2, <1>3, WorkFrames

\* What a get has in its buffer after the read.
Buffer(j) ==
    [k \in 1 .. len[j] |-> IF k <= Len(files[fd[j]]) THEN files[fd[j]][k] ELSE Garbage]

LEMMA LoadEffect ==
    ASSUME TypeOK, MoreTypes, Programs, HasOpen, NEW j \in Job, Load(j)
    PROVE  /\ program[j] # <<>> /\ Head1(j).do = "load" /\ Reads(j)
           /\ fd[j] \in 1 .. Len(files)
           /\ Buffer(j) \in Seq(Version)
           /\ ToSet(Buffer(j)) \subseteq ToSet(files[fd[j]]) \cup {Garbage}
           /\ len[j] = Len(files[fd[j]]) => Buffer(j) = files[fd[j]]
           /\ data' = [data EXCEPT ![j] = Buffer(j)]
           /\ Continue(j, 1)
<1>1. program[j] # <<>> /\ Head1(j).do = "load" /\ Reads(j)
  BY KindsDoing DEF Load, At
<1>2. fd[j] \in 1 .. Len(files) /\ files[fd[j]] \in Seq(Version) /\ len[j] \in Nat
  BY <1>1, FilesAre DEF HasOpen, Doing, TypeOK
<1>3. data' = [data EXCEPT ![j] = Buffer(j)] /\ Continue(j, 1)
  BY DEF Load, Buffer
<1> DEFINE s == files[fd[j]]
<1>4. Len(s) \in Nat /\ \A k \in 1 .. Len(s) : s[k] \in Version
  BY <1>2
<1>5. \A k \in 1 .. len[j] : Buffer(j)[k] = IF k <= Len(s) THEN s[k] ELSE Garbage
  BY DEF Buffer
<1>6. \A k \in 1 .. len[j] : Buffer(j)[k] \in Version
                              /\ Buffer(j)[k] \in ToSet(s) \cup {Garbage}
  <2> SUFFICES ASSUME NEW k \in 1 .. len[j]
               PROVE  /\ Buffer(j)[k] \in Version
                      /\ Buffer(j)[k] \in ToSet(s) \cup {Garbage}
    OBVIOUS
  <2>1. CASE k <= Len(s)
    <3>1. k \in 1 .. Len(s) /\ Buffer(j)[k] = s[k]
      BY <1>2, <1>4, <1>5, <2>1
    <3> QED
      BY <1>4, <3>1 DEF ToSet
  <2>2. CASE ~ (k <= Len(s))
    BY <1>5, <2>2 DEF Version
  <2> QED
    BY <2>1, <2>2
<1>7. Buffer(j) \in [1 .. len[j] -> Version]
  BY <1>6 DEF Buffer
<1>8. Buffer(j) \in Seq(Version) /\ Len(Buffer(j)) = len[j]
  BY <1>2, <1>7
<1>9. ToSet(Buffer(j)) \subseteq ToSet(s) \cup {Garbage}
  BY <1>6, <1>7 DEF ToSet
<1>10. len[j] = Len(s) => Buffer(j) = s
  <2> SUFFICES ASSUME len[j] = Len(s) PROVE Buffer(j) = s
    OBVIOUS
  <2>1. \A k \in 1 .. Len(s) : Buffer(j)[k] = s[k]
    BY <1>4, <1>5
  <2> QED
    BY <1>2, <1>8, <2>1, SeqEqual
<1> QED
  BY <1>1, <1>2, <1>3, <1>8, <1>9, <1>10
-----------------------------------------------------------------------------
(* Which step a job does *)

LEMMA WorkAt ==
    ASSUME NEW j \in Job, Work(j)
    PROVE  /\ program[j] # <<>> /\ ~crashed
           /\ \/ ChoosePlace(j) /\ Head1(j).do = "choose"
              \/ Open(j) /\ Head1(j).do = "open"
              \/ Measure(j) /\ Head1(j).do = "measure"
              \/ Load(j) /\ Head1(j).do = "load"
              \/ Exists(j) /\ Head1(j).do = "exists"
              \/ Found(j) /\ Head1(j).do = "found"
              \/ Truncate(j) /\ Head1(j).do = "truncate"
              \/ Write(j) /\ Head1(j).do = "write"
              \/ Count(j) /\ Head1(j).do = "count"
              \/ Shrink(j) /\ Head1(j).do = "shrink"
              \/ RemoveFile(j) /\ Head1(j).do = "remove"
              \/ Weigh(j) /\ Head1(j).do = "weigh"
              \/ Duplicate(j) /\ Head1(j).do = "duplicate"
              \/ Pour(j) /\ Head1(j).do = "pour"
              \/ List(j) /\ Head1(j).do = "list"
              \/ Reset(j) /\ Head1(j).do = "reset"
              \/ Tell(j) /\ Head1(j).do = "tell"
              \/ Fill(j) /\ Head1(j).do = "fill"
              \/ Commit(j) /\ Head1(j).do = "commit"
              \/ Trim(j) /\ Head1(j).do \in {"expire", "trim"}
<1>1. ChoosePlace(j) => At(j, "choose")
  BY DEF ChoosePlace
<1>2. Open(j) => At(j, "open")
  BY DEF Open
<1>3. Measure(j) => At(j, "measure")
  BY DEF Measure
<1>4. Load(j) => At(j, "load")
  BY DEF Load
<1>5. Exists(j) => At(j, "exists")
  BY DEF Exists
<1>6. Found(j) => At(j, "found")
  BY DEF Found
<1>7. Truncate(j) => At(j, "truncate")
  BY DEF Truncate
<1>8. Write(j) => At(j, "write")
  BY DEF Write
<1>9. Count(j) => At(j, "count")
  BY DEF Count
<1>10. Shrink(j) => At(j, "shrink")
  BY DEF Shrink
<1>11. RemoveFile(j) => At(j, "remove")
  BY DEF RemoveFile
<1>12. Weigh(j) => At(j, "weigh")
  BY DEF Weigh
<1>13. Duplicate(j) => At(j, "duplicate")
  BY DEF Duplicate
<1>14. Pour(j) => At(j, "pour")
  BY DEF Pour
<1>15. List(j) => At(j, "list")
  BY DEF List
<1>16. Reset(j) => At(j, "reset")
  BY DEF Reset
<1>17. Tell(j) => At(j, "tell")
  BY DEF Tell
<1>18. Fill(j) => At(j, "fill")
  BY DEF Fill
<1>19. Commit(j) => At(j, "commit")
  BY DEF Commit
<1>20. Trim(j) => At(j, "expire") \/ At(j, "trim")
  BY DEF Trim
<1> QED
  BY <1>1, <1>2, <1>3, <1>4, <1>5, <1>6, <1>7, <1>8, <1>9, <1>10, <1>11,
     <1>12, <1>13, <1>14, <1>15, <1>16, <1>17, <1>18, <1>19, <1>20 DEF Work, At

\* The step that a job is going to do is the one it does.
LEMMA WorkDoes ==
    ASSUME NEW j \in Job, Work(j)
    PROVE  /\ program[j] # <<>>
           /\ Head1(j).do = "choose" => ChoosePlace(j)
           /\ Head1(j).do = "open" => Open(j)
           /\ Head1(j).do = "measure" => Measure(j)
           /\ Head1(j).do = "load" => Load(j)
           /\ Head1(j).do = "exists" => Exists(j)
           /\ Head1(j).do = "shrink" => Shrink(j)
           /\ Head1(j).do = "truncate" => Truncate(j)
           /\ Head1(j).do = "write" => Write(j)
           /\ Head1(j).do = "count" => Count(j)
           /\ Head1(j).do = "duplicate" => Duplicate(j)
           /\ Head1(j).do = "pour" => Pour(j)
           /\ Head1(j).do = "fill" => Fill(j)
           /\ Head1(j).do = "commit" => Commit(j)
           /\ Head1(j).do = "tell" => Tell(j)
BY WorkAt

-----------------------------------------------------------------------------
(* Answers *)

LEMMA AnswerIs ==
    ASSUME TypeOK, MoreTypes, NEW j \in Job
    PROVE  Answer(j) \in Replies
BY DEF TypeOK, MoreTypes, Answer, Replies

\* A job that answers has ended, and its answer is its own.
LEMMA AnswerEffect ==
    ASSUME TypeOK, MoreTypes, Programs, Locked, NEW j \in Job, Tell(j) \/ Commit(j)
    PROVE  /\ answers' = [answers EXCEPT ![j] = Append(answers[j], Answer(j))]
           /\ Continue(j, 1) /\ program[j] # <<>> /\ program'[j] = <<>>
           /\ data' = data /\ result' = result
<1>1. Continue(j, 1) /\ program[j] # <<>> /\ Head1(j).do \in {"tell", "commit"}
      /\ data' = data
  BY DEF Tell, Commit, At, localVars
<1>2. program'[j] = <<>> /\ result' = result
  <2>1. After(j, Head1(j).do) = {"end"}
    BY <1>1 DEF After
  <2>2. Moved(j) /\ result' = result
        /\ (program'[j] # <<>> => Head(program'[j]).do = "end")
    BY <1>1, <2>1, ContinuedOne
  <2>3. ASSUME program'[j] # <<>> PROVE Head(program'[j]).do \in Does[Kind[j]]
    <3>1. IsProgram(j, program'[j]) /\ program'[j] \in Seq(Steps)
      BY <2>2 DEF Moved, IsProgram, IsPart
    <3>2. 1 \in 1 .. Len(program'[j]) /\ Head(program'[j]) = program'[j][1]
      BY <2>3, <3>1
    <3> QED
      BY <3>1, <3>2, NextStep DEF Fits
  <2>4. "end" \notin Does[Kind[j]]
    BY KindIs DEF Does, Kinds
  <2> QED
    BY <2>2, <2>3, <2>4
<1>3. CASE Tell(j)
  BY <1>1, <1>2, <1>3 DEF Tell
<1>4. CASE Commit(j)
  <2>1. Doing(j, "commit")
    BY <1>1, <1>4 DEF Commit, At, Doing
  <2>2. slot[Instance(j)] = <<j, Answer(j)>>
    BY <2>1 DEF Locked
  <2>3. answers' = [answers EXCEPT ![j] = Append(@, Answer(j))]
    BY <1>4, <2>2 DEF Commit
  <2> QED
    BY <1>1, <1>2, <2>3
<1> QED
  BY <1>3, <1>4

LEMMA FillEffect ==
    ASSUME TypeOK, MoreTypes, Programs, NEW j \in Job, Fill(j)
    PROVE  /\ slot' = [slot EXCEPT ![Instance(j)] = <<j, Answer(j)>>]
           /\ slot' \in [{"storage", "writer"} -> {<<>>} \cup (Job \X Replies)]
           /\ slot'[Instance(j)] = <<j, Answer(j)>>
           /\ \A t : t # Instance(j) => slot'[t] = slot[t]
           /\ data' = data /\ result' = result /\ Head1(j).do = "fill"
<1>1. slot' = [slot EXCEPT ![Instance(j)] = <<j, Answer(j)>>] /\ data' = data
      /\ result' = result /\ Head1(j).do = "fill"
  BY DEF Fill, localVars, Continue, At
<1>2. slot \in [{"storage", "writer"} -> {<<>>} \cup (Job \X Replies)]
  BY DEF MoreTypes
<1>3. Instance(j) \in {"storage", "writer"}
  BY DEF Instance
<1>4. <<j, Answer(j)>> \in Job \X Replies
  BY AnswerIs
<1> HIDE DEF Instance, Answer
<1>5. slot' \in [{"storage", "writer"} -> {<<>>} \cup (Job \X Replies)]
  BY <1>1, <1>2, <1>3, <1>4
<1> QED
  BY <1>1, <1>2, <1>3, <1>5

\* A step changes nothing that belongs to another job.
LEMMA WorkOwn ==
    ASSUME TypeOK, MoreTypes, Programs, Locked, HasOpen, NEW j \in Job, Work(j)
    PROVE  /\ answers' \in [Job -> Seq(Replies)] /\ data' \in [Job -> Seq(Version)]
           /\ \A i \in Job \ {j} :
                /\ program'[i] = program[i] /\ result'[i] = result[i]
                /\ answers'[i] = answers[i] /\ data'[i] = data[i]
                /\ fd'[i] = fd[i] /\ out'[i] = out[i] /\ len'[i] = len[i]
                /\ Answer(i)' = Answer(i)
<1>1. \A i \in Job \ {j} : program'[i] = program[i] /\ result'[i] = result[i]
  BY WorkMoves DEF Moved, OwnResult
<1>2. /\ answers' \in [Job -> Seq(Replies)]
      /\ \A i \in Job \ {j} : answers'[i] = answers[i]
  <2>1. answers \in [Job -> Seq(Replies)] /\ Answer(j) \in Replies
    BY AnswerIs DEF MoreTypes
  <2>2. Append(answers[j], Answer(j)) \in Seq(Replies)
    BY <2>1
  <2>3. CASE Tell(j) \/ Commit(j)
    BY <2>1, <2>2, <2>3, AnswerEffect
  <2>4. CASE answers' = answers
    BY <2>1, <2>4
  <2> QED
    BY <2>3, <2>4, WorkFrames
<1>3. /\ data' \in [Job -> Seq(Version)]
      /\ \A i \in Job \ {j} : data'[i] = data[i]
  <2>1. data \in [Job -> Seq(Version)]
    BY DEF TypeOK
  <2>2. CASE Load(j)
    <3>1. data' = [data EXCEPT ![j] = Buffer(j)] /\ Buffer(j) \in Seq(Version)
      BY <2>2, LoadEffect
    <3> QED
      BY <2>1, <3>1
  <2> QED
    BY <2>1, <2>2, WorkFrames
<1> QED
  BY <1>1, <1>2, <1>3, FileTypes, LenTypes DEF Answer

LEMMA WorkCrashes ==
    ASSUME TypeOK, MoreTypes, Programs, NEW j \in Job, Work(j)
    PROVE  crashed' \in BOOLEAN
<1>0. crashed \in BOOLEAN
  BY DEF TypeOK
<1>a. ASSUME NEW n, Continue(j, n)
      PROVE  crashed' \in BOOLEAN
  BY <1>0, <1>a DEF Continue
<1>b. ASSUME NEW why, Throw(j, why)
      PROVE  crashed' \in BOOLEAN
  BY <1>b DEF Throw
<1>1. CASE ChoosePlace(j)
  BY <1>0, <1>b, <1>1 DEF ChoosePlace
<1>2. CASE Open(j)
  BY <1>a, <1>b, <1>2 DEF Open
<1>3. CASE Measure(j)
  BY <1>a, <1>3 DEF Measure
<1>4. CASE Load(j)
  BY <1>a, <1>4 DEF Load
<1>5. CASE Exists(j)
  BY <1>a, <1>5 DEF Exists
<1>6. CASE Found(j)
  BY <1>0, <1>a, <1>6 DEF Found
<1>7. CASE Truncate(j)
  BY <1>a, <1>b, <1>7 DEF Truncate
<1>8. CASE Write(j)
  BY <1>a, <1>b, <1>8 DEF Write
<1>9. CASE Count(j)
  BY <1>a, <1>9 DEF Count
<1>10. CASE Shrink(j)
  BY <1>a, <1>b, <1>10 DEF Shrink
<1>11. CASE RemoveFile(j)
  BY <1>a, <1>b, <1>11 DEF RemoveFile
<1>12. CASE Weigh(j)
  BY <1>a, <1>b, <1>12 DEF Weigh
<1>13. CASE Duplicate(j)
  BY <1>a, <1>b, <1>13 DEF Duplicate
<1>14. CASE Pour(j)
  BY <1>a, <1>14 DEF Pour
<1>15. CASE List(j)
  BY <1>0, <1>15 DEF List
<1>16. CASE Reset(j)
  BY <1>a, <1>16 DEF Reset
<1>17. CASE Tell(j)
  BY <1>a, <1>17 DEF Tell
<1>18. CASE Fill(j)
  BY <1>a, <1>18 DEF Fill
<1>19. CASE Commit(j)
  BY <1>a, <1>19 DEF Commit
<1>20. CASE Trim(j)
  BY <1>a, <1>20 DEF Trim
<1> QED
  BY <1>1, <1>2, <1>3, <1>4, <1>5, <1>6, <1>7, <1>8, <1>9, <1>10, <1>11,
     <1>12, <1>13, <1>14, <1>15, <1>16, <1>17, <1>18, <1>19, <1>20 DEF Work

-----------------------------------------------------------------------------
(* The types, the programs and the answers after a step of a job *)

LEMMA WorkTypes ==
    ASSUME TypeOK, MoreTypes, Programs, Locked, HasOpen, NEW j \in Job, Work(j)
    PROVE  TypeOK' /\ MoreTypes' /\ Programs'
<1>1. Moved(j) /\ OwnResult(j)
  BY WorkMoves
<1>2. program' \in [Job -> Seq(Steps)] /\ result' \in [Job -> Results]
  BY <1>1 DEF Moved, OwnResult
<1>3. Programs'
  <2> SUFFICES ASSUME NEW i \in Job PROVE IsProgram(i, program'[i])
    BY DEF Programs, IsProgram, IsPart, Fits, After, PlaceOf, Follower
  <2> QED
    BY <1>1 DEF Moved, Programs
<1>4. MoreTypes'
  <2>1. slot' \in [{"storage", "writer"} -> {<<>>} \cup (Job \X Replies)]
    BY WorkFrames, FillEffect DEF MoreTypes
  <2> QED
    BY <1>2, <2>1, WorkOwn, WorkFrames DEF MoreTypes, Replies
<1>5. \A i \in Job : \A k \in DOMAIN program'[i] :
         program'[i][k].in \in Places /\ program'[i][k].of \in Uuid
  <2> SUFFICES ASSUME NEW i \in Job, NEW k \in DOMAIN program'[i]
               PROVE  program'[i][k].in \in Places /\ program'[i][k].of \in Uuid
    OBVIOUS
  <2>1. program'[i][k] \in Steps
    BY <1>2
  <2> QED
    BY <2>1 DEF Steps
<1>6. /\ started' \subseteq Job
      /\ met' \in [Job -> SUBSET Job] /\ before' \in [Job -> SUBSET Job]
  BY WorkFrames DEF TypeOK
<1> QED
  BY <1>3, <1>4, <1>5, <1>6, FileTypes, SizeTypes, LenTypes, WorkOwn, WorkCrashes
     DEF TypeOK

LEMMA WorkStarted ==
    ASSUME Answered, NEW j \in Job, Work(j)
    PROVE  j \in started /\ answers[j] = <<>> /\ program[j] # <<>>
<1>1. program[j] # <<>>
  BY WorkAt
<1> QED
  BY <1>1 DEF Answered

LEMMA WorkAnswered ==
    ASSUME TypeOK, MoreTypes, Programs, Answered, Locked, HasOpen, NEW j \in Job, Work(j)
    PROVE  Answered'
<1> SUFFICES ASSUME NEW i \in Job
             PROVE  /\ i \notin started' =>
                          /\ program'[i] = <<>> /\ answers'[i] = <<>> /\ data'[i] = <<>>
                          /\ fd'[i] = 0 /\ result'[i] = "none"
                    /\ Len(answers'[i]) <= 1
                    /\ answers'[i] # <<>> => program'[i] = <<>> /\ answers'[i][1] = Answer(i)'
  BY DEF Answered
<1>1. started' = started /\ j \in started /\ answers[j] = <<>> /\ program[j] # <<>>
  BY WorkFrames, WorkStarted
<1>2. CASE i # j
  <2>1. /\ program'[i] = program[i] /\ result'[i] = result[i]
        /\ answers'[i] = answers[i] /\ data'[i] = data[i]
        /\ fd'[i] = fd[i] /\ Answer(i)' = Answer(i)
    BY <1>2, WorkOwn
  <2>2. /\ i \notin started =>
              /\ program[i] = <<>> /\ answers[i] = <<>> /\ data[i] = <<>>
              /\ fd[i] = 0 /\ result[i] = "none"
        /\ Len(answers[i]) <= 1
        /\ answers[i] # <<>> => program[i] = <<>> /\ answers[i][1] = Answer(i)
    BY DEF Answered
  <2> QED
    BY <1>1, <2>1, <2>2
<1>3. CASE i = j /\ (Tell(j) \/ Commit(j))
  <2>1. /\ answers' = [answers EXCEPT ![j] = Append(answers[j], Answer(j))]
        /\ program'[j] = <<>> /\ Answer(j)' = Answer(j)
    BY <1>3, AnswerEffect DEF Answer
  <2>2. answers'[j] = Append(<<>>, Answer(j))
    BY <1>1, <2>1 DEF MoreTypes
  <2>3. Len(answers'[j]) = 1 /\ answers'[j][1] = Answer(j)
    BY <2>2
  <2> QED
    BY <1>1, <1>3, <2>1, <2>3
<1>4. CASE i = j /\ answers' = answers
  BY <1>1, <1>4
<1> QED
  BY <1>2, <1>3, <1>4, WorkFrames

LEMMA WorkLocked ==
    ASSUME TypeOK, MoreTypes, Programs, Answered, Locked, HasOpen, NEW j \in Job, Work(j)
    PROVE  Locked'
<1>1. ASSUME Doing(j, "commit")' PROVE Fill(j)
  <2>1. EntersFrom(Head1(j).do, "commit")
    BY <1>1, WorkMoves DEF Moved, Doing, Head1
  <2> QED
    BY <2>1, WorkDoes DEF EntersFrom
<1>2. \A i \in Job \ {j} : Doing(i, "commit")' <=> Doing(i, "commit")
  BY WorkOwn DEF Doing, Head1
<1>3. ASSUME Fill(j), NEW i \in Job \ {j}, Doing(i, "commit")
      PROVE  Instance(i) # Instance(j)
  <2>1. i \in Active /\ Head1(i).do = "commit"
    BY <1>3 DEF Active, Answered, Doing
  <2> QED
    BY <1>3, <2>1 DEF Fill, MutexFree
<1>4. \A i : Instance(i)' = Instance(i)
  BY DEF Instance
<1> SUFFICES ASSUME NEW i \in Job, Doing(i, "commit")'
             PROVE  /\ slot'[Instance(i)] = <<i, Answer(i)'>>
                    /\ \A k \in Job : Doing(k, "commit")' /\ Instance(i) = Instance(k) => i = k
  BY <1>4 DEF Locked
<1>5. CASE i = j
  <2>1. slot'[Instance(j)] = <<j, Answer(j)>> /\ Answer(j)' = Answer(j)
    BY <1>1, <1>5, FillEffect DEF Answer
  <2> QED
    BY <1>1, <1>2, <1>3, <1>5, <2>1
<1>6. CASE i # j
  <2>1. Doing(i, "commit") /\ Answer(i)' = Answer(i)
    BY <1>2, <1>6, WorkOwn
  <2>2. slot'[Instance(i)] = slot[Instance(i)]
    BY <1>3, <1>6, <2>1, WorkFrames, FillEffect
  <2>3. \A k \in Job : Doing(k, "commit")' /\ Instance(i) = Instance(k) => i = k
    BY <1>1, <1>2, <1>3, <1>6, <2>1 DEF Locked
  <2> QED
    BY <2>1, <2>2, <2>3 DEF Locked
<1> QED
  BY <1>5, <1>6

LEMMA WorkHasOpen ==
    ASSUME TypeOK, MoreTypes, Programs, Answered, Locked, HasOpen, NEW j \in Job, Work(j)
    PROVE  HasOpen'
<1>0. fd \in [Job -> FileNo] /\ out \in [Job -> FileNo] /\ Len(files) \in Nat
  BY FilesAre DEF TypeOK
<1>1. ASSUME NEW do \in {"measure", "load", "write", "pour"}, Doing(j, do)'
      PROVE  fd'[j] # 0 /\ (do = "pour" => out'[j] # 0)
  <2>0. program'[j] # <<>> /\ Head(program'[j]).do = do /\ EntersFrom(Head1(j).do, do)
    BY <1>1, WorkMoves DEF Moved, Doing, Head1
  <2>1. CASE do = "measure"
    <3>1. Open(j)
      BY <2>0, <2>1, WorkDoes DEF EntersFrom
    <3>2. ~ Throw(j, "failed")
      <4>1. Kind[j] # "move"
        BY <3>1, OpenEffect DEF Reads
      <4> QED
        BY <2>0, <2>1, <3>1, <4>1, WorkDoes, Thrown DEF Whys
    <3>3. File(j) # 0 /\ fd' = [fd EXCEPT ![j] = File(j)]
      BY <3>1, <3>2, OpenEffect
    <3> QED
      BY <1>0, <2>1, <3>3
  <2>2. CASE do = "load"
    <3>1. Measure(j) /\ Doing(j, "measure")
      BY <2>0, <2>2, WorkDoes DEF EntersFrom, Doing
    <3>2. fd' = fd
      BY <3>1 DEF Measure
    <3> QED
      BY <2>2, <3>1, <3>2 DEF HasOpen
  <2>3. CASE do = "write"
    <3>1. Truncate(j)
      BY <2>0, <2>3, WorkDoes DEF EntersFrom
    <3>2. ~ Throw(j, "no_space")
      <4>1. Kind[j] # "move"
        BY <3>1, TruncateEffect
      <4> QED
        BY <2>0, <2>3, <3>1, <4>1, WorkDoes, Thrown DEF Whys
    <3>3. /\ Opened(PlaceOf(j), Of[j]) /\ PlaceOf(j) \in Places
          /\ fd' = [fd EXCEPT ![j] = Opens(PlaceOf(j), Of[j])]
      BY <3>1, <3>2, TruncateEffect
    <3>4. Opens(PlaceOf(j), Of[j]) # 0
      BY <1>0, <3>3, KindIs, OpenedEffect
    <3> QED
      BY <1>0, <2>3, <3>3, <3>4
  <2>4. CASE do = "pour"
    <3>1. Duplicate(j)
      BY <2>0, <2>4, WorkDoes DEF EntersFrom
    <3>2. ~ Throw(j, "failed")
      BY <2>0, <2>4, <3>1, WorkDoes, Thrown, DuplicateEffect DEF Whys
    <3>3. /\ File(j) # 0 /\ Opened("db", CopyName(j)) /\ "db" \in Places
          /\ CopyName(j) \in Uuid
          /\ fd' = [fd EXCEPT ![j] = File(j)]
          /\ out' = [out EXCEPT ![j] = Opens("db", CopyName(j))]
      BY <3>1, <3>2, DuplicateEffect
    <3>4. Opens("db", CopyName(j)) # 0
      BY <1>0, <3>3, OpenedEffect
    <3> QED
      BY <1>0, <2>4, <3>3, <3>4
  <2> QED
    BY <2>1, <2>2, <2>3, <2>4
<1>2. \A i \in Job \ {j}, do \in {"measure", "load", "write", "pour"} :
         /\ Doing(i, do)' <=> Doing(i, do)
         /\ fd'[i] = fd[i] /\ out'[i] = out[i]
  BY WorkOwn DEF Doing, Head1
<1> QED
  BY <1>1, <1>2 DEF HasOpen

-----------------------------------------------------------------------------
(* Where the versions go *)

LEMMA VersionsGrow ==
    /\ \A u \in Uuid : u \in VersionsOf[u] /\ VersionsOf[u] \subseteq Version
    /\ \A j \in Writers : j \in VersionsOf[Of[j]]
    /\ \A c \in Job : Kind[c] = "copy" => VersionsOf[Of[c]] \subseteq VersionsOf[Target[c]]
<1>1. ASSUME NEW u \in Uuid PROVE u \in Sources[u] /\ Sources[u] \subseteq Uuid
  BY DEF Sources
<1>2. ASSUME NEW c \in Job, Kind[c] = "copy"
      PROVE  Sources[Of[c]] \subseteq Sources[Target[c]]
  <2>1. Of[c] \in Uuid /\ Target[c] \in Uuid
    BY JobAssumption
  <2> SUFFICES ASSUME NEW x \in Sources[Of[c]] PROVE x \in Sources[Target[c]]
    OBVIOUS
  <2>2. x \in Uuid /\ \A S \in SUBSET Uuid :
        /\ Of[c] \in S
        /\ \A d \in Job : Kind[d] = "copy" /\ Target[d] \in S => Of[d] \in S
        => x \in S
    BY <2>1 DEF Sources
  <2>3. ASSUME NEW S \in SUBSET Uuid, Target[c] \in S,
               \A d \in Job : Kind[d] = "copy" /\ Target[d] \in S => Of[d] \in S
        PROVE  x \in S
    BY <1>2, <2>2, <2>3
  <2> QED
    BY <2>1, <2>2, <2>3 DEF Sources
<1>3. \A u \in Uuid : VersionsOf[u] = Sources[u] \cup {w \in Writers : Of[w] \in Sources[u]}
  BY DEF VersionsOf
<1>4. \A j \in Job : Of[j] \in Uuid /\ Target[j] \in Uuid
  BY JobAssumption
<1>5. Writers \subseteq Job
  BY DEF Writers
<1> QED
  BY <1>1, <1>2, <1>3, <1>4, <1>5 DEF Version

\* After p has been opened under the name u, home2 is a home of the files.
NewHome(home, home2, p, u) ==
    /\ home2[Opens(p, u)] = <<p, u>>
    /\ \A f \in 1 .. Len(files) : home2[f] = home[f]
    /\ \A q \in Places, x \in Uuid :
          entry'[q][x] # 0 => home2[entry'[q][x]] = <<q, x>>
    /\ \A f \in 1 .. Len(files') :
          /\ ToSet(files'[f]) \subseteq VersionsOf[home2[f][2]]
          /\ home2[f][1] = "cache" => ToSet(files'[f]) \subseteq CacheVersions

\* Opening a file for writing gives the file a home and leaves the others theirs.
LEMMA OpenedHome ==
    ASSUME TypeOK, NEW p \in Places, NEW u \in Uuid, Opened(p, u),
           NEW home \in [1 .. Len(files) -> Places \X Uuid],
           EntryHome(home), FileHome(home)
    PROVE  \E home2 \in [1 .. Len(files') -> Places \X Uuid] : NewHome(home, home2, p, u)
<1> DEFINE home2 == [f \in 1 .. Len(files') |-> IF f \in 1 .. Len(files) THEN home[f]
                                                                       ELSE <<p, u>>]
<1>1. /\ files' \in Seq(Seq(Version))
      /\ Len(files') \in Nat /\ Len(files) \in Nat /\ Len(files) <= Len(files')
      /\ \/ /\ entry[p][u] # 0 /\ Opens(p, u) = entry[p][u] /\ Len(files') = Len(files)
         \/ /\ entry[p][u] = 0 /\ Opens(p, u) = Len(files) + 1
            /\ Len(files') = Len(files) + 1
      /\ Opens(p, u) \in 1 .. Len(files') /\ files'[Opens(p, u)] = <<>>
      /\ \A f \in 1 .. Len(files) : f # Opens(p, u) => files'[f] = files[f]
      /\ entry'[p][u] = Opens(p, u)
      /\ \A q \in Places, x \in Uuid : <<q, x>> # <<p, u>> => entry'[q][x] = entry[q][x]
      /\ \A q \in Places, x \in Uuid : entry[q][x] \in 0 .. Len(files)
  BY OpenedEffect, FilesAre
<1>2. home2 \in [1 .. Len(files') -> Places \X Uuid]
  OBVIOUS
<1>3. \A f \in 1 .. Len(files) : f \in 1 .. Len(files') /\ home2[f] = home[f]
  BY <1>1
<1>4. home2[Opens(p, u)] = <<p, u>>
  BY <1>1 DEF EntryHome
<1> HIDE DEF home2
<1>5. \A q \in Places, x \in Uuid : entry'[q][x] # 0 => home2[entry'[q][x]] = <<q, x>>
  <2> SUFFICES ASSUME NEW q \in Places, NEW x \in Uuid, entry'[q][x] # 0
               PROVE  home2[entry'[q][x]] = <<q, x>>
    OBVIOUS
  <2>1. CASE <<q, x>> = <<p, u>>
    BY <1>1, <1>4, <2>1
  <2>2. CASE <<q, x>> # <<p, u>>
    <3>1. entry'[q][x] = entry[q][x]
      BY <1>1, <2>2
    <3>2. entry[q][x] \in 1 .. Len(files)
      BY <1>1, <3>1
    <3> QED
      BY <1>3, <3>1, <3>2 DEF EntryHome
  <2> QED
    BY <2>1, <2>2
<1>6. ASSUME NEW f \in 1 .. Len(files')
      PROVE  /\ ToSet(files'[f]) \subseteq VersionsOf[home2[f][2]]
             /\ home2[f][1] = "cache" => ToSet(files'[f]) \subseteq CacheVersions
  <2>1. CASE f = Opens(p, u)
    BY <1>1, <2>1 DEF ToSet
  <2>2. CASE f # Opens(p, u)
    <3>1. f \in 1 .. Len(files) /\ files'[f] = files[f]
      BY <1>1, <2>2
    <3> QED
      BY <1>3, <3>1 DEF FileHome
  <2> QED
    BY <2>1, <2>2
<1>7. NewHome(home, home2, p, u)
  BY <1>3, <1>4, <1>5, <1>6 DEF NewHome
<1> QED
  BY <1>2, <1>7

\* A job's own files stay at home when others go on.
LEMMA OpenHomeStays ==
    ASSUME TypeOK, NEW i \in Job, fd'[i] = fd[i], out'[i] = out[i],
           NEW home, NEW home2, OpenHome(i, home),
           \A f \in 1 .. Len(files) : home2[f] = home[f]
    PROVE  OpenHome(i, home2)'
<1>1. fd[i] \in 0 .. Len(files) /\ out[i] \in 0 .. Len(files) /\ Len(files) \in Nat
  BY FilesAre
<1>2. /\ fd[i] # 0 => home2[fd[i]] = home[fd[i]]
      /\ out[i] # 0 => home2[out[i]] = home[out[i]]
  BY <1>1
<1>3. PlaceOf(i)' = PlaceOf(i)
  BY DEF PlaceOf
<1> QED
  BY <1>2, <1>3 DEF OpenHome

LEMMA HomesFrom ==
    ASSUME NEW home \in [1 .. Len(files') -> Places \X Uuid],
           \A q \in Places, x \in Uuid : entry'[q][x] # 0 => home[entry'[q][x]] = <<q, x>>,
           \A f \in 1 .. Len(files') :
              /\ ToSet(files'[f]) \subseteq VersionsOf[home[f][2]]
              /\ home[f][1] = "cache" => ToSet(files'[f]) \subseteq CacheVersions,
           \A i \in Job : OpenHome(i, home)'
    PROVE  Homes'
<1>1. HomesOf(home)'
  BY DEF HomesOf, EntryHome, FileHome, CacheVersions, VersionsOf, Sources, Writers
<1> QED
  BY <1>1 DEF Homes

LEMMA WorkHomes ==
    ASSUME TypeOK, MoreTypes, Programs, Answered, Locked, HasOpen, Homes,
           NEW j \in Job, Work(j)
    PROVE  Homes'
<1>1. PICK home \in [1 .. Len(files) -> Places \X Uuid] : HomesOf(home)
  BY DEF Homes
<1>2. EntryHome(home) /\ FileHome(home) /\ \A i \in Job : OpenHome(i, home)
  BY <1>1 DEF HomesOf
<1>3. /\ fd \in [Job -> FileNo] /\ out \in [Job -> FileNo] /\ Len(files) \in Nat
      /\ fd[j] \in 0 .. Len(files) /\ out[j] \in 0 .. Len(files)
      /\ \A p \in Places, u \in Uuid : entry[p][u] \in 0 .. Len(files)
  BY FilesAre DEF TypeOK
<1>4. \A i \in Job \ {j} : fd'[i] = fd[i] /\ out'[i] = out[i]
  BY WorkOwn
<1>5. ASSUME NEW home2, \A f \in 1 .. Len(files) : home2[f] = home[f], OpenHome(j, home2)'
      PROVE  \A i \in Job : OpenHome(i, home2)'
  BY <1>2, <1>4, <1>5, OpenHomeStays
<1>6. ASSUME files' = files, entry' = entry, OpenHome(j, home)'
      PROVE  Homes'
  BY <1>2, <1>5, <1>6, HomesFrom DEF EntryHome, FileHome
<1>7. ASSUME fd' = fd, out' = out PROVE OpenHome(j, home)'
  BY <1>2, <1>7, OpenHomeStays
<1>8. CASE Open(j)
  <2>1. files' = files /\ entry' = entry /\ out' = out
    BY <1>8 DEF Open, fileVars
  <2>2. CASE fd' = fd
    BY <1>6, <1>7, <2>1, <2>2
  <2>3. CASE File(j) # 0 /\ fd' = [fd EXCEPT ![j] = File(j)]
    <3>1. Head1(j).of = Of[j] /\ Head1(j).in \in Places /\ Reads(j) /\ Of[j] \in Uuid
      BY <1>8, OpenEffect, KindIs
    <3>2. fd'[j] = File(j) /\ home[File(j)] = <<Head1(j).in, Of[j]>>
      BY <1>2, <1>3, <2>3, <3>1 DEF EntryHome, File
    <3>3. out[j] = 0
      BY <1>2, <3>1 DEF OpenHome, Reads
    <3>4. OpenHome(j, home)'
      BY <2>1, <3>1, <3>2, <3>3 DEF OpenHome, Reads
    <3> QED
      BY <1>6, <2>1, <3>4
  <2> QED
    BY <1>8, <2>2, <2>3, OpenEffect
<1>9. CASE Truncate(j)
  <2>0. out' = out /\ Kind[j] \in {"save", "update", "store", "add"}
    BY <1>9, TruncateEffect DEF Truncate
  <2>1. CASE UNCHANGED <<files, entry, fd, len>>
    BY <1>6, <1>7, <2>0, <2>1
  <2>2. CASE /\ Opened(PlaceOf(j), Of[j])
             /\ fd' = [fd EXCEPT ![j] = Opens(PlaceOf(j), Of[j])]
    <3>1. PlaceOf(j) \in Places /\ Of[j] \in Uuid
      BY <1>9, TruncateEffect, KindIs
    <3>2. PICK home2 \in [1 .. Len(files') -> Places \X Uuid] :
                 NewHome(home, home2, PlaceOf(j), Of[j])
      BY <1>2, <2>2, <3>1, OpenedHome
    <3>3. fd'[j] = Opens(PlaceOf(j), Of[j]) /\ out'[j] = 0
      BY <1>2, <1>3, <2>0, <2>2 DEF OpenHome
    <3>4. OpenHome(j, home2)'
      BY <2>0, <3>2, <3>3 DEF NewHome, OpenHome, PlaceOf
    <3> QED
      BY <1>5, <3>2, <3>4, HomesFrom DEF NewHome
  <2> QED
    BY <1>9, <2>1, <2>2, TruncateEffect
<1>10. CASE Duplicate(j)
  <2>1. CASE UNCHANGED <<files, entry, fd, out>>
    BY <1>6, <1>7, <2>1
  <2>2. CASE /\ File(j) # 0 /\ Opened("db", CopyName(j))
             /\ fd' = [fd EXCEPT ![j] = File(j)]
             /\ out' = [out EXCEPT ![j] = Opens("db", CopyName(j))]
    <3>1. /\ Head1(j).in = PlaceOf(j) /\ PlaceOf(j) \in Places /\ "db" \in Places
          /\ Head1(j).of \in Uuid /\ CopyName(j) \in Uuid
          /\ Kind[j] \in {"copy", "move"}
          /\ Kind[j] = "copy" => Head1(j).of = Of[j] /\ CopyName(j) = Target[j]
          /\ Kind[j] = "move" => CopyName(j) = Head1(j).of
      BY <1>10, DuplicateEffect
    <3>2. PICK home2 \in [1 .. Len(files') -> Places \X Uuid] :
                 NewHome(home, home2, "db", CopyName(j))
      BY <1>2, <2>2, <3>1, OpenedHome
    <3>3. fd'[j] = File(j) /\ out'[j] = Opens("db", CopyName(j))
      BY <1>3, <2>2
    <3>4. Opens("db", CopyName(j)) # 0
      BY <1>3, <2>2, <3>1, OpenedEffect
    <3>5. home2[File(j)] = <<PlaceOf(j), Head1(j).of>>
      <4>1. File(j) \in 1 .. Len(files) /\ home[File(j)] = <<PlaceOf(j), Head1(j).of>>
        BY <1>2, <1>3, <2>2, <3>1 DEF EntryHome, File
      <4> QED
        BY <3>2, <4>1 DEF NewHome
    <3>6. OpenHome(j, home2)'
      BY <2>2, <3>1, <3>2, <3>3, <3>4, <3>5 DEF NewHome, OpenHome, PlaceOf
    <3> QED
      BY <1>5, <3>2, <3>6, HomesFrom DEF NewHome
  <2> QED
    BY <1>10, <2>1, <2>2, DuplicateEffect
<1>11. CASE Write(j)
  <2>0. entry' = entry /\ fd' = fd /\ out' = out
    BY <1>11 DEF Write, localVars
  <2>1. CASE files' = files
    BY <1>6, <1>7, <2>0, <2>1
  <2>2. CASE /\ Len(files') = Len(files)
             /\ \A f \in 1 .. Len(files) : f # fd[j] => files'[f] = files[f]
             /\ ToSet(files'[fd[j]]) \subseteq ToSet(files[fd[j]]) \cup {j}
    <3>1. Kind[j] \in {"save", "update", "store", "add"} /\ fd[j] \in 1 .. Len(files)
      BY <1>11, WriteEffect
    <3>2. home[fd[j]] = <<PlaceOf(j), Of[j]>>
      BY <1>2, <3>1 DEF OpenHome
    <3>3. j \in VersionsOf[Of[j]] /\ (PlaceOf(j) = "cache" => j \in CacheVersions)
      BY <3>1, VersionsGrow DEF Writers, PlaceOf, CacheVersions
    <3>4. ASSUME NEW f \in 1 .. Len(files)
          PROVE  /\ ToSet(files'[f]) \subseteq VersionsOf[home[f][2]]
                 /\ home[f][1] = "cache" => ToSet(files'[f]) \subseteq CacheVersions
      <4>1. CASE f = fd[j]
        <5>1. ToSet(files'[f]) \subseteq ToSet(files[f]) \cup {j}
          BY <2>2, <4>1
        <5>2. home[f][1] = PlaceOf(j) /\ home[f][2] = Of[j]
          BY <3>2, <4>1
        <5> QED
          BY <1>2, <3>3, <5>1, <5>2 DEF FileHome
      <4>2. CASE f # fd[j]
        BY <1>2, <2>2, <4>2 DEF FileHome
      <4> QED
        BY <4>1, <4>2
    <3> QED
      BY <1>2, <1>5, <1>7, <2>0, <2>2, <3>4, HomesFrom DEF EntryHome
  <2> QED
    BY <1>11, <2>1, <2>2, WriteEffect
<1>12. CASE Pour(j)
  <2>0. entry' = entry /\ fd' = fd /\ out' = out
    BY <1>12 DEF Pour, localVars
  <2>1. /\ Len(files') = Len(files) /\ Kind[j] \in {"copy", "move"}
        /\ fd[j] \in 1 .. Len(files) /\ out[j] \in 1 .. Len(files)
        /\ \A f \in 1 .. Len(files) : f # out[j] => files'[f] = files[f]
        /\ ToSet(files'[out[j]]) \subseteq ToSet(files[out[j]]) \cup ToSet(files[fd[j]])
    BY <1>12, PourEffect
  <2>2. /\ home[out[j]][1] = "db"
        /\ VersionsOf[home[fd[j]][2]] \subseteq VersionsOf[home[out[j]][2]]
    <3>1. CASE Kind[j] = "copy"
      <4>1. home[fd[j]] = <<"db", Of[j]>> /\ home[out[j]] = <<"db", Target[j]>>
        BY <1>2, <2>1, <3>1 DEF OpenHome
      <4> QED
        BY <3>1, <4>1, VersionsGrow
    <3>2. CASE Kind[j] = "move"
      <4>1. home[out[j]] = <<"db", home[fd[j]][2]>>
        BY <1>2, <2>1, <3>2 DEF OpenHome
      <4> QED
        BY <4>1
    <3> QED
      BY <2>1, <3>1, <3>2
  <2>3. ASSUME NEW f \in 1 .. Len(files)
        PROVE  /\ ToSet(files'[f]) \subseteq VersionsOf[home[f][2]]
               /\ home[f][1] = "cache" => ToSet(files'[f]) \subseteq CacheVersions
    BY <1>2, <2>1, <2>2 DEF FileHome
  <2> QED
    BY <1>2, <1>5, <1>7, <2>0, <2>1, <2>3, HomesFrom DEF EntryHome
<1>13. CASE RemoveFile(j)
  <2>1. files' = files /\ fd' = fd /\ out' = out
    BY <1>13 DEF RemoveFile, localVars
  <2>2. \A p \in Places, u \in Uuid : entry'[p][u] # 0 => entry'[p][u] = entry[p][u]
    BY <1>13, RemoveEffect
  <2> QED
    BY <1>2, <1>5, <1>7, <2>1, <2>2, HomesFrom DEF EntryHome, FileHome
<1>14. CASE files' = files /\ entry' = entry /\ fd' = fd /\ out' = out
  BY <1>6, <1>7, <1>14
<1> QED
  BY <1>8, <1>9, <1>10, <1>11, <1>12, <1>13, <1>14, WorkFrames

LEMMA WorkData ==
    ASSUME TypeOK, MoreTypes, Programs, Answered, Locked, HasOpen, Homes, DataOfName,
           NEW j \in Job, Work(j)
    PROVE  DataOfName'
<1> SUFFICES ASSUME NEW i \in Job
             PROVE  ToSet(data'[i]) \subseteq VersionsOf[Of[i]] \cup {Garbage}
  BY DEF DataOfName, VersionsOf, Sources, Writers
<1>1. CASE data'[i] = data[i]
  BY <1>1 DEF DataOfName
<1>2. CASE Load(j) /\ i = j
  <2>1. /\ data' = [data EXCEPT ![j] = Buffer(j)] /\ Reads(j) /\ fd[j] \in 1 .. Len(files)
        /\ ToSet(Buffer(j)) \subseteq ToSet(files[fd[j]]) \cup {Garbage}
    BY <1>2, LoadEffect
  <2>2. data'[j] = Buffer(j)
    BY <2>1 DEF TypeOK
  <2>3. PICK home \in [1 .. Len(files) -> Places \X Uuid] : HomesOf(home)
    BY DEF Homes
  <2>4. FileHome(home) /\ OpenHome(j, home)
    BY <2>3 DEF HomesOf
  <2>5. home[fd[j]][2] = Of[j]
    BY <2>1, <2>4 DEF OpenHome, Reads
  <2>6. ToSet(files[fd[j]]) \subseteq VersionsOf[Of[j]]
    BY <2>1, <2>4, <2>5 DEF FileHome
  <2> QED
    BY <1>2, <2>1, <2>2, <2>6
<1> QED
  BY <1>1, <1>2, WorkOwn, WorkFrames

-----------------------------------------------------------------------------
(* The beginning of a job *)

LEMMA BeginEffect ==
    ASSUME TypeOK, MoreTypes, Answered, NEW j \in Job, Begin(j)
    PROVE  /\ j \notin started /\ started' = started \cup {j}
           /\ program[j] = <<>> /\ answers[j] = <<>> /\ data[j] = <<>> /\ fd[j] = 0
           /\ program' \in [Job -> Seq(Steps)] /\ IsProgram(j, program'[j])
           /\ \A i \in Job \ {j} : program'[i] = program[i] /\ result'[i] = result[i]
           /\ program'[j] # <<>>
           /\ Head(program'[j]).do \in {"choose", "exists", "truncate", "found", "list"}
           /\ result' \in [Job -> Results] /\ result'[j] = Success[Kind[j]]
           /\ UNCHANGED <<mix, entry, files, size, fd, out, len, data, slot, answers, crashed>>
<1>1. /\ j \notin started
      /\ UNCHANGED <<mix, entry, files, size, fd, out, len, data, slot, answers, crashed>>
      /\ started' = started \cup {j}
      /\ result' = [result EXCEPT ![j] = Success[Kind[j]]]
      /\ program' = [program EXCEPT ![j] =
            IF Kind[j] = "delete" /\ entry["db"][Of[j]] = 0
            THEN Body(j) ELSE Body(j) \o Ending(j)]
  BY DEF Begin, fileVars, localVars, tellVars
<1>2. /\ program[j] = <<>> /\ answers[j] = <<>> /\ data[j] = <<>> /\ fd[j] = 0
      /\ program \in [Job -> Seq(Steps)] /\ result \in [Job -> Results]
  BY <1>1 DEF Answered, MoreTypes
<1>3. Success[Kind[j]] \in Results
  BY KindIs DEF Success, Kinds, Results
<1> DEFINE s == IF Kind[j] = "delete" /\ entry["db"][Of[j]] = 0
                THEN Body(j) ELSE Body(j) \o Ending(j)
<1>4. /\ Body(j) \in Seq(Steps) /\ Body(j) # <<>> /\ Ending(j) \in Seq(Steps)
      /\ IsPart(j, Body(j), EndOf(j)) /\ (Kind[j] = "delete" => IsPart(j, Body(j), "end"))
      /\ Body(j)[1].do \in {"choose", "exists", "truncate", "found", "list"}
  BY BodyPart, EndingProgram DEF IsPart
<1>5. /\ IsProgram(j, s) /\ s # <<>> /\ s \in Seq(Steps)
      /\ Head(s).do \in {"choose", "exists", "truncate", "found", "list"}
  <2>1. CASE Kind[j] = "delete" /\ entry["db"][Of[j]] = 0
    BY <1>4, <2>1 DEF IsProgram
  <2>2. CASE ~ (Kind[j] = "delete" /\ entry["db"][Of[j]] = 0)
    <3>1. IsProgram(j, Body(j) \o Ending(j))
      BY <1>4, BeforeEnding
    <3>2. Body(j) \o Ending(j) # <<>> /\ Head(Body(j) \o Ending(j)) = Body(j)[1]
          /\ Body(j) \o Ending(j) \in Seq(Steps)
      BY <1>4, FirstOfTwo
    <3> QED
      BY <1>4, <2>2, <3>1, <3>2
  <2> QED
    BY <2>1, <2>2
<1> HIDE DEF s
<1>6. program' = [program EXCEPT ![j] = s]
  BY <1>1 DEF s
<1>7. /\ program'[j] = s /\ program' \in [Job -> Seq(Steps)]
      /\ \A i \in Job \ {j} : program'[i] = program[i]
  BY <1>2, <1>5, <1>6
<1>8. /\ result'[j] = Success[Kind[j]] /\ result' \in [Job -> Results]
      /\ \A i \in Job \ {j} : result'[i] = result[i]
  BY <1>1, <1>2, <1>3
<1> QED
  BY <1>1, <1>2, <1>5, <1>7, <1>8

LEMMA BeginHistory ==
    ASSUME TypeOK, NEW j \in Job, Begin(j)
    PROVE  /\ met' \in [Job -> SUBSET Job] /\ before' \in [Job -> SUBSET Job]
           /\ met'[j] = Active /\ before'[j] = Ended
           /\ \A i \in Job \ {j} : before'[i] = before[i]
           /\ \A i \in Active \ {j} : met'[i] = met[i] \cup {j}
           /\ \A i \in Job \ Active : i # j => met'[i] = met[i]
<1>1. /\ met \in [Job -> SUBSET Job] /\ before \in [Job -> SUBSET Job]
      /\ Active \subseteq Job /\ Ended \subseteq Job
  BY DEF TypeOK, Active, Ended
<1>2. /\ met' = [i \in Job |-> CASE i = j -> Active
                               [] i \in Active -> met[i] \cup {j}
                               [] OTHER -> met[i]]
      /\ before' = [before EXCEPT ![j] = Ended]
  BY DEF Begin
<1>3. /\ before' \in [Job -> SUBSET Job] /\ before'[j] = Ended
      /\ \A i \in Job \ {j} : before'[i] = before[i]
  BY <1>1, <1>2
<1> DEFINE m(i) == CASE i = j -> Active
                     [] i \in Active -> met[i] \cup {j}
                     [] OTHER -> met[i]
<1>4. \A i \in Job : m(i) \in SUBSET Job
  BY <1>1
<1>5. met' = [i \in Job |-> m(i)]
  BY <1>2
<1>6. /\ m(j) = Active
      /\ \A i \in Active \ {j} : m(i) = met[i] \cup {j}
      /\ \A i \in Job \ Active : i # j => m(i) = met[i]
  <2>1. m(j) = Active
    <3>1. j \notin Active
      BY DEF Begin, Active
    <3> QED
      BY <3>1
  <2>2. ASSUME NEW i \in Active \ {j} PROVE m(i) = met[i] \cup {j}
    BY <2>2
  <2>3. ASSUME NEW i \in Job \ Active, i # j PROVE m(i) = met[i]
    BY <2>3
  <2> HIDE DEF m
  <2> QED
    BY <2>1, <2>2, <2>3
<1> HIDE DEF m
<1>7. met' \in [Job -> SUBSET Job] /\ \A i \in Job : met'[i] = m(i)
  BY <1>4, <1>5
<1> QED
  BY <1>1, <1>3, <1>6, <1>7

LEMMA BeginCore ==
    ASSUME TypeOK, MoreTypes, Programs, Answered, Locked, DataOfName, Homes, HasOpen,
           NEW j \in Job, Begin(j)
    PROVE  /\ TypeOK' /\ MoreTypes' /\ Programs' /\ Answered' /\ Locked'
           /\ DataOfName' /\ Homes' /\ HasOpen'
<1>1. /\ j \notin started /\ started' = started \cup {j}
      /\ program[j] = <<>> /\ answers[j] = <<>> /\ data[j] = <<>> /\ fd[j] = 0
      /\ program' \in [Job -> Seq(Steps)] /\ IsProgram(j, program'[j])
      /\ \A i \in Job \ {j} : program'[i] = program[i] /\ result'[i] = result[i]
      /\ program'[j] # <<>>
      /\ Head(program'[j]).do \in {"choose", "exists", "truncate", "found", "list"}
      /\ result' \in [Job -> Results]
      /\ UNCHANGED <<mix, entry, files, size, fd, out, len, data, slot, answers, crashed>>
  BY BeginEffect
<1>2. MoreTypes'
  BY <1>1 DEF MoreTypes, Replies
<1>3. \A i \in Job : \A k \in DOMAIN program'[i] :
         program'[i][k].in \in Places /\ program'[i][k].of \in Uuid
  <2> SUFFICES ASSUME NEW i \in Job, NEW k \in DOMAIN program'[i]
               PROVE  program'[i][k].in \in Places /\ program'[i][k].of \in Uuid
    OBVIOUS
  <2>1. program'[i][k] \in Steps
    BY <1>1
  <2> QED
    BY <2>1 DEF Steps
<1>4. TypeOK'
  <2>1. FileNo' = FileNo
    BY <1>1 DEF FileNo
  <2>2. met' \in [Job -> SUBSET Job] /\ before' \in [Job -> SUBSET Job]
    BY BeginHistory
  <2> QED
    BY <1>1, <1>3, <2>1, <2>2 DEF TypeOK
<1>5. Programs'
  <2> SUFFICES ASSUME NEW i \in Job PROVE IsProgram(i, program'[i])
    BY DEF Programs, IsProgram, IsPart, Fits, After, PlaceOf, Follower
  <2> QED
    BY <1>1 DEF Programs
<1>6. \A i \in Job \ {j} : Answer(i)' = Answer(i)
  BY <1>1 DEF Answer
<1>7. Answered'
  <2> SUFFICES ASSUME NEW i \in Job
               PROVE  /\ i \notin started' =>
                            /\ program'[i] = <<>> /\ answers'[i] = <<>> /\ data'[i] = <<>>
                            /\ fd'[i] = 0 /\ result'[i] = "none"
                      /\ Len(answers'[i]) <= 1
                      /\ answers'[i] # <<>> => program'[i] = <<>> /\ answers'[i][1] = Answer(i)'
    BY DEF Answered
  <2>1. CASE i = j
    BY <1>1, <2>1
  <2>2. CASE i # j
    <3>1. /\ program'[i] = program[i] /\ result'[i] = result[i] /\ Answer(i)' = Answer(i)
      BY <1>1, <1>6, <2>2
    <3>2. /\ i \notin started =>
                /\ program[i] = <<>> /\ answers[i] = <<>> /\ data[i] = <<>>
                /\ fd[i] = 0 /\ result[i] = "none"
          /\ Len(answers[i]) <= 1
          /\ answers[i] # <<>> => program[i] = <<>> /\ answers[i][1] = Answer(i)
      BY DEF Answered
    <3> QED
      BY <1>1, <3>1, <3>2
  <2> QED
    BY <2>1, <2>2
<1>8. \A i \in Job, do \in {"commit", "measure", "load", "write", "pour"} :
         Doing(i, do)' <=> i # j /\ Doing(i, do)
  BY <1>1 DEF Doing, Head1
<1>9. Locked'
  <2>1. \A i : Instance(i)' = Instance(i)
    BY DEF Instance
  <2> SUFFICES ASSUME NEW i \in Job, Doing(i, "commit")'
               PROVE  /\ slot'[Instance(i)] = <<i, Answer(i)'>>
                      /\ \A k \in Job : Doing(k, "commit")' /\ Instance(i) = Instance(k) => i = k
    BY <2>1 DEF Locked
  <2>2. i # j /\ Doing(i, "commit")
    BY <1>8
  <2>3. /\ slot[Instance(i)] = <<i, Answer(i)>>
        /\ \A k \in Job : Doing(k, "commit") /\ Instance(i) = Instance(k) => i = k
    BY <2>2 DEF Locked
  <2> QED
    BY <1>1, <1>6, <1>8, <2>2, <2>3
<1>10. DataOfName'
  BY <1>1 DEF DataOfName, VersionsOf, Sources, Writers
<1>11. HasOpen'
  BY <1>1, <1>8 DEF HasOpen
<1>12. Homes'
  <2>1. PICK home \in [1 .. Len(files) -> Places \X Uuid] : HomesOf(home)
    BY DEF Homes
  <2>2. \A i \in Job : OpenHome(i, home)'
    BY <1>1, <2>1, OpenHomeStays DEF HomesOf
  <2> QED
    BY <1>1, <2>1, <2>2, HomesFrom DEF HomesOf, EntryHome, FileHome
<1> QED
  BY <1>2, <1>4, <1>5, <1>7, <1>9, <1>10, <1>11, <1>12

-----------------------------------------------------------------------------
(* The start *)

Present == {"db"} \X Stored \cup {"cache"} \X Cached
PresentInOrder == SetToSeq(Present)

LEMMA StartOrder ==
    /\ Present \subseteq Places \X Uuid
    /\ PresentInOrder \in Seq(Present) /\ Len(PresentInOrder) \in Nat
    /\ DOMAIN PresentInOrder = 1 .. Len(PresentInOrder)
    /\ \A x \in Present : \E i \in DOMAIN PresentInOrder : PresentInOrder[i] = x
    /\ Cardinality(Stored) \in Nat /\ Cardinality(Cached) \in Nat
<1>1. IsFiniteSet(Stored) /\ IsFiniteSet(Cached)
  BY PlaceAssumption, FS_Subset
<1>2. IsFiniteSet(Present)
  <2>1. IsFiniteSet({"db"}) /\ IsFiniteSet({"cache"})
    BY FS_Singleton
  <2>2. IsFiniteSet({"db"} \X Stored) /\ IsFiniteSet({"cache"} \X Cached)
    BY <1>1, <2>1, FS_Product
  <2> QED
    BY <2>2, FS_Union DEF Present
<1>3. Present \subseteq Places \X Uuid
  BY PlaceAssumption DEF Present, Places
<1> DEFINE n == Cardinality(Present)
<1>4. n \in Nat /\ ExistsBijection(1 .. n, Present)
  BY <1>2, FS_CardinalityType
<1>5. \E f \in [1 .. n -> Present] : IsInjective(f)
  BY <1>4 DEF ExistsBijection, Bijection, Injection
<1>6. PresentInOrder \in [1 .. n -> Present] /\ IsInjective(PresentInOrder)
  BY <1>5 DEF PresentInOrder, SetToSeq
<1>7. PresentInOrder \in Injection(1 .. n, Present)
  BY <1>6 DEF Injection
<1>8. IsFiniteSet(1 .. n) /\ Cardinality(1 .. n) = n
  <2>1. 1 \in Int /\ n \in Int /\ n >= 1 - 1
    BY <1>4
  <2> QED
    BY <1>4, FS_Interval
<1>9. PresentInOrder \in Surjection(1 .. n, Present)
  BY <1>2, <1>7, <1>8, FS_Injection
<1>10. \A x \in Present : \E i \in 1 .. n : PresentInOrder[i] = x
  BY <1>9 DEF Surjection
<1> HIDE DEF n
<1>11. PresentInOrder \in Seq(Present) /\ DOMAIN PresentInOrder = 1 .. n
       /\ Len(PresentInOrder) = n
  BY <1>4, <1>6
<1> QED
  BY <1>1, <1>3, <1>4, <1>10, <1>11, FS_CardinalityType

LEMMA SeqOfFunction ==
    ASSUME NEW S, NEW n \in Nat, NEW f \in [1 .. n -> S]
    PROVE  f \in Seq(S) /\ Len(f) = n
OBVIOUS

LEMMA StartFiles ==
    ASSUME Init
    PROVE  /\ Len(files) \in Nat /\ Len(files) = Len(PresentInOrder)
           /\ files \in Seq(Seq(Version))
           /\ \A i \in 1 .. Len(files) :
                 PresentInOrder[i] \in Present /\ files[i] = << PresentInOrder[i][2] >>
           /\ entry \in [Places -> [Uuid -> 0 .. Len(files)]]
           /\ \A p \in Places, u \in Uuid :
                 IF <<p, u>> \in Present
                 THEN entry[p][u] # 0 /\ PresentInOrder[entry[p][u]] = <<p, u>>
                 ELSE entry[p][u] = 0
           /\ size \in [Places -> 0 .. Word - 1]
<1> DEFINE order == PresentInOrder
<1>1. /\ files = [i \in DOMAIN order |-> << order[i][2] >>]
      /\ entry = [p \in Places |-> [u \in Uuid |->
                  IF <<p, u>> \in Present
                  THEN CHOOSE i \in DOMAIN order : order[i] = <<p, u>>
                  ELSE 0]]
      /\ size = [p \in Places |->
                 Cardinality(IF p = "db" THEN Stored ELSE Cached) % Word]
  BY DEF Init, PresentInOrder, Present
<1>2. /\ Present \subseteq Places \X Uuid
      /\ order \in Seq(Present) /\ Len(order) \in Nat /\ DOMAIN order = 1 .. Len(order)
      /\ \A x \in Present : \E i \in DOMAIN order : order[i] = x
      /\ Cardinality(Stored) \in Nat /\ Cardinality(Cached) \in Nat
  BY StartOrder
<1> HIDE DEF order
<1>3. \A i \in 1 .. Len(order) : order[i] \in Present /\ << order[i][2] >> \in Seq(Version)
  <2> SUFFICES ASSUME NEW i \in 1 .. Len(order)
               PROVE  order[i] \in Present /\ << order[i][2] >> \in Seq(Version)
    OBVIOUS
  <2>1. order[i] \in Present /\ order[i][2] \in Version
    BY <1>2 DEF Version
  <2> QED
    BY <2>1
<1>4. files \in [1 .. Len(order) -> Seq(Version)]
  BY <1>1, <1>2, <1>3
<1>5. files \in Seq(Seq(Version)) /\ Len(files) = Len(order)
  BY <1>2, <1>4, SeqOfFunction
<1>6. \A p \in Places, u \in Uuid :
         entry[p][u] = IF <<p, u>> \in Present
                       THEN CHOOSE i \in DOMAIN order : order[i] = <<p, u>>
                       ELSE 0
  BY <1>1
<1>7. \A p \in Places, u \in Uuid :
         IF <<p, u>> \in Present
         THEN entry[p][u] \in 1 .. Len(order) /\ order[entry[p][u]] = <<p, u>>
         ELSE entry[p][u] = 0
  <2> SUFFICES ASSUME NEW p \in Places, NEW u \in Uuid
               PROVE  IF <<p, u>> \in Present
                      THEN entry[p][u] \in 1 .. Len(order) /\ order[entry[p][u]] = <<p, u>>
                      ELSE entry[p][u] = 0
    OBVIOUS
  <2>1. CASE <<p, u>> \in Present
    <3>1. \E i \in DOMAIN order : order[i] = <<p, u>>
      BY <1>2, <2>1
    <3> QED
      BY <1>2, <1>6, <2>1, <3>1
  <2>2. CASE <<p, u>> \notin Present
    BY <1>6, <2>2
  <2> QED
    BY <2>1, <2>2
<1>8. entry \in [Places -> [Uuid -> 0 .. Len(order)]]
  <2>1. \A p \in Places, u \in Uuid : entry[p][u] \in 0 .. Len(order)
    <3> SUFFICES ASSUME NEW p \in Places, NEW u \in Uuid
                 PROVE  entry[p][u] \in 0 .. Len(order)
      OBVIOUS
    <3>1. entry[p][u] \in 1 .. Len(order) \/ entry[p][u] = 0
      BY <1>7
    <3>2. Len(order) \in Nat
      BY <1>2
    <3> QED
      BY <3>1, <3>2
  <2>2. \A p \in Places : entry[p] \in [Uuid -> 0 .. Len(order)]
    <3> SUFFICES ASSUME NEW p \in Places PROVE entry[p] \in [Uuid -> 0 .. Len(order)]
      OBVIOUS
    <3>1. entry[p] = [u \in Uuid |-> entry[p][u]]
      BY <1>1
    <3> QED
      BY <2>1, <3>1
  <2>3. entry = [p \in Places |-> entry[p]]
    BY <1>1
  <2> QED
    BY <2>2, <2>3
<1>9. size \in [Places -> 0 .. Word - 1]
  <2>1. ASSUME NEW k \in Nat PROVE k % Word \in 0 .. Word - 1
    BY LimitAssumption
  <2>2. \A p \in Places : Cardinality(IF p = "db" THEN Stored ELSE Cached) \in Nat
    BY <1>2
  <2> QED
    BY <1>1, <2>1, <2>2
<1>10. \A p \in Places, u \in Uuid : <<p, u>> \in Present => entry[p][u] # 0
  BY <1>2, <1>7
<1> QED
  BY <1>1, <1>2, <1>3, <1>5, <1>7, <1>8, <1>9, <1>10 DEF order

LEMMA StartCore == Init => CoreInv
<1> SUFFICES ASSUME Init PROVE CoreInv
  OBVIOUS
<1>1. /\ Len(files) \in Nat /\ Len(files) = Len(PresentInOrder)
      /\ files \in Seq(Seq(Version))
      /\ \A i \in 1 .. Len(files) :
            PresentInOrder[i] \in Present /\ files[i] = << PresentInOrder[i][2] >>
      /\ entry \in [Places -> [Uuid -> 0 .. Len(files)]]
      /\ \A p \in Places, u \in Uuid :
            IF <<p, u>> \in Present
            THEN entry[p][u] # 0 /\ PresentInOrder[entry[p][u]] = <<p, u>>
            ELSE entry[p][u] = 0
      /\ size \in [Places -> 0 .. Word - 1]
  BY StartFiles
<1>2. /\ mix \in Mixes
      /\ program = [j \in Job |-> <<>>]
      /\ fd = [j \in Job |-> 0] /\ out = [j \in Job |-> 0]
      /\ len = [j \in Job |-> 0] /\ data = [j \in Job |-> <<>>]
      /\ result = [j \in Job |-> "none"]
      /\ slot = [t \in {"storage", "writer"} |-> <<>>]
      /\ answers = [j \in Job |-> <<>>]
      /\ crashed = FALSE
      /\ started = {}
      /\ met = [j \in Job |-> {}] /\ before = [j \in Job |-> {}]
  BY DEF Init
<1>3. /\ program \in [Job -> Seq(Steps)] /\ \A j \in Job : program[j] = <<>>
      /\ fd \in [Job -> FileNo] /\ \A j \in Job : fd[j] = 0
      /\ out \in [Job -> FileNo] /\ \A j \in Job : out[j] = 0
      /\ len \in [Job -> Nat]
      /\ data \in [Job -> Seq(Version)] /\ \A j \in Job : data[j] = <<>>
      /\ result \in [Job -> Results] /\ \A j \in Job : result[j] = "none"
      /\ answers \in [Job -> Seq(Replies)] /\ \A j \in Job : answers[j] = <<>>
      /\ slot \in [{"storage", "writer"} -> {<<>>} \cup (Job \X Replies)]
      /\ met \in [Job -> SUBSET Job] /\ before \in [Job -> SUBSET Job]
  <2>1. 0 \in FileNo /\ "none" \in Results
    BY <1>1 DEF FileNo, Results
  <2> QED
    BY <1>2, <2>1
<1>4. TypeOK
  <2>1. \A j \in Job : \A i \in DOMAIN program[j] :
           program[j][i].in \in Places /\ program[j][i].of \in Uuid
    BY <1>3
  <2>2. files \in Seq(Seq(Version)) /\ entry \in [Places -> [Uuid -> FileNo]]
        /\ size \in [Places -> 0 .. Word - 1]
    BY <1>1 DEF FileNo
  <2>3. started \subseteq Job /\ crashed \in BOOLEAN
    BY <1>2
  <2> QED
    BY <1>3, <2>1, <2>2, <2>3 DEF TypeOK
<1>5. MoreTypes
  BY <1>2, <1>3, JobAssumption DEF MoreTypes
<1>6. Programs
  <2>1. \A j \in Job : IsProgram(j, <<>>)
    BY NothingToDo DEF IsProgram
  <2> QED
    BY <1>3, <2>1 DEF Programs
<1>7. Answered
  BY <1>3 DEF Answered
<1>8. \A i \in Job : \A do : ~ Doing(i, do)
  BY <1>3 DEF Doing
<1>9. Locked /\ HasOpen
  BY <1>8 DEF Locked, HasOpen
<1>10. DataOfName
  BY <1>3 DEF DataOfName, ToSet
<1>11. Homes
  <2>1. PresentInOrder \in [1 .. Len(files) -> Places \X Uuid]
    <3>1. PresentInOrder \in Seq(Places \X Uuid)
      BY StartOrder
    <3> QED
      BY <1>1, <3>1
  <2>2. EntryHome(PresentInOrder)
    BY <1>1 DEF EntryHome
  <2>3. FileHome(PresentInOrder)
    <3> SUFFICES ASSUME NEW f \in 1 .. Len(files)
                 PROVE  /\ ToSet(files[f]) \subseteq VersionsOf[PresentInOrder[f][2]]
                        /\ PresentInOrder[f][1] = "cache" => ToSet(files[f]) \subseteq CacheVersions
      BY DEF FileHome
    <3>1. PresentInOrder[f] \in Present /\ files[f] = << PresentInOrder[f][2] >>
      BY <1>1
    <3>2. /\ PresentInOrder[f][2] \in Uuid
          /\ PresentInOrder[f][1] = "cache" => PresentInOrder[f][2] \in Cached
      BY <3>1, PlaceAssumption DEF Present
    <3>3. ToSet(files[f]) = {PresentInOrder[f][2]}
      BY <3>1 DEF ToSet
    <3> QED
      BY <3>2, <3>3, VersionsGrow DEF CacheVersions
  <2>4. \A j \in Job : OpenHome(j, PresentInOrder)
    BY <1>3 DEF OpenHome
  <2> QED
    BY <2>1, <2>2, <2>3, <2>4 DEF Homes, HomesOf
<1> QED
  BY <1>4, <1>5, <1>6, <1>7, <1>9, <1>10, <1>11 DEF CoreInv

LEMMA CoreStutters == CoreInv /\ UNCHANGED vars => CoreInv'
<1> SUFFICES ASSUME CoreInv, UNCHANGED vars PROVE CoreInv'
  OBVIOUS
<1>1. UNCHANGED <<entry, files, size, program, fd, out, len, data, result, slot,
                  answers, crashed, mix, started, met, before>>
  BY DEF vars
<1>2. TypeOK'
  BY <1>1 DEF CoreInv, TypeOK, FileNo
<1>3. MoreTypes' /\ Programs'
  <2>1. MoreTypes'
    BY <1>1 DEF CoreInv, MoreTypes, Replies
  <2>2. Programs'
    <3> SUFFICES ASSUME NEW i \in Job PROVE IsProgram(i, program'[i])
      BY DEF Programs, IsProgram, IsPart, Fits, After, PlaceOf, Follower
    <3> QED
      BY <1>1 DEF CoreInv, Programs
  <2> QED
    BY <2>1, <2>2
<1>4. Answered' /\ Locked' /\ HasOpen'
  BY <1>1 DEF CoreInv, Answered, Locked, HasOpen, Doing, Head1, Answer, Instance
<1>5. DataOfName'
  BY <1>1 DEF CoreInv, DataOfName, VersionsOf, Sources, Writers
<1>6. Homes'
  <2>1. PICK home \in [1 .. Len(files) -> Places \X Uuid] : HomesOf(home)
    BY DEF CoreInv, Homes
  <2>2. \A i \in Job : OpenHome(i, home)'
    BY <1>1, <2>1, OpenHomeStays DEF CoreInv, HomesOf
  <2> QED
    BY <1>1, <2>1, <2>2, HomesFrom DEF HomesOf, EntryHome, FileHome
<1> QED
  BY <1>2, <1>3, <1>4, <1>5, <1>6 DEF CoreInv

LEMMA CoreSteps == CoreInv /\ [Next]_vars => CoreInv'
<1> SUFFICES ASSUME CoreInv, [Next]_vars PROVE CoreInv'
  OBVIOUS
<1> USE DEF CoreInv
<1>1. ASSUME NEW j \in Job, Begin(j) PROVE CoreInv'
  BY <1>1, BeginCore
<1>2. ASSUME NEW j \in Job, Work(j) PROVE CoreInv'
  BY <1>2, WorkTypes, WorkAnswered, WorkLocked, WorkData, WorkHomes, WorkHasOpen
<1> QED
  BY <1>1, <1>2, CoreStutters DEF Next

\* What AnswersMatch rests on: each thread keeps to its program, the scratch item
\* of an instance is its own from the lock to the commit (storage.cpp:131-137),
\* and a file holds versions of the name under which it was made.
THEOREM StorageCore == Spec => []CoreInv
BY StartCore, CoreSteps, PTL DEF Spec

LEMMA CoreMatches == CoreInv => AnswersMatch
<1> SUFFICES ASSUME CoreInv, NEW j \in Job
             PROVE  /\ Len(answers[j]) <= 1
                    /\ \A i \in DOMAIN answers[j] :
                          /\ answers[j][i].is = result[j]
                          /\ ToSet(answers[j][i].data) \subseteq VersionsOf[Of[j]] \cup {Garbage}
  BY DEF AnswersMatch, CoreInv
<1>1. /\ Len(answers[j]) <= 1 /\ answers[j] \in Seq(Replies)
      /\ answers[j] # <<>> => answers[j][1] = Answer(j)
  BY DEF CoreInv, Answered, MoreTypes
<1> SUFFICES ASSUME NEW i \in DOMAIN answers[j]
             PROVE  /\ answers[j][i].is = result[j]
                    /\ ToSet(answers[j][i].data) \subseteq VersionsOf[Of[j]] \cup {Garbage}
  BY <1>1
<1>2. i = 1 /\ answers[j] # <<>>
  BY <1>1
<1>3. answers[j][i].is = result[j] /\ answers[j][i].data = data[j]
  BY <1>1, <1>2 DEF Answer
<1> QED
  BY <1>3 DEF CoreInv, DataOfName

\* A request to the storage has at most one answer, with the result and the data
\* of its own job, although threads share the scratch item of the fifo to the
\* router (storage.cpp:131-137).
THEOREM StorageAnswersMatch == Spec => []AnswersMatch
BY StorageCore, CoreMatches, PTL

-----------------------------------------------------------------------------
(* Who met whom, and what was never removed *)

LEMMA ActiveMoves ==
    ASSUME TypeOK, MoreTypes, Programs, Answered, NEW j \in Job, Work(j)
    PROVE  Active' \subseteq Active /\ j \in Active
<1>1. j \in started /\ program[j] # <<>> /\ started' = started
  BY WorkStarted, WorkFrames
<1>2. \A i \in Job \ {j} : program'[i] = program[i]
  BY WorkMoves DEF Moved
<1> QED
  BY <1>1, <1>2 DEF Active, TypeOK

LEMMA WorkHistories ==
    ASSUME TypeOK, MoreTypes, Programs, Answered, Histories, NEW j \in Job, Work(j)
    PROVE  Histories'
<1>1. /\ started' = started /\ met' = met /\ before' = before
      /\ \A i \in Job \ {j} : program'[i] = program[i]
  BY WorkFrames, WorkMoves DEF Moved
<1>2. Active' \subseteq Active /\ j \in Active /\ program[j] # <<>>
  BY ActiveMoves DEF Active
<1>3. \A k \in Job : \A i \in before'[k] : program'[i] = <<>>
  BY <1>1, <1>2 DEF Histories, TypeOK
<1> QED
  BY <1>1, <1>2, <1>3 DEF Histories

LEMMA BeginActive ==
    ASSUME TypeOK, MoreTypes, Answered, NEW j \in Job, Begin(j)
    PROVE  Active' = Active \cup {j} /\ Active \subseteq started /\ j \notin Active
           /\ started = Active \cup Ended
<1>1. /\ j \notin started /\ started' = started \cup {j} /\ program'[j] # <<>>
      /\ \A i \in Job \ {j} : program'[i] = program[i]
  BY BeginEffect
<1>2. started \subseteq Job
  BY DEF TypeOK
<1> QED
  BY <1>1, <1>2 DEF Active, Ended

LEMMA BeginHistories ==
    ASSUME TypeOK, MoreTypes, Answered, Histories, NEW j \in Job, Begin(j)
    PROVE  Histories'
<1>1. /\ j \notin started /\ started' = started \cup {j} /\ started \subseteq Job
      /\ \A i \in Job \ {j} : program'[i] = program[i]
  BY BeginEffect DEF TypeOK
<1>2. /\ met'[j] = Active /\ before'[j] = Ended
      /\ \A i \in Job \ {j} : before'[i] = before[i]
      /\ \A i \in Active \ {j} : met'[i] = met[i] \cup {j}
      /\ \A i \in Job \ Active : i # j => met'[i] = met[i]
  BY BeginHistory
<1>3. /\ Active' = Active \cup {j} /\ Active \subseteq started /\ j \notin Active
      /\ started = Active \cup Ended
  BY BeginActive
<1>4. ASSUME NEW k \in Job
      PROVE  before'[k] \subseteq started' /\ met'[k] \subseteq started'
  <2>1. before[k] \subseteq started /\ met[k] \subseteq started
    BY DEF Histories
  <2>2. CASE k = j
    BY <1>1, <1>2, <1>3, <2>2
  <2>3. CASE k # j /\ k \in Active
    BY <1>1, <1>2, <2>1, <2>3
  <2>4. CASE k # j /\ k \notin Active
    BY <1>1, <1>2, <2>1, <2>4
  <2> QED
    BY <2>2, <2>3, <2>4
<1>5. ASSUME NEW k \in Job, NEW i \in before'[k]
      PROVE  program'[i] = <<>>
  <2>1. i \in started /\ program[i] = <<>>
    <3>1. CASE k = j
      BY <1>2, <1>3, <3>1 DEF Ended, Active
    <3>2. CASE k # j
      BY <1>2, <3>2 DEF Histories
    <3> QED
      BY <3>1, <3>2
  <2> QED
    BY <1>1, <2>1
<1>6. ASSUME NEW i \in Active', NEW k \in Active', i # k
      PROVE  i \in met'[k]
  <2>1. CASE k = j
    BY <1>2, <1>3, <1>6, <2>1
  <2>2. CASE k # j
    <3>1. k \in Active /\ met'[k] = met[k] \cup {j}
      BY <1>2, <1>3, <2>2
    <3> QED
      BY <1>3, <1>6, <3>1 DEF Histories
  <2> QED
    BY <2>1, <2>2
<1>7. ASSUME NEW k \in Active'
      PROVE  started' \subseteq before'[k] \cup met'[k] \cup {k}
  <2>1. CASE k = j
    BY <1>1, <1>2, <1>3, <2>1
  <2>2. CASE k # j
    <3>1. /\ k \in Active /\ met'[k] = met[k] \cup {j} /\ before'[k] = before[k]
      BY <1>1, <1>2, <1>3, <2>2
    <3> QED
      BY <1>1, <3>1 DEF Histories
  <2> QED
    BY <2>1, <2>2
<1> QED
  BY <1>4, <1>5, <1>6, <1>7 DEF Histories

\* A step never takes a name away but by removing its file.
LEMMA NamesStay ==
    ASSUME TypeOK, MoreTypes, Programs, Answered, NEW j \in Job, Work(j)
    PROVE  \A p \in Places, u \in Uuid :
              entry[p][u] # 0 => \/ entry'[p][u] = entry[p][u]
                                 \/ /\ RemoveFile(j)
                                    /\ j \in started \cap Removers /\ u \in Touches(j)
<1>0. j \in started /\ Len(files) \in Nat
  BY WorkStarted, FilesAre
<1>1. ASSUME NEW q \in Places, NEW x \in Uuid, Opened(q, x),
             NEW p \in Places, NEW u \in Uuid, entry[p][u] # 0
      PROVE  entry'[p][u] = entry[p][u]
  BY <1>1, OpenedEffect
<1>2. CASE Truncate(j)
  BY <1>1, <1>2, TruncateEffect, KindIs
<1>3. CASE Duplicate(j)
  BY <1>1, <1>3, DuplicateEffect
<1>4. CASE RemoveFile(j)
  <2> SUFFICES ASSUME NEW p \in Places, NEW u \in Uuid, entry[p][u] # 0,
                      entry'[p][u] # entry[p][u]
               PROVE  j \in started \cap Removers /\ u \in Touches(j)
    BY <1>4
  <2>1. /\ Kind[j] \in {"del", "delUuids", "delete", "uncache", "move", "cleanup"}
        /\ Kind[j] \notin {"move", "cleanup"} => Head1(j).of = Of[j]
        /\ u = Head1(j).of
    <3>0. \A q \in Places, x \in Uuid :
             <<q, x>> # <<Head1(j).in, Head1(j).of>> => entry'[q][x] = entry[q][x]
      BY <1>4, RemoveEffect
    <3>1. <<p, u>> = <<Head1(j).in, Head1(j).of>>
      BY <3>0
    <3>2. u = Head1(j).of
      BY <3>1
    <3> QED
      BY <1>4, <3>2, RemoveEffect
  <2> QED
    BY <1>0, <2>1 DEF Removers, Touches
<1> QED
  BY <1>2, <1>3, <1>4, WorkFrames

LEMMA WorkPresence ==
    ASSUME TypeOK, MoreTypes, Programs, Answered, Presence, NEW j \in Job, Work(j)
    PROVE  Presence'
<1>1. started' = started /\ \A i \in Job \ {j} : program'[i] = program[i]
  BY WorkFrames, WorkMoves DEF Moved
<1>2. \A u : Kept(u)' <=> Kept(u)
  BY <1>1 DEF Kept, Removers, Touches
<1>3. ASSUME NEW p \in Places, NEW u \in Uuid, Kept(u), entry[p][u] # 0
      PROVE  entry'[p][u] # 0
  BY <1>3, NamesStay DEF Kept
<1>4. ASSUME NEW u \in Uuid, Kept(u)'
      PROVE  /\ u \in Stored => entry'["db"][u] # 0
             /\ u \in Cached => entry'["cache"][u] # 0
  BY <1>2, <1>3, <1>4 DEF Presence, Places
<1>5. ASSUME NEW g \in Job, Doing(g, "open")', Kept(Of[g])'
      PROVE  File(g)' # 0
  <2>0. Kept(Of[g])
    BY <1>2, <1>5
  <2>1. CASE g = j
    <3>1. ChoosePlace(j) /\ Head1(j).do = "choose"
      <4>1. program'[j] # <<>> /\ Head(program'[j]).do = "open"
        BY <1>5, <2>1 DEF Doing, Head1
      <4>2. EntersFrom(Head1(j).do, "open")
        BY <4>1, WorkMoves DEF Moved
      <4> QED
        BY <4>2, WorkDoes DEF EntersFrom
    <3>2. entry' = entry
      BY <3>1 DEF ChoosePlace, fileVars
    <3>3. \/ Throw(j, "failed")
          \/ /\ Head(program'[j]).of = Of[j]
             /\ entry[Head(program'[j]).in][Of[j]] # 0
      BY <3>1, ChooseMoves
    <3>4. ~ Throw(j, "failed")
      <4>1. Kind[j] # "move" /\ program[j] # <<>>
        BY <3>1, ChooseMoves DEF Reads
      <4>2. program'[j] # <<>> /\ Head(program'[j]).do = "open"
        BY <1>5, <2>1 DEF Doing, Head1
      <4> QED
        BY <4>1, <4>2, Thrown DEF Whys
    <3> QED
      BY <2>1, <3>2, <3>3, <3>4 DEF File, Head1
  <2>2. CASE g # j
    <3>1. program'[g] = program[g] /\ Doing(g, "open")
      BY <1>1, <1>5, <2>2 DEF Doing, Head1
    <3>2. File(g) # 0
      BY <2>0, <3>1 DEF Presence
    <3>3. Head1(g).of = Of[g] /\ Head1(g).in \in Places /\ Of[g] \in Uuid
      <4>1. program[g] # <<>> /\ Head1(g).do = "open"
        BY <3>1 DEF Doing
      <4>2. Reads(g) /\ Fits(g, Head1(g), Follower(program[g], 1, "end")) /\ Head1(g) \in Steps
        BY <4>1, KindsDoing, FirstStep
      <4> QED
        BY <4>2, KindIs DEF Fits, Steps, Reads
    <3>4. File(g)' = entry'[Head1(g).in][Of[g]] /\ File(g) = entry[Head1(g).in][Of[g]]
      BY <3>1, <3>3 DEF File, Head1
    <3> QED
      BY <1>3, <2>0, <3>2, <3>3, <3>4
  <2> QED
    BY <2>1, <2>2
<1> QED
  BY <1>4, <1>5 DEF Presence

LEMMA BeginPresence ==
    ASSUME TypeOK, MoreTypes, Answered, Presence, NEW j \in Job, Begin(j)
    PROVE  Presence'
<1>1. /\ started' = started \cup {j} /\ entry' = entry
      /\ \A i \in Job \ {j} : program'[i] = program[i]
      /\ Head(program'[j]).do \in {"choose", "exists", "truncate", "found", "list"}
  BY BeginEffect
<1>2. \A u : Kept(u)' => Kept(u)
  BY <1>1 DEF Kept, Removers, Touches
<1>3. \A g \in Job : Doing(g, "open")' => g # j /\ Doing(g, "open") /\ File(g)' = File(g)
  BY <1>1 DEF Doing, Head1, File
<1> QED
  BY <1>1, <1>2, <1>3 DEF Presence

LEMMA WorkRefusals ==
    ASSUME TypeOK, MoreTypes, Programs, Answered, Histories, Presence, Refusals,
           NEW j \in Job, Work(j)
    PROVE  Refusals'
<1>1. /\ met' = met /\ before' = before /\ program[j] # <<>> /\ j \in Active
      /\ \A i \in Job \ {j} : result'[i] = result[i]
  BY WorkFrames, WorkMoves, ActiveMoves DEF OwnResult
<1>2. /\ result'[j] = result[j] \/ result'[j] \in {"refuse", "nack", "failed", "no_space"}
      /\ Reads(j) /\ result'[j] # result[j] =>
                \/ ChoosePlace(j) /\ Throw(j, "failed")
                \/ Open(j) /\ File(j) = 0
  BY WorkResults
<1> SUFFICES ASSUME NEW g \in Job
             PROVE  /\ result'[g] = "get_data" => Reads(g)
                    /\ Reads(g) /\ result'[g] \in {"refuse", "failed"} =>
                          \/ Of[g] \notin Stored \cup Cached
                          \/ \E i \in Removers \cap (met[g] \cup before[g]) : Of[g] \in Touches(i)
  BY <1>1 DEF Refusals, Reads, Removers, Touches
<1>3. CASE result'[g] = result[g]
  BY <1>3 DEF Refusals
<1>4. CASE g = j /\ result'[j] # result[j]
  <2> SUFFICES ASSUME Reads(j), Of[j] \in Stored \cup Cached
               PROVE  \E i \in Removers \cap (met[j] \cup before[j]) : Of[j] \in Touches(i)
    BY <1>2, <1>4
  <2>1. Of[j] \in Uuid
    BY KindIs
  <2>2. ~ Kept(Of[j])
    <3>1. CASE ChoosePlace(j) /\ Throw(j, "failed")
      <4>1. entry["cache"][Of[j]] = 0 /\ entry["db"][Of[j]] = 0
        <5>1. Head1(j).do = "choose" /\ Kind[j] # "move"
          BY <3>1 DEF ChoosePlace, At, Reads
        <5>2. program'[j] # <<>> => Head(program'[j]).do # "open"
          BY <1>1, <3>1, <5>1, Thrown DEF Whys
        <5> QED
          BY <3>1, <5>2, ChooseMoves
      <4> QED
        BY <2>1, <4>1 DEF Presence
    <3>2. CASE Open(j) /\ File(j) = 0
      <4>1. Doing(j, "open")
        BY <3>2 DEF Open, At, Doing
      <4> QED
        BY <3>2, <4>1 DEF Presence
    <3> QED
      BY <1>2, <1>4, <3>1, <3>2
  <2>3. PICK i \in started \cap Removers : Of[j] \in Touches(i)
    BY <2>2 DEF Kept
  <2>4. i # j
    BY <2>3 DEF Removers, Reads
  <2>5. i \in before[j] \cup met[j]
    BY <1>1, <2>3, <2>4 DEF Histories
  <2> QED
    BY <2>3, <2>5
<1> QED
  BY <1>1, <1>3, <1>4

LEMMA BeginRefusals ==
    ASSUME TypeOK, MoreTypes, Answered, Histories, Refusals, NEW j \in Job, Begin(j)
    PROVE  Refusals'
<1>1. /\ j \notin started /\ result'[j] = Success[Kind[j]]
      /\ \A i \in Job \ {j} : result'[i] = result[i]
  BY BeginEffect
<1>2. /\ \A i \in Job \ {j} : before'[i] = before[i]
      /\ \A i \in Job \ {j} : met[i] \subseteq met'[i]
  BY BeginHistory
<1> SUFFICES ASSUME NEW g \in Job
             PROVE  /\ result'[g] = "get_data" => Reads(g)
                    /\ Reads(g) /\ result'[g] \in {"refuse", "failed"} =>
                          \/ Of[g] \notin Stored \cup Cached
                          \/ \E i \in Removers \cap (met'[g] \cup before'[g]) : Of[g] \in Touches(i)
  BY DEF Refusals, Reads, Removers, Touches
<1>3. CASE g = j
  <2>1. Kind[j] \in Kinds
    BY KindIs
  <2>2. result'[j] = "get_data" => Reads(j)
    BY <1>1, <2>1 DEF Success, Kinds, Reads
  <2>3. result'[j] \notin {"refuse", "failed"}
    BY <1>1, <2>1 DEF Success, Kinds
  <2> QED
    BY <1>3, <2>2, <2>3
<1>4. CASE g # j
  BY <1>1, <1>2, <1>4 DEF Refusals
<1> QED
  BY <1>3, <1>4

-----------------------------------------------------------------------------
(* Whole files, as long as it is calm *)

\* In calm, a writer and another job that are both at work share no data.
LEMMA CalmApart ==
    ASSUME Calm, Histories, NEW w \in Active \cap Writers, NEW i \in Active, i # w
    PROVE  Touches(w) \cap Touches(i) = {}
<1>1. w \in met[i] /\ w \in Writers \cap started /\ i \in started
  BY DEF Histories, Active
<1> QED
  BY <1>1 DEF Calm

LEMMA TouchesIs ==
    ASSUME NEW j \in Job
    PROVE  /\ Touches(j) \subseteq Uuid
           /\ Kind[j] \in {"save", "update", "store", "add"} \/ Reads(j) => Touches(j) = {Of[j]}
           /\ Kind[j] = "copy" => Touches(j) = {Of[j], Target[j]}
           /\ Kind[j] = "move" => Touches(j) = Uuid
           /\ Touches(j) # {}
BY JobAssumption DEF Touches, Reads

\* A job that has a file open touches the name of the file.
LEMMA OpenTouches ==
    ASSUME TypeOK, NEW home \in [1 .. Len(files) -> Places \X Uuid],
           NEW i \in Job, OpenHome(i, home)
    PROVE  /\ fd[i] # 0 => home[fd[i]][2] \in Touches(i)
           /\ out[i] # 0 => home[out[i]][2] \in Touches(i) /\ home[out[i]][1] = "db"
<1>1. fd[i] \in 0 .. Len(files) /\ out[i] \in 0 .. Len(files) /\ Len(files) \in Nat
  BY FilesAre
<1>2. /\ fd[i] # 0 => home[fd[i]] \in Places \X Uuid
      /\ out[i] # 0 => home[out[i]] \in Places \X Uuid
  BY <1>1
<1>3. CASE Kind[i] \in {"get", "read", "save", "update", "store", "add"}
  BY <1>2, <1>3, TouchesIs DEF OpenHome, Reads
<1>4. CASE Kind[i] = "copy"
  BY <1>2, <1>4, TouchesIs DEF OpenHome
<1>5. CASE Kind[i] = "move"
  BY <1>2, <1>5, TouchesIs DEF OpenHome
<1>6. CASE Kind[i] \notin {"get", "read", "save", "update", "store", "add", "copy", "move"}
  BY <1>6 DEF OpenHome
<1> QED
  BY <1>3, <1>4, <1>5, <1>6

\* Jobs that share no data have no file in common.
LEMMA FilesApart ==
    ASSUME TypeOK, Homes, NEW i \in Job, NEW j \in Job, Touches(i) \cap Touches(j) = {}
    PROVE  /\ fd[i] # 0 => fd[i] # fd[j] /\ fd[i] # out[j]
           /\ out[i] # 0 => out[i] # fd[j] /\ out[i] # out[j]
<1>1. PICK home \in [1 .. Len(files) -> Places \X Uuid] : HomesOf(home)
  BY DEF Homes
<1>2. /\ fd[i] # 0 => home[fd[i]][2] \in Touches(i)
      /\ out[i] # 0 => home[out[i]][2] \in Touches(i)
      /\ fd[j] # 0 => home[fd[j]][2] \in Touches(j)
      /\ out[j] # 0 => home[out[j]][2] \in Touches(j)
  BY <1>1, OpenTouches DEF HomesOf
<1> QED
  BY <1>2

\* A job has no file open of a name it does not touch.
LEMMA NameApart ==
    ASSUME TypeOK, Homes, NEW i \in Job, NEW p \in Places, NEW u \in Uuid, u \notin Touches(i)
    PROVE  /\ fd[i] # 0 => fd[i] # Opens(p, u)
           /\ out[i] # 0 => out[i] # Opens(p, u)
<1>1. PICK home \in [1 .. Len(files) -> Places \X Uuid] : HomesOf(home)
  BY DEF Homes
<1>2. /\ fd[i] # 0 => home[fd[i]][2] \in Touches(i)
      /\ out[i] # 0 => home[out[i]][2] \in Touches(i)
  BY <1>1, OpenTouches DEF HomesOf
<1>3. fd[i] \in 0 .. Len(files) /\ out[i] \in 0 .. Len(files) /\ Len(files) \in Nat
  BY FilesAre
<1>4. CASE entry[p][u] = 0
  BY <1>3, <1>4 DEF Opens
<1>5. CASE entry[p][u] # 0
  <2>1. home[entry[p][u]] = <<p, u>> /\ Opens(p, u) = entry[p][u]
    BY <1>1, <1>5 DEF HomesOf, EntryHome, Opens
  <2> QED
    BY <1>2, <2>1
<1> QED
  BY <1>4, <1>5

\* Each name has a file of its own, and a writer's file is that of its name.
LEMMA NamesApart ==
    ASSUME TypeOK, Homes
    PROVE  /\ \A p, q \in Places, u, x \in Uuid :
                 entry[p][u] # 0 /\ entry[p][u] = entry[q][x] => p = q /\ u = x
           /\ \A j \in Job, p \in Places, u \in Uuid :
                 /\ fd[j] # 0 /\ entry[p][u] = fd[j] => u \in Touches(j)
                 /\ out[j] # 0 /\ entry[p][u] = out[j] => p = "db" /\ u \in Touches(j)
<1>1. PICK home \in [1 .. Len(files) -> Places \X Uuid] : HomesOf(home)
  BY DEF Homes
<1>2. ASSUME NEW p \in Places, NEW q \in Places, NEW u \in Uuid, NEW x \in Uuid,
             entry[p][u] # 0, entry[p][u] = entry[q][x]
      PROVE  p = q /\ u = x
  <2>1. home[entry[p][u]] = <<p, u>> /\ home[entry[q][x]] = <<q, x>>
    BY <1>1, <1>2 DEF HomesOf, EntryHome
  <2>2. <<p, u>> = <<q, x>>
    BY <1>2, <2>1
  <2> QED
    BY <2>2
<1>3. ASSUME NEW j \in Job, NEW p \in Places, NEW u \in Uuid
      PROVE  /\ fd[j] # 0 /\ entry[p][u] = fd[j] => u \in Touches(j)
             /\ out[j] # 0 /\ entry[p][u] = out[j] => p = "db" /\ u \in Touches(j)
  <2>1. entry[p][u] # 0 => home[entry[p][u]][1] = p /\ home[entry[p][u]][2] = u
    BY <1>1 DEF HomesOf, EntryHome
  <2>2. /\ fd[j] # 0 => home[fd[j]][2] \in Touches(j)
        /\ out[j] # 0 => home[out[j]][2] \in Touches(j) /\ home[out[j]][1] = "db"
    BY <1>1, OpenTouches DEF HomesOf
  <2> QED
    BY <2>1, <2>2
<1> QED
  BY <1>2, <1>3

\* Blank files are those of a writer at work.
LEMMA BlankBy ==
    ASSUME MoreTypes, Programs, Answered, NEW f, Blank(f)
    PROVE  \E w \in Active \cap Writers :
              \/ Doing(w, "write") /\ fd[w] = f
              \/ Doing(w, "pour") /\ out[w] = f
<1>1. PICK w \in Job : \/ Doing(w, "write") /\ fd[w] = f
                       \/ Doing(w, "pour") /\ out[w] = f
  BY DEF Blank
<1>2. program[w] # <<>> /\ Head1(w).do \in {"write", "pour"}
  BY <1>1 DEF Doing
<1>3. w \in Writers
  BY <1>2, KindsDoing DEF Writers
<1>4. w \in Active
  BY <1>2 DEF Active, Answered
<1> QED
  BY <1>1, <1>3, <1>4

\* In calm, what another job at work finds under a name it touches is whole.
LEMMA WholeForOthers ==
    ASSUME TypeOK, MoreTypes, Programs, Answered, Homes, HasOpen, Histories, WholeFiles, Calm,
           NEW j \in Active, NEW p \in Places, NEW u \in Touches(j), entry[p][u] # 0,
           \A do \in {"write", "pour"} : ~ Doing(j, do)
    PROVE  Whole(files[entry[p][u]], u)
<1>1. j \in Job /\ u \in Uuid
  BY TouchesIs DEF Active, TypeOK
<1>2. Whole(files[entry[p][u]], u) \/ Blank(entry[p][u])
  BY <1>1 DEF WholeFiles, WholeNames
<1> SUFFICES ASSUME Blank(entry[p][u]) PROVE FALSE
  BY <1>2
<1>3. PICK w \in Active \cap Writers :
              \/ Doing(w, "write") /\ fd[w] = entry[p][u]
              \/ Doing(w, "pour") /\ out[w] = entry[p][u]
  BY BlankBy
<1>4. w # j /\ w \in Job
  BY <1>3 DEF Writers
<1>5. u \in Touches(w)
  BY <1>1, <1>3, <1>4, NamesApart
<1>6. Touches(w) \cap Touches(j) = {}
  BY <1>3, <1>4, CalmApart
<1> QED
  BY <1>5, <1>6

\* The same after a step, said of the values that the variables then have.
BlankAfter(f) == \E w \in Job :
    \/ Doing(w, "write")' /\ fd'[w] = f
    \/ Doing(w, "pour")' /\ out'[w] = f
NameAfter(p, u) == entry'[p][u] # 0 =>
    Whole(files'[entry'[p][u]], u) \/ BlankAfter(entry'[p][u])
OpenAfter(j) ==
    /\ Doing(j, "write")' => files'[fd'[j]] = <<>>
    /\ Doing(j, "pour")' =>
          /\ files'[out'[j]] = <<>>
          /\ \A u \in Uuid : entry'["db"][u] = out'[j] => Whole(files'[fd'[j]], u)
    /\ \A do \in {"measure", "load"} : Doing(j, do)' => Whole(files'[fd'[j]], Of[j])
    /\ Doing(j, "load")' => len'[j] = Len(files'[fd'[j]])

LEMMA WholeFrom ==
    ASSUME Calm' => /\ \A p \in Places, u \in Uuid : NameAfter(p, u)
                    /\ \A j \in Job : OpenAfter(j)
    PROVE  WholeFiles'
<1> SUFFICES ASSUME Calm' PROVE WholeNames' /\ \A j \in Job : WholeOpen(j)'
  BY DEF WholeFiles
<1>1. ASSUME NEW p \in Places, NEW u \in Uuid, NameAfter(p, u)
      PROVE  (entry[p][u] # 0 => Whole(files[entry[p][u]], u) \/ Blank(entry[p][u]))'
  BY <1>1 DEF NameAfter, BlankAfter, Blank, Whole, VersionsOf, Sources, Writers
<1>2. ASSUME NEW j \in Job, OpenAfter(j)
      PROVE  WholeOpen(j)'
  BY <1>2 DEF OpenAfter, WholeOpen, Whole, VersionsOf, Sources, Writers
<1> QED
  BY <1>1, <1>2 DEF WholeNames

LEMMA CalmBefore ==
    ASSUME TypeOK, Calm', started \subseteq started',
           \A i \in started : met[i] \subseteq met'[i]
    PROVE  Calm
BY DEF Calm, Writers, Touches

\* What other jobs have open stays whole if their files and names stay.
LEMMA OthersWhole ==
    ASSUME HasOpen, NEW i \in Job, WholeOpen(i),
           program'[i] = program[i], fd'[i] = fd[i], out'[i] = out[i], len'[i] = len[i],
           fd[i] # 0 => files'[fd[i]] = files[fd[i]],
           out[i] # 0 => files'[out[i]] = files[out[i]],
           \A u \in Uuid : out[i] # 0 /\ entry'["db"][u] = out[i] => entry["db"][u] = out[i]
    PROVE  OpenAfter(i)
<1>1. \A do : Doing(i, do)' <=> Doing(i, do)
  BY DEF Doing, Head1
<1>2. \A do \in {"measure", "load", "write", "pour"} :
         Doing(i, do) => fd[i] # 0 /\ files'[fd'[i]] = files[fd[i]]
  BY DEF HasOpen
<1>3. Doing(i, "pour") => out[i] # 0 /\ files'[out'[i]] = files[out[i]]
  BY DEF HasOpen
<1> QED
  BY <1>1, <1>2, <1>3 DEF OpenAfter, WholeOpen

LEMMA BlankStays ==
    ASSUME NEW j \in Job, NEW f, Blank(f),
           Doing(j, "write") => fd[j] # f, Doing(j, "pour") => out[j] # f,
           \A i \in Job \ {j} : program'[i] = program[i] /\ fd'[i] = fd[i] /\ out'[i] = out[i]
    PROVE  BlankAfter(f)
<1>1. PICK w \in Job : \/ Doing(w, "write") /\ fd[w] = f
                       \/ Doing(w, "pour") /\ out[w] = f
  BY DEF Blank
<1>2. w # j
  BY <1>1
<1>3. \A do : Doing(w, do)' <=> Doing(w, do)
  BY <1>2 DEF Doing, Head1
<1> QED
  BY <1>1, <1>2, <1>3 DEF BlankAfter

\* Others stay as they are, j changes its own program and files only.
Alone(j) == \A i \in Job \ {j} :
    /\ program'[i] = program[i] /\ fd'[i] = fd[i] /\ out'[i] = out[i] /\ len'[i] = len[i]

\* No file is written to and no name gets another file.
LEMMA QuietWhole ==
    ASSUME TypeOK, HasOpen, WholeFiles, Calm, NEW j \in Job, Alone(j), files' = files,
           \A p \in Places, u \in Uuid : entry'[p][u] # 0 => entry'[p][u] = entry[p][u],
           ~ Doing(j, "write"), ~ Doing(j, "pour")
    PROVE  /\ \A p \in Places, u \in Uuid : NameAfter(p, u)
           /\ \A i \in Job \ {j} : OpenAfter(i)
<1>1. WholeNames /\ \A i \in Job : WholeOpen(i)
  BY DEF WholeFiles
<1>2. ASSUME NEW p \in Places, NEW u \in Uuid PROVE NameAfter(p, u)
  <2> SUFFICES ASSUME entry'[p][u] # 0
               PROVE  Whole(files'[entry'[p][u]], u) \/ BlankAfter(entry'[p][u])
    BY DEF NameAfter
  <2>1. entry'[p][u] = entry[p][u] /\ entry[p][u] # 0
    OBVIOUS
  <2>2. Whole(files[entry[p][u]], u) \/ Blank(entry[p][u])
    BY <1>1, <2>1 DEF WholeNames
  <2>3. ASSUME Blank(entry[p][u]) PROVE BlankAfter(entry[p][u])
    BY <2>3, BlankStays DEF Alone
  <2> QED
    BY <2>1, <2>2, <2>3
<1>3. ASSUME NEW i \in Job \ {j} PROVE OpenAfter(i)
  <2>1. \A u \in Uuid : out[i] # 0 /\ entry'["db"][u] = out[i] => entry["db"][u] = out[i]
    BY DEF Places
  <2> QED
    BY <1>1, <2>1, OthersWhole DEF Alone
<1> QED
  BY <1>2, <1>3

\* The file of a name is emptied or made by a writer.
LEMMA OpenedWhole ==
    ASSUME TypeOK, MoreTypes, Programs, Answered, Homes, HasOpen, Histories, WholeFiles, Calm,
           NEW j \in Active \cap Writers, Alone(j),
           NEW p \in Places, NEW u \in Touches(j), Opened(p, u),
           ~ Doing(j, "write"), ~ Doing(j, "pour")
    PROVE  /\ \A q \in Places, x \in Uuid : <<q, x>> # <<p, u>> =>
                 (entry'[q][x] # 0 => entry'[q][x] # Opens(p, u)) /\ NameAfter(q, x)
           /\ \A i \in Job \ {j} : OpenAfter(i)
           /\ entry'[p][u] = Opens(p, u) /\ files'[Opens(p, u)] = <<>>
           /\ \A f \in 1 .. Len(files) : f # Opens(p, u) => files'[f] = files[f]
<1>0. j \in Job /\ u \in Uuid
  BY TouchesIs DEF Writers
<1>1. WholeNames /\ \A i \in Job : WholeOpen(i)
  BY DEF WholeFiles
<1>2. /\ \/ entry[p][u] # 0 /\ Opens(p, u) = entry[p][u]
         \/ entry[p][u] = 0 /\ Opens(p, u) = Len(files) + 1
      /\ files'[Opens(p, u)] = <<>> /\ entry'[p][u] = Opens(p, u)
      /\ \A f \in 1 .. Len(files) : f # Opens(p, u) => files'[f] = files[f]
      /\ \A q \in Places, x \in Uuid : <<q, x>> # <<p, u>> => entry'[q][x] = entry[q][x]
  BY <1>0, OpenedEffect
<1>3. /\ Len(files) \in Nat
      /\ \A q \in Places, x \in Uuid : entry[q][x] \in 0 .. Len(files)
      /\ \A i \in Job : fd[i] \in 0 .. Len(files) /\ out[i] \in 0 .. Len(files)
  BY FilesAre
<1>4. ASSUME NEW q \in Places, NEW x \in Uuid, <<q, x>> # <<p, u>>
      PROVE  (entry'[q][x] # 0 => entry'[q][x] # Opens(p, u)) /\ NameAfter(q, x)
  <2> SUFFICES ASSUME entry'[q][x] # 0
               PROVE  /\ entry'[q][x] # Opens(p, u)
                      /\ Whole(files'[entry'[q][x]], x) \/ BlankAfter(entry'[q][x])
    BY DEF NameAfter
  <2>1. entry'[q][x] = entry[q][x] /\ entry[q][x] \in 1 .. Len(files)
    BY <1>2, <1>3, <1>4
  <2>2. entry[q][x] # Opens(p, u)
    <3>1. CASE entry[p][u] # 0 /\ Opens(p, u) = entry[p][u]
      BY <1>0, <1>4, <3>1, NamesApart
    <3>2. CASE Opens(p, u) = Len(files) + 1
      BY <1>3, <2>1, <3>2
    <3> QED
      BY <1>2, <3>1, <3>2
  <2>3. files'[entry[q][x]] = files[entry[q][x]]
    BY <1>2, <2>1, <2>2
  <2>4. Whole(files[entry[q][x]], x) \/ Blank(entry[q][x])
    BY <1>1, <2>1 DEF WholeNames
  <2>5. ASSUME Blank(entry[q][x]) PROVE BlankAfter(entry[q][x])
    BY <1>0, <2>5, BlankStays DEF Alone
  <2> QED
    BY <2>1, <2>2, <2>3, <2>4, <2>5
<1>5. ASSUME NEW i \in Job \ {j} PROVE OpenAfter(i)
  <2>1. CASE i \in Active
    <3>1. u \notin Touches(i)
      BY <1>0, <2>1, CalmApart
    <3>2. /\ fd[i] # 0 => fd[i] # Opens(p, u) /\ fd[i] \in 1 .. Len(files)
          /\ out[i] # 0 => out[i] # Opens(p, u) /\ out[i] \in 1 .. Len(files)
      BY <1>0, <1>3, <3>1, NameApart
    <3>3. \A x \in Uuid : out[i] # 0 /\ entry'["db"][x] = out[i] => entry["db"][x] = out[i]
      <4>1. "db" \in Places
        BY DEF Places
      <4> QED
        BY <1>2, <3>2, <4>1
    <3> QED
      BY <1>1, <1>2, <3>2, <3>3, OthersWhole DEF Alone
  <2>2. CASE i \notin Active
    <3>1. program'[i] = <<>>
      BY <2>2 DEF Active, Answered, Alone
    <3> QED
      BY <3>1 DEF OpenAfter, Doing
  <2> QED
    BY <2>1, <2>2
<1> QED
  BY <1>2, <1>4, <1>5

\* The file that a writer has open is written.
LEMMA WrittenWhole ==
    ASSUME TypeOK, MoreTypes, Programs, Answered, Homes, HasOpen, Histories, WholeFiles, Calm,
           NEW j \in Active \cap Writers, Alone(j), entry' = entry,
           NEW f \in 1 .. Len(files), f = fd[j] \/ f = out[j],
           \A g \in 1 .. Len(files) : g # f => files'[g] = files[g],
           Doing(j, "write") => f = fd[j], Doing(j, "pour") => f = out[j]
    PROVE  /\ \A q \in Places, x \in Uuid : entry'[q][x] # f => NameAfter(q, x)
           /\ \A i \in Job \ {j} : OpenAfter(i)
<1>0. j \in Job
  BY DEF Writers
<1>1. WholeNames /\ \A i \in Job : WholeOpen(i)
  BY DEF WholeFiles
<1>3. /\ Len(files) \in Nat
      /\ \A q \in Places, x \in Uuid : entry[q][x] \in 0 .. Len(files)
      /\ \A i \in Job : fd[i] \in 0 .. Len(files) /\ out[i] \in 0 .. Len(files)
  BY FilesAre
<1>4. ASSUME NEW q \in Places, NEW x \in Uuid, entry'[q][x] # f
      PROVE  NameAfter(q, x)
  <2> SUFFICES ASSUME entry'[q][x] # 0
               PROVE  Whole(files'[entry'[q][x]], x) \/ BlankAfter(entry'[q][x])
    BY DEF NameAfter
  <2>1. entry'[q][x] = entry[q][x] /\ entry[q][x] \in 1 .. Len(files)
    BY <1>3
  <2>3. files'[entry[q][x]] = files[entry[q][x]]
    BY <1>4, <2>1
  <2>4. Whole(files[entry[q][x]], x) \/ Blank(entry[q][x])
    BY <1>1, <2>1 DEF WholeNames
  <2>5. ASSUME Blank(entry[q][x]) PROVE BlankAfter(entry[q][x])
    <3>1. (Doing(j, "write") => fd[j] # entry[q][x]) /\ (Doing(j, "pour") => out[j] # entry[q][x])
      BY <1>4, <2>1
    <3> QED
      BY <1>0, <2>5, <3>1, BlankStays DEF Alone
  <2> QED
    BY <2>1, <2>3, <2>4, <2>5
<1>5. ASSUME NEW i \in Job \ {j} PROVE OpenAfter(i)
  <2>1. CASE i \in Active
    <3>1. Touches(i) \cap Touches(j) = {}
      BY <1>0, <2>1, CalmApart
    <3>2. /\ fd[i] # 0 => fd[i] # f /\ fd[i] \in 1 .. Len(files)
          /\ out[i] # 0 => out[i] # f /\ out[i] \in 1 .. Len(files)
      BY <1>0, <1>3, <3>1, FilesApart
    <3> QED
      BY <1>1, <3>2, OthersWhole DEF Alone
  <2>2. CASE i \notin Active
    <3>1. program'[i] = <<>>
      BY <2>2 DEF Active, Answered, Alone
    <3> QED
      BY <3>1 DEF OpenAfter, Doing
  <2> QED
    BY <2>1, <2>2
<1> QED
  BY <1>4, <1>5

LEMMA WorkAlone ==
    ASSUME TypeOK, MoreTypes, Programs, Answered, Locked, HasOpen, NEW j \in Job, Work(j)
    PROVE  Alone(j) /\ j \in Active /\ (Calm' => Calm)
<1>1. Alone(j) /\ j \in Active
  BY WorkOwn, ActiveMoves DEF Alone
<1>2. Calm' => Calm
  BY CalmBefore, WorkFrames
<1> QED
  BY <1>1, <1>2

\* A writer opens its file.
LEMMA TruncateWhole ==
    ASSUME TypeOK, MoreTypes, Programs, Answered, Homes, HasOpen, Histories, WholeFiles, Calm,
           NEW j \in Active, j \in Job, Truncate(j), Alone(j), Opened(PlaceOf(j), Of[j]),
           fd'[j] = Opens(PlaceOf(j), Of[j]),
           program'[j] # <<>>, Head(program'[j]).do = "write"
    PROVE  /\ \A p \in Places, u \in Uuid : NameAfter(p, u)
           /\ \A i \in Job : OpenAfter(i)
<1> DEFINE p1 == PlaceOf(j)
           u1 == Of[j]
<1>1. /\ program[j] # <<>> /\ Head1(j).do = "truncate"
      /\ Kind[j] \in {"save", "update", "store", "add"} /\ p1 \in Places
  BY TruncateEffect
<1>2. j \in Writers /\ u1 \in Touches(j) /\ u1 \in Uuid
  BY <1>1, TouchesIs, KindIs DEF Writers
<1>3. ~ Doing(j, "write") /\ ~ Doing(j, "pour")
  BY <1>1 DEF Doing
<1>4. Doing(j, "write")' /\ \A do : Doing(j, do)' => do = "write"
  BY DEF Doing, Head1
<1> HIDE DEF p1, u1
<1>5. Opened(p1, u1) /\ fd'[j] = Opens(p1, u1)
  BY DEF p1, u1
<1>6. /\ \A q \in Places, x \in Uuid : <<q, x>> # <<p1, u1>> => NameAfter(q, x)
      /\ \A i \in Job \ {j} : OpenAfter(i)
      /\ entry'[p1][u1] = Opens(p1, u1) /\ files'[Opens(p1, u1)] = <<>>
  BY <1>1, <1>2, <1>3, <1>5, OpenedWhole
<1>7. NameAfter(p1, u1)
  BY <1>4, <1>5, <1>6 DEF NameAfter, BlankAfter
<1>8. ASSUME NEW q \in Places, NEW x \in Uuid PROVE NameAfter(q, x)
  <2>1. CASE q = p1 /\ x = u1
    BY <1>7, <2>1
  <2>2. CASE ~ (q = p1 /\ x = u1)
    BY <1>6, <2>2
  <2> QED
    BY <2>1, <2>2
<1>9. OpenAfter(j)
  BY <1>4, <1>5, <1>6 DEF OpenAfter
<1> QED
  BY <1>6, <1>8, <1>9

\* A copy opens its two files.
LEMMA DuplicateWhole ==
    ASSUME TypeOK, MoreTypes, Programs, Answered, Homes, HasOpen, Histories, WholeFiles, Calm,
           NEW j \in Active, j \in Job, Duplicate(j), Alone(j),
           File(j) # 0, Opened("db", CopyName(j)),
           fd'[j] = File(j), out'[j] = Opens("db", CopyName(j)),
           program'[j] # <<>>, Head(program'[j]).do = "pour"
    PROVE  /\ \A p \in Places, u \in Uuid : NameAfter(p, u)
           /\ \A i \in Job : OpenAfter(i)
<1> DEFINE u1 == CopyName(j)
           s1 == Head1(j).of
           p0 == PlaceOf(j)
<1>1. /\ program[j] # <<>> /\ Head1(j).do = "duplicate" /\ Kind[j] \in {"copy", "move"}
      /\ Head1(j).in = p0 /\ p0 \in Places /\ "db" \in Places
      /\ s1 \in Uuid /\ u1 \in Uuid
      /\ Kind[j] = "copy" => s1 = Of[j] /\ u1 = Target[j]
      /\ Kind[j] = "move" => u1 = s1
  BY DuplicateEffect
<1>2. j \in Writers /\ u1 \in Touches(j) /\ s1 \in Touches(j)
  BY <1>1, TouchesIs DEF Writers
<1>3. \A do \in {"write", "pour"} : ~ Doing(j, do)
  BY <1>1 DEF Doing
<1>4. Doing(j, "pour")' /\ \A do : Doing(j, do)' => do = "pour"
  BY DEF Doing, Head1
<1>5. File(j) = entry[p0][s1]
  BY <1>1 DEF File
<1>a. <<p0, s1>> # <<"db", u1>>
  BY <1>1, JobAssumption DEF PlaceOf
<1> HIDE DEF p0, u1, s1
<1>6. Whole(files[entry[p0][s1]], s1) /\ entry[p0][s1] # 0
  BY <1>1, <1>2, <1>3, <1>5, WholeForOthers
<1>7. Opened("db", u1) /\ fd'[j] = entry[p0][s1] /\ out'[j] = Opens("db", u1)
  BY <1>5 DEF u1
<1>8. /\ \A q \in Places, x \in Uuid : <<q, x>> # <<"db", u1>> =>
            (entry'[q][x] # 0 => entry'[q][x] # Opens("db", u1)) /\ NameAfter(q, x)
      /\ \A i \in Job \ {j} : OpenAfter(i)
      /\ entry'["db"][u1] = Opens("db", u1) /\ files'[Opens("db", u1)] = <<>>
      /\ \A f \in 1 .. Len(files) : f # Opens("db", u1) => files'[f] = files[f]
  BY <1>1, <1>2, <1>3, <1>7, OpenedWhole
<1>9. NameAfter("db", u1)
  BY <1>4, <1>7, <1>8 DEF NameAfter, BlankAfter
<1>10. ASSUME NEW q \in Places, NEW x \in Uuid PROVE NameAfter(q, x)
  <2>1. CASE q = "db" /\ x = u1
    BY <1>9, <2>1
  <2>2. CASE ~ (q = "db" /\ x = u1)
    BY <1>8, <2>2
  <2> QED
    BY <2>1, <2>2
<1>11. files'[entry[p0][s1]] = files[entry[p0][s1]]
  <2>0. Len(files) \in Nat /\ \A q \in Places, x \in Uuid : entry[q][x] \in 0 .. Len(files)
    BY FilesAre
  <2>1. entry[p0][s1] \in 1 .. Len(files)
    BY <1>1, <1>6, <2>0
  <2>2. entry[p0][s1] # Opens("db", u1)
    <3>1. CASE entry["db"][u1] # 0
      <4>1. Opens("db", u1) = entry["db"][u1]
        BY <3>1 DEF Opens
      <4> QED
        BY <1>1, <1>6, <1>a, <4>1, NamesApart
    <3>2. CASE entry["db"][u1] = 0
      BY <2>0, <2>1, <3>2 DEF Opens
    <3> QED
      BY <3>1, <3>2
  <2> QED
    BY <1>8, <2>1, <2>2
<1>12. Whole(files[entry[p0][s1]], u1)
  <2>1. VersionsOf[s1] \subseteq VersionsOf[u1]
    <3>1. CASE Kind[j] = "copy"
      BY <1>1, <3>1, VersionsGrow DEF s1, u1
    <3>2. CASE Kind[j] = "move"
      BY <1>1, <3>2
    <3> QED
      BY <1>1, <3>1, <3>2
  <2> QED
    BY <1>6, <2>1 DEF Whole
<1>13. OpenAfter(j)
  <2>1. ASSUME NEW u \in Uuid, entry'["db"][u] = out'[j]
        PROVE  Whole(files'[fd'[j]], u)
    <3>1. u = u1
      <4>1. entry'["db"][u] = Opens("db", u1)
        BY <1>7, <2>1
      <4>2. Opens("db", u1) # 0
        <5>1. Len(files) \in Nat
          BY FilesAre
        <5> QED
          BY <5>1 DEF Opens
      <4> QED
        BY <1>1, <1>8, <4>1, <4>2
    <3> QED
      BY <1>7, <1>11, <1>12, <3>1
  <2> QED
    BY <1>4, <1>7, <1>8, <2>1 DEF OpenAfter
<1> QED
  BY <1>8, <1>10, <1>13

\* A writer writes its data.
LEMMA WriteWhole ==
    ASSUME TypeOK, MoreTypes, Programs, Answered, Homes, HasOpen, Histories, WholeFiles, Calm,
           NEW j \in Active, j \in Job, Write(j), Alone(j)
    PROVE  /\ \A p \in Places, u \in Uuid : NameAfter(p, u)
           /\ \A i \in Job : OpenAfter(i)
<1> DEFINE f == fd[j]
<1>1. /\ program[j] # <<>> /\ Head1(j).do = "write"
      /\ Kind[j] \in {"save", "update", "store", "add"} /\ f \in 1 .. Len(files)
  BY WriteEffect
<1>2. j \in Writers \cap started /\ Touches(j) = {Of[j]} /\ Of[j] \in Uuid
  BY <1>1, TouchesIs, KindIs DEF Writers, Active
<1>3. j \notin Faulty
  BY <1>2 DEF Calm
<1>4. /\ files'[f] = Overlay(files[f], Written(j)) /\ Continue(j, 1)
      /\ \A g \in 1 .. Len(files) : g # f => files'[g] = files[g]
  BY <1>3, WriteEffect
<1>5. Doing(j, "write") /\ ~ Doing(j, "pour")
  BY <1>1 DEF Doing
<1>6. files[f] = <<>>
  BY <1>5 DEF WholeFiles, WholeOpen
<1>7. files'[f] = Written(j)
  <2>1. Written(j) \in Seq(Version) /\ files[f] \in Seq(Version)
    BY <1>1, WrittenIs, FilesAre
  <2> QED
    BY <1>4, <1>6, <2>1, OverlayIs
<1>8. Whole(files'[f], Of[j])
  BY <1>2, <1>7, VersionsGrow DEF Whole, Written
<1>9. entry' = entry
  BY DEF Write
<1> HIDE DEF f
<1>10. /\ \A q \in Places, x \in Uuid : entry'[q][x] # f => NameAfter(q, x)
       /\ \A i \in Job \ {j} : OpenAfter(i)
  BY <1>1, <1>2, <1>4, <1>5, <1>9, WrittenWhole DEF f
<1>11. ASSUME NEW q \in Places, NEW x \in Uuid, entry'[q][x] = f
       PROVE  NameAfter(q, x)
  <2>1. x = Of[j]
    BY <1>1, <1>2, <1>9, <1>11, NamesApart DEF f
  <2> QED
    BY <1>8, <1>11, <2>1 DEF NameAfter
<1>12. OpenAfter(j)
  <2>1. program'[j] # <<>> => Head(program'[j]).do = "count"
    BY <1>1, <1>4, ContinuedOne DEF After
  <2> QED
    BY <2>1 DEF OpenAfter, Doing, Head1
<1> QED
  BY <1>10, <1>11, <1>12

\* A copy writes what it has read.
LEMMA PourWhole ==
    ASSUME TypeOK, MoreTypes, Programs, Answered, Homes, HasOpen, Histories, WholeFiles, Calm,
           NEW j \in Active, j \in Job, Pour(j), Alone(j)
    PROVE  /\ \A p \in Places, u \in Uuid : NameAfter(p, u)
           /\ \A i \in Job : OpenAfter(i)
<1> DEFINE f == out[j]
<1>1. /\ program[j] # <<>> /\ Head1(j).do = "pour" /\ Kind[j] \in {"copy", "move"}
      /\ f \in 1 .. Len(files) /\ fd[j] \in 1 .. Len(files) /\ Continue(j, 1)
      /\ files'[f] = Overlay(files[f], files[fd[j]])
      /\ \A g \in 1 .. Len(files) : g # f => files'[g] = files[g]
  BY PourEffect
<1>2. j \in Writers
  BY <1>1 DEF Writers
<1>5. Doing(j, "pour") /\ ~ Doing(j, "write")
  BY <1>1 DEF Doing
<1>6. files[f] = <<>> /\ \A u \in Uuid : entry["db"][u] = f => Whole(files[fd[j]], u)
  BY <1>5 DEF WholeFiles, WholeOpen
<1>7. files'[f] = files[fd[j]]
  <2>1. files[fd[j]] \in Seq(Version) /\ files[f] \in Seq(Version)
    BY <1>1, FilesAre
  <2> QED
    BY <1>1, <1>6, <2>1, OverlayIs
<1>9. entry' = entry
  BY DEF Pour
<1> HIDE DEF f
<1>10. /\ \A q \in Places, x \in Uuid : entry'[q][x] # f => NameAfter(q, x)
       /\ \A i \in Job \ {j} : OpenAfter(i)
  BY <1>1, <1>2, <1>5, <1>9, WrittenWhole DEF f
<1>11. ASSUME NEW q \in Places, NEW x \in Uuid, entry'[q][x] = f
       PROVE  NameAfter(q, x)
  <2>1. q = "db"
    BY <1>1, <1>9, <1>11, NamesApart DEF f
  <2>2. Whole(files[fd[j]], x)
    BY <1>6, <1>9, <1>11, <2>1
  <2> QED
    BY <1>7, <1>11, <2>2 DEF NameAfter
<1>12. OpenAfter(j)
  <2>1. program'[j] # <<>> => Head(program'[j]).do \in {"remove", "count"}
    BY <1>1, ContinuedOne DEF After
  <2> QED
    BY <2>1 DEF OpenAfter, Doing, Head1
<1> QED
  BY <1>10, <1>11, <1>12

\* Every other step leaves the files as they are.
LEMMA RestWhole ==
    ASSUME TypeOK, MoreTypes, Programs, Answered, Homes, HasOpen, Histories, WholeFiles, Calm,
           NEW j \in Active, j \in Job, Work(j), Alone(j), ~ Write(j), ~ Pour(j),
           Truncate(j) => Throw(j, "no_space") /\ files' = files /\ entry' = entry,
           Duplicate(j) => Throw(j, "failed") /\ files' = files /\ entry' = entry
    PROVE  /\ \A p \in Places, u \in Uuid : NameAfter(p, u)
           /\ \A i \in Job : OpenAfter(i)
<1>1. program[j] # <<>> /\ Moved(j)
  BY WorkMoves
<1>2. Head1(j).do # "write" /\ Head1(j).do # "pour"
  BY WorkDoes
<1>3. ~ Doing(j, "write") /\ ~ Doing(j, "pour")
  BY <1>2 DEF Doing
<1>4. files' = files
  BY WorkFrames
<1>5. ASSUME NEW p \in Places, NEW u \in Uuid, entry'[p][u] # 0
      PROVE  entry'[p][u] = entry[p][u]
  <2>1. CASE RemoveFile(j)
    <3>1. CASE <<p, u>> = <<Head1(j).in, Head1(j).of>>
      <4>1. p = Head1(j).in /\ u = Head1(j).of
        BY <3>1
      <4> QED
        BY <1>5, <2>1, <4>1, RemoveEffect
    <3>2. \A q \in Places, x \in Uuid :
             <<q, x>> # <<Head1(j).in, Head1(j).of>> => entry'[q][x] = entry[q][x]
      BY <2>1, RemoveEffect
    <3> QED
      BY <3>1, <3>2
  <2> QED
    BY <2>1, WorkFrames
<1>6. /\ \A p \in Places, u \in Uuid : NameAfter(p, u)
      /\ \A i \in Job \ {j} : OpenAfter(i)
  BY <1>3, <1>4, <1>5, QuietWhole
<1>7. ASSUME NEW do, Doing(j, do)'
      PROVE  program'[j] # <<>> /\ Head(program'[j]).do = do /\ EntersFrom(Head1(j).do, do)
  BY <1>1, <1>7 DEF Moved, Doing, Head1
<1>8. ~ Doing(j, "write")'
  <2> SUFFICES ASSUME Doing(j, "write")' PROVE FALSE
    OBVIOUS
  <2>1. Truncate(j) /\ Head1(j).do = "truncate"
    BY <1>7, WorkDoes DEF EntersFrom
  <2>2. Kind[j] # "move"
    BY <2>1, TruncateEffect
  <2> QED
    BY <1>1, <1>7, <2>1, <2>2, Thrown DEF Whys
<1>9. ~ Doing(j, "pour")'
  <2> SUFFICES ASSUME Doing(j, "pour")' PROVE FALSE
    OBVIOUS
  <2>1. Duplicate(j) /\ Head1(j).do = "duplicate"
    BY <1>7, WorkDoes DEF EntersFrom
  <2> QED
    BY <1>1, <1>7, <2>1, Thrown DEF Whys
<1>10. ASSUME Doing(j, "measure")'
       PROVE  Whole(files'[fd'[j]], Of[j])
  <2>1. Open(j) /\ Head1(j).do = "open"
    BY <1>7, <1>10, WorkDoes DEF EntersFrom
  <2>2. Reads(j) /\ Head1(j).of = Of[j] /\ Head1(j).in \in Places
    BY <2>1, OpenEffect
  <2>3. Kind[j] # "move"
    BY <2>2 DEF Reads
  <2>4. ~ Throw(j, "failed")
    BY <1>1, <1>7, <1>10, <2>3, Thrown DEF Whys
  <2>5. File(j) # 0 /\ fd' = [fd EXCEPT ![j] = File(j)]
    BY <2>1, <2>4, OpenEffect
  <2>6. fd'[j] = entry[Head1(j).in][Of[j]] /\ entry[Head1(j).in][Of[j]] # 0
    BY <2>2, <2>5 DEF File, TypeOK
  <2>7. Of[j] \in Touches(j)
    BY <2>2, TouchesIs
  <2>8. \A do \in {"write", "pour"} : ~ Doing(j, do)
    BY <1>3
  <2>9. Whole(files[entry[Head1(j).in][Of[j]]], Of[j])
    BY <2>2, <2>6, <2>7, <2>8, WholeForOthers
  <2> QED
    BY <1>4, <2>6, <2>9
<1>11. ASSUME Doing(j, "load")'
       PROVE  Whole(files'[fd'[j]], Of[j]) /\ len'[j] = Len(files'[fd'[j]])
  <2>1. Measure(j) /\ Head1(j).do = "measure"
    BY <1>7, <1>11, WorkDoes DEF EntersFrom
  <2>2. Doing(j, "measure")
    BY <1>1, <2>1 DEF Doing
  <2>3. Whole(files[fd[j]], Of[j])
    BY <2>2 DEF WholeFiles, WholeOpen
  <2>4. fd' = fd /\ len'[j] = Len(files[fd[j]])
    BY <2>1 DEF Measure, TypeOK
  <2> QED
    BY <1>4, <2>3, <2>4
<1>12. OpenAfter(j)
  BY <1>8, <1>9, <1>10, <1>11 DEF OpenAfter
<1> QED
  BY <1>6, <1>12

LEMMA WorkWhole ==
    ASSUME TypeOK, MoreTypes, Programs, Answered, Locked, Homes, HasOpen, Histories, WholeFiles,
           NEW j \in Job, Work(j)
    PROVE  WholeFiles'
<1> SUFFICES ASSUME Calm'
             PROVE  /\ \A p \in Places, u \in Uuid : NameAfter(p, u)
                    /\ \A i \in Job : OpenAfter(i)
  BY WholeFrom
<1>1. Alone(j) /\ j \in Active /\ Calm
  BY WorkAlone
<1>2. CASE Truncate(j)
  <2>1. CASE Throw(j, "no_space") /\ UNCHANGED <<files, entry, fd, len>>
    <3>1. Head1(j).do = "truncate"
      BY <1>2, TruncateEffect
    <3>2. ~ Write(j) /\ ~ Pour(j) /\ ~ Duplicate(j)
      BY <3>1 DEF Write, Pour, Duplicate, At
    <3> QED
      BY <1>1, <2>1, <3>2, RestWhole
  <2>2. CASE /\ Opened(PlaceOf(j), Of[j])
             /\ fd' = [fd EXCEPT ![j] = Opens(PlaceOf(j), Of[j])]
             /\ program'[j] # <<>> /\ Head(program'[j]).do = "write"
    <3>1. fd'[j] = Opens(PlaceOf(j), Of[j])
      BY <2>2 DEF TypeOK
    <3> QED
      BY <1>1, <1>2, <2>2, <3>1, TruncateWhole
  <2> QED
    BY <1>2, <2>1, <2>2, TruncateEffect
<1>3. CASE Duplicate(j)
  <2>1. CASE Throw(j, "failed") /\ UNCHANGED <<files, entry, fd, out>>
    <3>1. Head1(j).do = "duplicate"
      BY <1>3, DuplicateEffect
    <3>2. ~ Write(j) /\ ~ Pour(j) /\ ~ Truncate(j)
      BY <3>1 DEF Write, Pour, Truncate, At
    <3> QED
      BY <1>1, <2>1, <3>2, RestWhole
  <2>2. CASE /\ File(j) # 0 /\ Opened("db", CopyName(j))
             /\ fd' = [fd EXCEPT ![j] = File(j)]
             /\ out' = [out EXCEPT ![j] = Opens("db", CopyName(j))]
             /\ program'[j] # <<>> /\ Head(program'[j]).do = "pour"
    <3>1. fd'[j] = File(j) /\ out'[j] = Opens("db", CopyName(j))
      BY <2>2 DEF TypeOK
    <3> QED
      BY <1>1, <1>3, <2>2, <3>1, DuplicateWhole
  <2> QED
    BY <1>3, <2>1, <2>2, DuplicateEffect
<1>4. CASE Write(j)
  BY <1>1, <1>4, WriteWhole
<1>5. CASE Pour(j)
  BY <1>1, <1>5, PourWhole
<1> QED
  BY <1>1, <1>2, <1>3, <1>4, <1>5, RestWhole

LEMMA BeginWhole ==
    ASSUME TypeOK, MoreTypes, Programs, Answered, HasOpen, Histories, WholeFiles,
           NEW j \in Job, Begin(j)
    PROVE  WholeFiles'
<1> SUFFICES ASSUME Calm'
             PROVE  /\ \A p \in Places, u \in Uuid : NameAfter(p, u)
                    /\ \A i \in Job : OpenAfter(i)
  BY WholeFrom
<1>1. /\ j \notin started /\ started' = started \cup {j} /\ program[j] = <<>>
      /\ \A i \in Job \ {j} : program'[i] = program[i]
      /\ Head(program'[j]).do \in {"choose", "exists", "truncate", "found", "list"}
      /\ UNCHANGED <<entry, files, fd, out, len>>
  BY BeginEffect
<1>2. \A i \in started : met[i] \subseteq met'[i]
  <2>1. started \subseteq Job
    BY DEF TypeOK
  <2>2. \A i \in Job \ {j} : met[i] \subseteq met'[i]
    BY BeginHistory
  <2> QED
    BY <1>1, <2>1, <2>2
<1>3. Calm
  BY <1>1, <1>2, CalmBefore
<1>4. Alone(j)
  BY <1>1 DEF Alone
<1>5. ~ Doing(j, "write") /\ ~ Doing(j, "pour")
  BY <1>1 DEF Doing
<1>6. /\ \A p \in Places, u \in Uuid : NameAfter(p, u)
      /\ \A i \in Job \ {j} : OpenAfter(i)
  BY <1>1, <1>3, <1>4, <1>5, QuietWhole
<1>7. OpenAfter(j)
  BY <1>1 DEF OpenAfter, Doing, Head1
<1> QED
  BY <1>6, <1>7

-----------------------------------------------------------------------------
(* Whole data, for a get that no disturbed writer came before or met *)

LEMMA WholeDataFrom ==
    ASSUME \A g \in Job : Reads(g) =>
              /\ ~ Loaded(g)' => data'[g] = <<>>
              /\ Loaded(g)' /\ result'[g] = "get_data" /\ ~ Disturbed(g)' =>
                    Whole(data'[g], Of[g])
    PROVE  WholeData'
BY DEF WholeData, Reads, Whole, VersionsOf, Sources, Writers

\* A get that works undisturbed works in calm.
LEMMA UndisturbedCalm ==
    ASSUME Histories, NEW j \in Active, j \in Job, Reads(j), ~ Disturbed(j)
    PROVE  Calm
<1> SUFFICES ASSUME NEW w \in Writers \cap started
             PROVE  /\ w \notin Faulty
                    /\ \A i \in started : w \in met[i] => Touches(w) \cap Touches(i) = {}
  BY DEF Calm
<1>1. w # j
  BY DEF Writers, Reads
<1>2. started \subseteq before[j] \cup met[j] \cup {j}
  BY DEF Histories
<1>3. w \in Writers \cap (before[j] \cup met[j])
  BY <1>1, <1>2
<1> QED
  BY <1>2, <1>3 DEF Disturbed

LEMMA WorkWholeData ==
    ASSUME TypeOK, MoreTypes, Programs, Answered, Locked, HasOpen, Histories, WholeFiles,
           WholeData, NEW j \in Job, Work(j)
    PROVE  WholeData'
<1>1. /\ started' = started /\ met' = met /\ before' = before /\ j \in started
      /\ j \in Active /\ program[j] # <<>> /\ Moved(j)
  BY WorkFrames, WorkStarted, ActiveMoves, WorkMoves
<1>2. \A g \in Job : Disturbed(g)' <=> Disturbed(g)
  BY <1>1 DEF Disturbed, Writers, Touches
<1>3. ASSUME NEW g \in Job \ {j}, Reads(g)
      PROVE  /\ ~ Loaded(g)' => data'[g] = <<>>
             /\ Loaded(g)' /\ result'[g] = "get_data" /\ ~ Disturbed(g)' =>
                   Whole(data'[g], Of[g])
  <2>1. program'[g] = program[g] /\ result'[g] = result[g] /\ data'[g] = data[g]
    BY WorkOwn
  <2>2. Loaded(g)' <=> Loaded(g)
    BY <1>1, <2>1 DEF Loaded, Doing, Head1
  <2> QED
    BY <1>2, <1>3, <2>1, <2>2 DEF WholeData
<1>4. ASSUME Reads(j)
      PROVE  /\ ~ Loaded(j)' => data'[j] = <<>>
             /\ Loaded(j)' /\ result'[j] = "get_data" /\ ~ Disturbed(j)' =>
                   Whole(data'[j], Of[j])
  <2>0. /\ data \in [Job -> Seq(Version)]
        /\ Loaded(j)' <=> program'[j] = <<>> \/ Head(program'[j]).do \in {"fill", "commit", "tell"}
    BY <1>1 DEF TypeOK, Loaded, Doing, Head1
  <2>1. ASSUME ~ Loaded(j) PROVE data[j] = <<>>
    BY <1>4, <2>1 DEF WholeData
  <2>2. /\ Head1(j).do \in {"choose", "open", "measure", "load", "fill", "commit", "tell"}
        /\ Loaded(j) <=> Head1(j).do \in {"fill", "commit", "tell"}
    <3>1. Head1(j).do \in Does[Kind[j]]
      BY <1>1, KindsDoing
    <3> QED
      BY <1>1, <1>4, <3>1 DEF Does, Reads, Loaded, Doing
  <2>3. ASSUME NEW why \in Whys, Throw(j, why) PROVE result'[j] # "get_data"
    <3>1. result \in [Job -> Results]
      BY DEF MoreTypes
    <3> QED
      BY <2>3, <3>1 DEF Throw, Whys
  <2>4. CASE Head1(j).do = "choose"
    <3>1. ChoosePlace(j) /\ data' = data
      BY <2>4, WorkDoes DEF ChoosePlace, localVars
    <3>2. data'[j] = <<>>
      BY <2>1, <2>2, <2>4, <3>1
    <3>3. \/ Throw(j, "failed")
          \/ program'[j] # <<>> /\ Head(program'[j]).do = "open"
      BY <3>1, ChooseMoves
    <3> QED
      BY <2>0, <2>3, <3>2, <3>3 DEF Whys
  <2>5. CASE Head1(j).do = "open"
    <3>1. Open(j) /\ data' = data
      BY <2>5, WorkDoes DEF Open
    <3>2. data'[j] = <<>>
      BY <2>1, <2>2, <2>5, <3>1
    <3>3. \/ Throw(j, "failed")
          \/ program'[j] # <<>> /\ Head(program'[j]).do = "measure"
      BY <3>1, OpenEffect
    <3> QED
      BY <2>0, <2>3, <3>2, <3>3 DEF Whys
  <2>6. CASE Head1(j).do = "measure"
    <3>1. Measure(j) /\ data' = data
      BY <2>6, WorkDoes DEF Measure
    <3>2. data'[j] = <<>>
      BY <2>1, <2>2, <2>6, <3>1
    <3>3. ASSUME ~ Disturbed(j), files[fd[j]] = <<>> PROVE Whole(data'[j], Of[j])
      <4>1. Calm
        BY <1>1, <1>4, <3>3, UndisturbedCalm
      <4>2. Doing(j, "measure")
        BY <1>1, <2>6 DEF Doing
      <4>3. Whole(files[fd[j]], Of[j])
        BY <4>1, <4>2 DEF WholeFiles, WholeOpen
      <4> QED
        BY <3>2, <3>3, <4>3
    <3>4. files[fd[j]] # <<>> => ~ Loaded(j)'
      BY <2>0, <3>1, MeasureMoves
    <3> QED
      BY <1>2, <3>2, <3>3, <3>4
  <2>7. CASE Head1(j).do = "load"
    <3>1. Load(j)
      BY <2>7, WorkDoes
    <3>2. /\ data'[j] = Buffer(j)
          /\ len[j] = Len(files[fd[j]]) => Buffer(j) = files[fd[j]]
          /\ Continue(j, 1)
      BY <2>0, <3>1, LoadEffect
    <3>3. Loaded(j)'
      <4>1. program'[j] # <<>> => Head(program'[j]).do \in {"fill", "tell"}
        BY <1>1, <2>7, <3>2, ContinuedOne DEF After
      <4> QED
        BY <2>0, <4>1
    <3>4. ASSUME ~ Disturbed(j) PROVE Whole(data'[j], Of[j])
      <4>1. Calm
        BY <1>1, <1>4, <3>4, UndisturbedCalm
      <4>2. Doing(j, "load")
        BY <1>1, <2>7 DEF Doing
      <4>3. Whole(files[fd[j]], Of[j]) /\ len[j] = Len(files[fd[j]])
        BY <4>1, <4>2 DEF WholeFiles, WholeOpen
      <4> QED
        BY <3>2, <4>3
    <3> QED
      BY <1>2, <3>3, <3>4
  <2>8. CASE Head1(j).do \in {"fill", "commit", "tell"}
    <3>1. Loaded(j) /\ data' = data /\ result' = result
      BY <2>2, <2>8, WorkDoes, AnswerEffect, FillEffect
    <3>2. Loaded(j)'
      <4>1. CASE Head1(j).do = "fill"
        <5>1. Continue(j, 1)
          BY <4>1, WorkDoes DEF Fill
        <5>2. program'[j] # <<>> => Head(program'[j]).do = "commit"
          BY <1>1, <4>1, <5>1, ContinuedOne DEF After
        <5> QED
          BY <2>0, <5>2
      <4>2. CASE Head1(j).do \in {"commit", "tell"}
        BY <2>0, <4>2, WorkDoes, AnswerEffect
      <4> QED
        BY <2>8, <4>1, <4>2
    <3> QED
      BY <1>2, <1>4, <3>1, <3>2 DEF WholeData
  <2> QED
    BY <2>2, <2>4, <2>5, <2>6, <2>7, <2>8
<1> QED
  BY <1>3, <1>4, WholeDataFrom

LEMMA BeginWholeData ==
    ASSUME TypeOK, MoreTypes, Answered, Histories, WholeData, NEW j \in Job, Begin(j)
    PROVE  WholeData'
<1>1. /\ j \notin started /\ started' = started \cup {j} /\ started \subseteq Job
      /\ data[j] = <<>> /\ data' = data /\ program'[j] # <<>>
      /\ Head(program'[j]).do \in {"choose", "exists", "truncate", "found", "list"}
      /\ \A i \in Job \ {j} : program'[i] = program[i] /\ result'[i] = result[i]
  BY BeginEffect DEF TypeOK
<1>2. /\ \A i \in Job \ {j} : before'[i] = before[i] /\ met[i] \subseteq met'[i]
      /\ \A i \in Job : before[i] \subseteq started /\ met[i] \subseteq started
  <2>1. \A i \in Job \ {j} : met[i] \subseteq met'[i]
    BY BeginHistory
  <2> QED
    BY <2>1, BeginHistory DEF Histories
<1>3. ASSUME NEW g \in Job \ {j}, ~ Disturbed(g)'
      PROVE  ~ Disturbed(g)
  <2> SUFFICES ASSUME NEW w \in Writers \cap (before[g] \cup met[g])
               PROVE  /\ w \notin Faulty
                      /\ \A i \in before[g] \cup met[g] \cup {g} :
                            w \in met[i] => Touches(w) \cap Touches(i) = {}
    BY DEF Disturbed
  <2>1. /\ w \notin Faulty
        /\ \A i \in before'[g] \cup met'[g] \cup {g} :
              w \in met'[i] => Touches(w) \cap Touches(i) = {}
    BY <1>2, <1>3 DEF Disturbed, Writers, Touches
  <2>2. \A i \in before[g] \cup met[g] \cup {g} : i \in Job \ {j}
    BY <1>1, <1>2
  <2> QED
    BY <1>2, <2>1, <2>2
<1>4. ASSUME NEW g \in Job, Reads(g)
      PROVE  /\ ~ Loaded(g)' => data'[g] = <<>>
             /\ Loaded(g)' /\ result'[g] = "get_data" /\ ~ Disturbed(g)' =>
                   Whole(data'[g], Of[g])
  <2>1. CASE g = j
    <3>1. ~ Loaded(j)'
      BY <1>1 DEF Loaded, Doing, Head1
    <3> QED
      BY <1>1, <2>1, <3>1
  <2>2. CASE g # j
    <3>1. Loaded(g)' <=> Loaded(g)
      BY <1>1, <2>2 DEF Loaded, Doing, Head1
    <3> QED
      BY <1>1, <1>3, <1>4, <2>2, <3>1 DEF WholeData
  <2> QED
    BY <2>1, <2>2
<1> QED
  BY <1>4, WholeDataFrom

-----------------------------------------------------------------------------
(* Overwritten data is gone *)

\* What a step adds to a file that there is.
LEMMA FileGrows ==
    ASSUME TypeOK, MoreTypes, Programs, HasOpen, NEW j \in Job, Work(j),
           NEW f \in 1 .. Len(files)
    PROVE  \/ ToSet(files'[f]) \subseteq ToSet(files[f]) \cup {j}
           \/ /\ Pour(j) /\ f = out[j]
              /\ ToSet(files'[f]) \subseteq ToSet(files[f]) \cup ToSet(files[fd[j]])
<1>0. ToSet(<<>>) = {}
  BY DEF ToSet
<1>1. ASSUME NEW p \in Places, NEW u \in Uuid, Opened(p, u)
      PROVE  files'[f] = files[f] \/ files'[f] = <<>>
  BY <1>1, OpenedEffect
<1>2. CASE Truncate(j)
  <2>1. files'[f] = files[f] \/ files'[f] = <<>>
    BY <1>1, <1>2, TruncateEffect, KindIs
  <2> QED
    BY <1>0, <2>1
<1>3. CASE Duplicate(j)
  <2>1. files'[f] = files[f] \/ files'[f] = <<>>
    BY <1>1, <1>3, DuplicateEffect
  <2> QED
    BY <1>0, <2>1
<1>4. CASE Write(j)
  BY <1>4, WriteEffect
<1>5. CASE Pour(j)
  BY <1>5, PourEffect
<1> QED
  BY <1>2, <1>3, <1>4, <1>5, WorkFrames

LEMMA OlderThan ==
    ASSUME NEW v, NEW w \in Job, NEW C, Older(v, w, C)
    PROVE  v \notin CacheVersions /\ v # Garbage
<1>1. Job \cap Uuid = {} /\ Garbage \notin Job \cup Uuid /\ Cached \subseteq Uuid /\ Of[w] \in Uuid
  BY NameAssumption, PlaceAssumption, KindIs
<1> QED
  BY <1>1 DEF Older, CacheVersions

\* An overwritten version comes into no file with the name.
LEMMA StaysAway ==
    ASSUME TypeOK, MoreTypes, Programs, Answered, HasOpen, Histories,
           NEW home \in [1 .. Len(files) -> Places \X Uuid], HomesOf(home),
           NEW j \in Job, Work(j), NEW w \in Job, NEW v, NEW C, Older(v, w, C),
           Kind[j] = "copy" => j \in C,
           NEW f \in 1 .. Len(files), home[f][2] = Of[w], v \notin ToSet(files[f])
    PROVE  v \notin ToSet(files'[f])
<1>1. program[j] # <<>> /\ j \notin before[w]
  BY WorkMoves DEF Histories
<1>2. v # j
  BY <1>1 DEF Older
<1>3. CASE ToSet(files'[f]) \subseteq ToSet(files[f]) \cup {j}
  BY <1>2, <1>3
<1>4. CASE /\ Pour(j) /\ f = out[j]
           /\ ToSet(files'[f]) \subseteq ToSet(files[f]) \cup ToSet(files[fd[j]])
  <2>1. /\ Kind[j] \in {"copy", "move"}
        /\ fd[j] \in 1 .. Len(files) /\ out[j] \in 1 .. Len(files)
    BY <1>4, PourEffect
  <2>2. fd[j] # 0 /\ OpenHome(j, home)
    BY <2>1 DEF HomesOf
  <2>3. CASE Kind[j] = "copy"
    <3>1. home[f] = <<"db", Target[j]>>
      BY <1>4, <2>2, <2>3 DEF OpenHome
    <3>2. Target[j] = Of[w]
      BY <3>1
    <3> QED
      BY <1>1, <2>3, <3>2 DEF Older
  <2>4. CASE Kind[j] = "move"
    <3>1. home[fd[j]][1] = "cache"
      BY <2>2, <2>4 DEF OpenHome
    <3>2. ToSet(files[fd[j]]) \subseteq CacheVersions
      BY <2>1, <3>1 DEF HomesOf, FileHome
    <3> QED
      BY <1>4, <3>2, OlderThan
  <2> QED
    BY <2>1, <2>3, <2>4
<1> QED
  BY <1>3, <1>4, FileGrows

\* A name keeps its file or has an empty one.
LEMMA NamesMove ==
    ASSUME TypeOK, MoreTypes, Programs, NEW j \in Job, Work(j),
           NEW p \in Places, NEW u \in Uuid, entry'[p][u] # 0
    PROVE  entry'[p][u] = entry[p][u] \/ files'[entry'[p][u]] = <<>>
<1>1. ASSUME NEW q \in Places, NEW x \in Uuid, Opened(q, x)
      PROVE  entry'[p][u] = entry[p][u] \/ files'[entry'[p][u]] = <<>>
  <2>1. /\ files'[Opens(q, x)] = <<>> /\ entry'[q][x] = Opens(q, x)
        /\ \A r \in Places, y \in Uuid : <<r, y>> # <<q, x>> => entry'[r][y] = entry[r][y]
    BY <1>1, OpenedEffect
  <2>2. CASE p = q /\ u = x
    BY <2>1, <2>2
  <2>3. CASE ~ (p = q /\ u = x)
    BY <2>1, <2>3
  <2> QED
    BY <2>2, <2>3
<1>2. CASE Truncate(j)
  BY <1>1, <1>2, TruncateEffect, KindIs
<1>3. CASE Duplicate(j)
  BY <1>1, <1>3, DuplicateEffect
<1>4. CASE RemoveFile(j)
  <2>1. CASE entry' = entry
    BY <2>1
  <2>2. CASE /\ entry'[Head1(j).in][Head1(j).of] = 0
             /\ \A q \in Places, x \in Uuid : <<q, x>> # <<Head1(j).in, Head1(j).of>> =>
                   entry'[q][x] = entry[q][x]
    <3>1. ~ (p = Head1(j).in /\ u = Head1(j).of)
      BY <2>2
    <3> QED
      BY <2>2, <3>1
  <2>3. \/ entry' = entry
        \/ /\ entry'[Head1(j).in][Head1(j).of] = 0
           /\ \A q \in Places, x \in Uuid : <<q, x>> # <<Head1(j).in, Head1(j).of>> =>
                   entry'[q][x] = entry[q][x]
    BY <1>4, RemoveEffect
  <2> QED
    BY <2>1, <2>2, <2>3
<1> QED
  BY <1>2, <1>3, <1>4, WorkFrames

\* A writer is past when its file has been emptied.
LEMMA PastMoves ==
    ASSUME TypeOK, MoreTypes, Programs, NEW j \in Job, Work(j), NEW w \in Job, Past(w)',
           ~ Past(w)
    PROVE  w = j /\ entry'["db"][Of[w]] # 0 /\ files'[entry'["db"][Of[w]]] = <<>>
<1>1. /\ started' = started /\ \A i \in Job \ {j} : program'[i] = program[i]
      /\ \A i \in Job \ {j} : result'[i] = result[i]
      /\ program[j] # <<>>
  BY WorkFrames, WorkMoves DEF Moved, OwnResult
<1>2. w = j
  <2> SUFFICES ASSUME w # j PROVE FALSE
    OBVIOUS
  <2>1. program'[w] = program[w] /\ result'[w] = result[w]
    BY <1>1
  <2> QED
    BY <1>1, <2>1 DEF Past, Doing, Head1
<1>3. /\ Kind[j] \in {"save", "update", "store"} /\ j \in started
      /\ result'[j] \in {"save_confirm", "updated"}
      /\ \A do \in {"exists", "shrink", "truncate"} : ~ Doing(j, do)'
  BY <1>1, <1>2 DEF Past
<1>4. result'[j] = result[j]
  BY <1>3, WorkResults
<1>5. Head1(j).do \in {"exists", "shrink", "truncate"}
  BY <1>2, <1>3, <1>4 DEF Past, Doing
<1>6. ~ Throw(j, "failed") /\ ~ Throw(j, "no_space")
  <2>1. result \in [Job -> Results]
    BY DEF MoreTypes
  <2> QED
    BY <1>3, <2>1 DEF Throw
<1>7. CASE Head1(j).do = "exists"
  <2>1. Exists(j)
    BY <1>7, WorkDoes
  <2>3. Kind[j] # "save"
    BY <1>1, <1>7, KindsDoing DEF Does
  <2>2. program'[j] # <<>> /\ Head(program'[j]).do \in {"shrink", "truncate"}
    BY <1>3, <2>1, <2>3, ExistsMoves
  <2> QED
    BY <1>3, <2>2 DEF Doing, Head1
<1>8. CASE Head1(j).do = "shrink"
  <2>1. Shrink(j)
    BY <1>8, WorkDoes
  <2>2. Continue(j, 1)
    BY <1>6, <2>1 DEF Shrink
  <2>3. Kind[j] # "save"
    BY <1>1, <1>8, KindsDoing DEF Does
  <2>4. program'[j] # <<>> /\ Head(program'[j]).do = "truncate"
    BY <1>1, <1>3, <1>8, <2>2, <2>3, ContinuedOne DEF After
  <2> QED
    BY <1>3, <2>4 DEF Doing, Head1
<1>9. CASE Head1(j).do = "truncate"
  <2>1. Truncate(j) /\ PlaceOf(j) = "db"
    BY <1>3, <1>9, WorkDoes DEF PlaceOf
  <2>2. Opened("db", Of[j])
    BY <1>6, <2>1, TruncateEffect
  <2>3. Of[j] \in Uuid /\ "db" \in Places /\ Len(files) \in Nat
    BY KindIs, FilesAre DEF Places
  <2>4. entry'["db"][Of[j]] = Opens("db", Of[j]) /\ files'[Opens("db", Of[j])] = <<>>
    BY <2>2, <2>3, OpenedEffect
  <2>5. Opens("db", Of[j]) # 0
    BY <2>3 DEF Opens
  <2> QED
    BY <1>2, <2>4, <2>5
<1> QED
  BY <1>5, <1>7, <1>8, <1>9

\* Said of the values that the variables have after a step.
GoneFile(w, v, p) ==
    Past(w)' /\ Older(v, w, started)' /\ entry'[p][Of[w]] # 0 =>
       v \notin ToSet(files'[entry'[p][Of[w]]])
GoneRead(g, w, v) ==
    Past(w)' /\ Of[w] = Of[g] /\ Older(v, w, before[g] \cup met[g])' =>
       /\ v \notin ToSet(data'[g])
       /\ fd'[g] # 0 /\ program'[g] # <<>> => v \notin ToSet(files'[fd'[g]])

LEMMA GoneFrom ==
    ASSUME \A w \in Job, v \in Version, p \in Places : GoneFile(w, v, p),
           \A g \in Job : Reads(g) =>
              \A w \in before'[g], v \in Version : GoneRead(g, w, v)
    PROVE  Gone'
<1>1. (\A w \in Job, v \in Version, p \in Places :
          Past(w) /\ Older(v, w, started) /\ entry[p][Of[w]] # 0 =>
             v \notin ToSet(files[entry[p][Of[w]]]))'
  BY DEF GoneFile, Version, Places
<1>2. (\A g \in Job : Reads(g) => \A w \in before[g], v \in Version :
          Past(w) /\ Of[w] = Of[g] /\ Older(v, w, before[g] \cup met[g]) =>
             /\ v \notin ToSet(data[g])
             /\ fd[g] # 0 /\ program[g] # <<>> => v \notin ToSet(files[fd[g]]))'
  BY DEF GoneRead, Version, Reads
<1> QED
  BY <1>1, <1>2 DEF Gone

\* What is in the cache was never overwritten in the storage.
LEMMA CacheFiles ==
    ASSUME TypeOK, Homes, NEW u \in Uuid, entry["cache"][u] # 0
    PROVE  ToSet(files[entry["cache"][u]]) \subseteq CacheVersions
<1>1. PICK home \in [1 .. Len(files) -> Places \X Uuid] : HomesOf(home)
  BY DEF Homes
<1>2. "cache" \in Places
  BY DEF Places
<1>3. entry["cache"][u] \in 1 .. Len(files)
  BY <1>2, FilesAre
<1>4. home[entry["cache"][u]] = <<"cache", u>>
  BY <1>1, <1>2 DEF HomesOf, EntryHome
<1> QED
  BY <1>1, <1>3, <1>4 DEF HomesOf, FileHome

LEMMA WorkGone ==
    ASSUME TypeOK, MoreTypes, Programs, Answered, Locked, Homes, HasOpen, Histories, Gone,
           NEW j \in Job, Work(j)
    PROVE  Gone'
<1>1. /\ started' = started /\ met' = met /\ before' = before /\ program[j] # <<>>
      /\ j \in started
      /\ \A i \in Job \ {j} : program'[i] = program[i] /\ result'[i] = result[i]
                              /\ data'[i] = data[i] /\ fd'[i] = fd[i]
  BY WorkFrames, WorkMoves, WorkStarted, WorkOwn
<1>2. PICK home \in [1 .. Len(files) -> Places \X Uuid] : HomesOf(home)
  BY DEF Homes
<1>3. /\ Len(files) \in Nat
      /\ \A p \in Places, u \in Uuid : entry[p][u] \in 0 .. Len(files)
      /\ \A i \in Job : fd[i] \in 0 .. Len(files)
      /\ ToSet(<<>>) = {}
  BY FilesAre DEF ToSet
<1>5. ASSUME NEW w \in Job, NEW v \in Version, NEW p \in Places
      PROVE  GoneFile(w, v, p)
  <2> SUFFICES ASSUME Past(w)', Older(v, w, started), entry'[p][Of[w]] # 0
               PROVE  v \notin ToSet(files'[entry'[p][Of[w]]])
    BY <1>1 DEF GoneFile, Older
  <2>0. Of[w] \in Uuid
    BY KindIs
  <2>1. CASE files'[entry'[p][Of[w]]] = <<>>
    BY <1>3, <2>1
  <2>2. CASE entry'[p][Of[w]] = entry[p][Of[w]]
    <3>1. entry[p][Of[w]] \in 1 .. Len(files) /\ home[entry[p][Of[w]]] = <<p, Of[w]>>
      BY <1>2, <1>3, <2>0, <2>2 DEF HomesOf, EntryHome
    <3>2. home[entry[p][Of[w]]][2] = Of[w]
      BY <3>1
    <3>3. CASE Past(w)
      <4>1. v \notin ToSet(files[entry[p][Of[w]]])
        BY <2>2, <3>3 DEF Gone
      <4> QED
        BY <1>1, <1>2, <2>2, <3>1, <3>2, <4>1, StaysAway
    <3>4. CASE p = "db" /\ ~ Past(w)
      BY <1>3, <3>4, PastMoves
    <3>5. CASE p = "cache"
      <4>1. ToSet(files[entry[p][Of[w]]]) \subseteq CacheVersions
        BY <2>0, <2>2, <3>5, CacheFiles
      <4>2. v \notin ToSet(files[entry[p][Of[w]]])
        BY <4>1, OlderThan
      <4> QED
        BY <1>1, <1>2, <2>2, <3>1, <3>2, <4>2, StaysAway
    <3> QED
      BY <3>3, <3>4, <3>5 DEF Places
  <2> QED
    BY <2>0, <2>1, <2>2, NamesMove
<1>6. ASSUME NEW g \in Job, Reads(g), NEW w \in before'[g], NEW v \in Version
      PROVE  GoneRead(g, w, v)
  <2> DEFINE C == before[g] \cup met[g]
  <2> SUFFICES ASSUME Past(w)', Of[w] = Of[g], Older(v, w, C)
               PROVE  /\ v \notin ToSet(data'[g])
                      /\ fd'[g] # 0 /\ program'[g] # <<>> => v \notin ToSet(files'[fd'[g]])
    BY <1>1 DEF GoneRead, Older
  <2>0. /\ w \in before[g] /\ w \in Job /\ Of[g] \in Uuid /\ w # j
        /\ before[g] \subseteq started /\ met[g] \subseteq started
    BY <1>1, KindIs DEF Histories, TypeOK
  <2>1. Past(w)
    <3>1. program'[w] = program[w] /\ result'[w] = result[w]
      BY <1>1, <2>0
    <3> QED
      BY <1>1, <3>1 DEF Past, Doing, Head1
  <2>2. /\ v \notin ToSet(data[g])
        /\ fd[g] # 0 /\ program[g] # <<>> => v \notin ToSet(files[fd[g]])
    BY <1>6, <2>0, <2>1 DEF Gone
  <2>3. v \notin ToSet(data'[g])
    <3>1. CASE data'[g] = data[g]
      BY <2>2, <3>1
    <3>2. CASE g = j /\ Load(j)
      <4>1. /\ data' = [data EXCEPT ![j] = Buffer(j)] /\ fd[j] \in 1 .. Len(files)
            /\ ToSet(Buffer(j)) \subseteq ToSet(files[fd[j]]) \cup {Garbage}
        BY <3>2, LoadEffect
      <4>2. data'[g] = Buffer(j)
        BY <3>2, <4>1 DEF TypeOK
      <4>3. v \notin ToSet(files[fd[j]])
        BY <1>1, <2>2, <3>2, <4>1
      <4> QED
        BY <2>0, <4>1, <4>2, <4>3, OlderThan
    <3> QED
      BY <1>1, <3>1, <3>2, WorkFrames
  <2>4. ASSUME fd'[g] # 0, program'[g] # <<>>
        PROVE  v \notin ToSet(files'[fd'[g]])
    <3>1. program[g] # <<>>
      BY <1>1, <2>4
    <3>2. g \in Active
      BY <3>1 DEF Active, Answered
    <3>3. \A c \in started : Kind[c] = "copy" => c \in C
      <4>1. started \subseteq C \cup {g} /\ Kind[g] # "copy"
        BY <1>6, <3>2 DEF Histories, Reads
      <4> QED
        BY <4>1
    <3>4. CASE fd'[g] = fd[g]
      <4>1. fd[g] \in 1 .. Len(files)
        BY <1>3, <2>4, <3>4
      <4>2. home[fd[g]][2] = Of[w]
        <5>1. OpenHome(g, home)
          BY <1>2 DEF HomesOf
        <5> QED
          BY <1>6, <4>1, <5>1 DEF OpenHome, Reads
      <4>3. v \notin ToSet(files[fd[g]])
        BY <2>2, <3>1, <4>1
      <4>4. Kind[j] = "copy" => j \in C
        BY <1>1, <3>3
      <4> HIDE DEF C
      <4>5. v \notin ToSet(files'[fd[g]])
        BY <1>2, <2>0, <4>1, <4>2, <4>3, <4>4, StaysAway
      <4> QED
        BY <3>4, <4>5
    <3>5. CASE fd'[g] # fd[g]
      <4>1. g = j
        BY <1>1, <3>5
      <4>2. Open(j)
        <5>1. ~ Truncate(j)
          BY <1>6, <4>1, TruncateEffect DEF Reads
        <5>2. ~ Duplicate(j)
          BY <1>6, <4>1, DuplicateEffect DEF Reads
        <5> QED
          BY <3>5, <4>1, <5>1, <5>2, WorkFrames
      <4>3. /\ Head1(j).of = Of[j] /\ Head1(j).in \in Places
            /\ File(j) # 0 /\ fd' = [fd EXCEPT ![j] = File(j)]
        BY <3>5, <4>1, <4>2, OpenEffect
      <4>4. files' = files
        BY <4>2 DEF Open, fileVars
      <4>5. fd'[g] = entry[Head1(j).in][Of[w]] /\ entry[Head1(j).in][Of[w]] # 0
        BY <4>1, <4>3 DEF File, TypeOK
      <4>6. Older(v, w, started)
        BY <3>3 DEF Older
      <4>7. v \notin ToSet(files[entry[Head1(j).in][Of[w]]])
        BY <2>0, <2>1, <4>3, <4>5, <4>6 DEF Gone
      <4> QED
        BY <4>4, <4>5, <4>7
    <3> QED
      BY <3>4, <3>5
  <2> QED
    BY <2>3, <2>4
<1> QED
  BY <1>5, <1>6, GoneFrom

LEMMA BeginGone ==
    ASSUME TypeOK, MoreTypes, Answered, Histories, Gone, NEW j \in Job, Begin(j)
    PROVE  Gone'
<1>1. /\ j \notin started /\ started' = started \cup {j} /\ data[j] = <<>> /\ fd[j] = 0
      /\ UNCHANGED <<entry, files, fd, data>>
      /\ \A i \in Job \ {j} : program'[i] = program[i] /\ result'[i] = result[i]
      /\ program'[j] # <<>> /\ IsProgram(j, program'[j])
      /\ Head(program'[j]).do \in {"choose", "exists", "truncate", "found", "list"}
  BY BeginEffect
<1>2. /\ \A i \in Job \ {j} : before'[i] = before[i] /\ met[i] \subseteq met'[i]
      /\ \A i \in Job : before[i] \subseteq started
  BY BeginHistory DEF Histories
<1>3. ~ Past(j)'
  <2> SUFFICES ASSUME Kind[j] \in {"save", "update", "store"}
               PROVE  Doing(j, "exists")' \/ Doing(j, "truncate")'
    BY DEF Past
  <2>1. program'[j] \in Seq(Steps)
    BY <1>1 DEF IsProgram, IsPart
  <2>2. Head(program'[j]) = program'[j][1] /\ 1 \in 1 .. Len(program'[j])
    BY <1>1, <2>1
  <2>3. Head(program'[j]).do \in Does[Kind[j]]
    BY <1>1, <2>2 DEF IsProgram, IsPart, Fits
  <2>4. Head(program'[j]).do \in {"exists", "truncate"}
    BY <1>1, <2>3 DEF Does
  <2> QED
    BY <1>1, <2>4 DEF Doing, Head1
<1>4. ASSUME NEW w \in Job, Past(w)'
      PROVE  w # j /\ Past(w)
  <2>1. w # j
    BY <1>3, <1>4
  <2>2. program'[w] = program[w] /\ result'[w] = result[w]
    BY <1>1, <2>1
  <2> QED
    BY <1>1, <1>4, <2>1, <2>2 DEF Past, Doing, Head1
<1>6. ASSUME NEW w \in Job, NEW v \in Version, NEW p \in Places
      PROVE  GoneFile(w, v, p)
  <2> SUFFICES ASSUME Past(w)', Older(v, w, started)', entry[p][Of[w]] # 0
               PROVE  v \notin ToSet(files[entry[p][Of[w]]])
    BY <1>1 DEF GoneFile
  <2>1. Older(v, w, started)
    BY <1>1, <1>2, <1>4 DEF Older
  <2> QED
    BY <1>4, <2>1 DEF Gone
<1>7. ASSUME NEW g \in Job, Reads(g), NEW w \in before'[g], NEW v \in Version
      PROVE  GoneRead(g, w, v)
  <2> SUFFICES ASSUME Past(w)', Of[w] = Of[g], Older(v, w, before[g] \cup met[g])'
               PROVE  /\ v \notin ToSet(data[g])
                      /\ fd[g] # 0 /\ program'[g] # <<>> => v \notin ToSet(files[fd[g]])
    BY <1>1 DEF GoneRead
  <2>1. CASE g = j
    BY <1>1, <2>1 DEF ToSet
  <2>2. CASE g # j
    <3>1. w \in before[g] /\ w \in Job
      BY <1>2, <2>2 DEF TypeOK
    <3>2. Older(v, w, before[g] \cup met[g])
      BY <1>2, <1>4, <2>2, <3>1 DEF Older
    <3> QED
      BY <1>1, <1>4, <1>7, <2>2, <3>1, <3>2 DEF Gone
  <2> QED
    BY <2>1, <2>2
<1> QED
  BY <1>6, <1>7, GoneFrom

-----------------------------------------------------------------------------
(* What a get returns *)

LEMMA StartRead == Init => ReadInv
<1> SUFFICES ASSUME Init PROVE ReadInv
  OBVIOUS
<1>1. /\ \A j \in Job : program[j] = <<>> /\ data[j] = <<>> /\ result[j] = "none"
      /\ \A j \in Job : met[j] = {} /\ before[j] = {}
      /\ started = {}
  BY DEF Init
<1>2. /\ \A i \in 1 .. Len(files) :
            PresentInOrder[i] \in Present /\ files[i] = << PresentInOrder[i][2] >>
      /\ entry \in [Places -> [Uuid -> 0 .. Len(files)]] /\ Len(files) \in Nat
      /\ \A p \in Places, u \in Uuid :
            IF <<p, u>> \in Present
            THEN entry[p][u] # 0 /\ PresentInOrder[entry[p][u]] = <<p, u>>
            ELSE entry[p][u] = 0
  BY StartFiles
<1>3. \A j \in Job : \A do : ~ Doing(j, do)
  BY <1>1 DEF Doing
<1>4. Histories
  BY <1>1 DEF Histories, Active
<1>5. Presence
  <2>1. \A u \in Stored : <<"db", u>> \in Present
    BY DEF Present
  <2>2. \A u \in Cached : <<"cache", u>> \in Present
    BY DEF Present
  <2>3. "db" \in Places /\ "cache" \in Places
    BY DEF Places
  <2> QED
    BY <1>2, <1>3, <2>1, <2>2, <2>3 DEF Presence
<1>6. Refusals
  BY <1>1 DEF Refusals
<1>7. WholeFiles
  <2>1. ASSUME NEW p \in Places, NEW u \in Uuid, entry[p][u] # 0
        PROVE  Whole(files[entry[p][u]], u)
    <3>0. entry[p][u] \in 0 .. Len(files)
      BY <1>2
    <3>a. IF <<p, u>> \in Present
          THEN entry[p][u] # 0 /\ PresentInOrder[entry[p][u]] = <<p, u>>
          ELSE entry[p][u] = 0
      BY <1>2
    <3>1. entry[p][u] \in 1 .. Len(files) /\ PresentInOrder[entry[p][u]] = <<p, u>>
      BY <1>2, <2>1, <3>0, <3>a
    <3>2. files[entry[p][u]] = <<u>>
      BY <1>2, <3>1
    <3>3. u \notin Job
      BY NameAssumption
    <3>4. <<u>> = [k \in 1 .. 1 |-> u]
      OBVIOUS
    <3> QED
      BY <3>2, <3>3, <3>4, VersionsGrow DEF Whole
  <2> QED
    BY <1>3, <2>1 DEF WholeFiles, WholeNames, WholeOpen
<1>8. WholeData
  BY <1>1 DEF WholeData, Loaded
<1>9. Gone
  BY <1>1 DEF Gone, Past
<1> QED
  BY <1>4, <1>5, <1>6, <1>7, <1>8, <1>9 DEF ReadInv

LEMMA ReadStutters == ReadInv /\ UNCHANGED vars => ReadInv'
<1> SUFFICES ASSUME ReadInv, UNCHANGED vars PROVE ReadInv'
  OBVIOUS
<1> USE DEF ReadInv
<1>1. UNCHANGED <<entry, files, size, program, fd, out, len, data, result, slot,
                  answers, crashed, mix, started, met, before>>
  BY DEF vars
<1>2. Histories'
  BY <1>1 DEF Histories, Active
<1>3. Presence'
  BY <1>1 DEF Presence, Kept, Removers, Touches, Doing, Head1, File
<1>4. Refusals'
  BY <1>1 DEF Refusals, Reads, Removers, Touches
<1>5. WholeFiles'
  <2> SUFFICES ASSUME Calm'
               PROVE  /\ \A p \in Places, u \in Uuid : NameAfter(p, u)
                      /\ \A j \in Job : OpenAfter(j)
    BY WholeFrom
  <2>1. WholeNames /\ \A j \in Job : WholeOpen(j)
    BY <1>1 DEF WholeFiles, Calm, Writers, Touches
  <2>2. \A j \in Job : \A do : Doing(j, do)' <=> Doing(j, do)
    BY <1>1 DEF Doing, Head1
  <2>3. \A p \in Places, u \in Uuid : NameAfter(p, u)
    BY <1>1, <2>1, <2>2 DEF WholeNames, Blank, NameAfter, BlankAfter
  <2>4. \A j \in Job : OpenAfter(j)
    BY <1>1, <2>1, <2>2 DEF WholeOpen, OpenAfter
  <2> QED
    BY <2>3, <2>4
<1>6. WholeData'
  BY <1>1 DEF WholeData, Reads, Loaded, Doing, Head1, Disturbed, Whole,
              Writers, Touches, VersionsOf, Sources
<1>7. Gone'
  BY <1>1 DEF Gone, Past, Older, Doing, Head1, Reads, Version, Places
<1> QED
  BY <1>2, <1>3, <1>4, <1>5, <1>6, <1>7

LEMMA StorageSteps == StorageInv /\ [Next]_vars => StorageInv'
<1> SUFFICES ASSUME StorageInv, [Next]_vars PROVE StorageInv'
  OBVIOUS
<1>1. CoreInv'
  BY CoreSteps DEF StorageInv
<1> USE DEF StorageInv, CoreInv, ReadInv
<1>2. ASSUME NEW j \in Job, Begin(j) PROVE ReadInv'
  BY <1>2, BeginHistories, BeginPresence, BeginRefusals, BeginWhole, BeginWholeData, BeginGone
<1>3. ASSUME NEW j \in Job, Work(j) PROVE ReadInv'
  BY <1>3, WorkHistories, WorkPresence, WorkRefusals, WorkWhole, WorkWholeData, WorkGone
<1>4. ASSUME UNCHANGED vars PROVE ReadInv'
  BY <1>4, ReadStutters
<1> HIDE DEF StorageInv, CoreInv, ReadInv
<1> QED
  BY <1>1, <1>2, <1>3, <1>4 DEF Next, StorageInv

\* What RegularGet rests on: as long as no writer fails or meets another job on
\* its data every name stands for a whole file or for one that a writer has just
\* opened, a file that nobody removes stays, and a version that a later write
\* has overwritten is under its name no more (db_json.cpp:95-157, 258-321).
THEOREM StorageInvariant == Spec => []StorageInv
<1>1. Init => StorageInv
  BY StartCore, StartRead DEF StorageInv
<1> QED
  BY <1>1, StorageSteps, PTL DEF Spec

LEMMA StorageIsRegular == StorageInv => RegularGet
<1> SUFFICES ASSUME StorageInv, NEW g \in Job, NEW i \in DOMAIN answers[g]
             PROVE  LET d == answers[g][i].data IN
                    /\ answers[g][i].is = "get_data" =>
                          /\ \A k \in DOMAIN d : ~Overwritten(d[k], g)
                          /\ Disturbed(g) \/ Whole(d, Of[g])
                    /\ answers[g][i].is \in {"refuse", "failed"} /\ Reads(g) =>
                          \/ Of[g] \notin Stored \cup Cached
                          \/ \E j \in Removers \cap (met[g] \cup before[g]) : Of[g] \in Touches(j)
  BY DEF RegularGet, Whole, Reads
<1> USE DEF StorageInv, CoreInv, ReadInv
<1>1. \A j \in Job : answers[j] # <<>> =>
         /\ j \in started /\ program[j] = <<>>
         /\ \A k \in DOMAIN answers[j] :
               answers[j][k].is = result[j] /\ answers[j][k].data = data[j]
  <2> SUFFICES ASSUME NEW j \in Job, answers[j] # <<>>, NEW k \in DOMAIN answers[j]
               PROVE  /\ j \in started /\ program[j] = <<>>
                      /\ answers[j][k].is = result[j] /\ answers[j][k].data = data[j]
    <3>1. \A j \in Job : answers[j] # <<>> => j \in started /\ program[j] = <<>>
      BY DEF Answered
    <3> QED
      BY <3>1
  <2>1. /\ answers[j] \in Seq(Replies) /\ Len(answers[j]) <= 1
        /\ answers[j][1] = Answer(j) /\ program[j] = <<>> /\ j \in started
    BY DEF MoreTypes, Answered
  <2>2. k = 1
    BY <2>1
  <2> QED
    BY <2>1, <2>2 DEF Answer
<1>2. answers[g] # <<>>
  OBVIOUS
<1>3. /\ answers[g][i].is = result[g] /\ answers[g][i].data = data[g]
      /\ g \in started /\ program[g] = <<>> /\ data[g] \in Seq(Version)
  BY <1>1, <1>2 DEF TypeOK
<1>4. Loaded(g)
  BY <1>3 DEF Loaded
<1>5. ASSUME result[g] = "get_data"
      PROVE  Reads(g) /\ (Disturbed(g) \/ Whole(data[g], Of[g]))
  BY <1>4, <1>5 DEF Refusals, WholeData
<1>6. ASSUME result[g] = "get_data", NEW k \in DOMAIN data[g], Overwritten(data[g][k], g)
      PROVE  FALSE
  <2> DEFINE v == data[g][k]
  <2>1. PICK w \in before[g] :
        /\ Kind[w] \in {"save", "update", "store"} /\ Of[w] = Of[g]
        /\ Confirmed(w)
        /\ \A c \in before[g] \cup met[g] :
              Kind[c] = "copy" /\ Target[c] = Of[g] => c \in before[w]
        /\ IF v \in Job THEN v \in before[w] /\ Kind[v] # "add"
                        ELSE v = Of[g] /\ Of[g] \notin Cached
    BY <1>6 DEF Overwritten
  <2>2. v \in Version /\ v \in ToSet(data[g]) /\ w \in Job
    BY <1>3 DEF ToSet, TypeOK
  <2>3. answers[w] # <<>> /\ result[w] \in {"save_confirm", "updated"}
    BY <1>1, <2>1, <2>2 DEF Confirmed
  <2>4. Past(w)
    BY <1>1, <2>1, <2>2, <2>3 DEF Past, Doing
  <2>5. Older(v, w, before[g] \cup met[g])
    BY <2>1 DEF Older
  <2> HIDE DEF v
  <2> QED
    BY <1>5, <1>6, <2>1, <2>2, <2>4, <2>5 DEF Gone
<1>7. ASSUME result[g] \in {"refuse", "failed"}, Reads(g)
      PROVE  \/ Of[g] \notin Stored \cup Cached
             \/ \E j \in Removers \cap (met[g] \cup before[g]) : Of[g] \in Touches(j)
  BY <1>7 DEF Refusals
<1> QED
  BY <1>3, <1>5, <1>6, <1>7

\* What a get of the storage returns although others save, update, copy, move
\* and delete in its directories: no data that was overwritten before it began,
\* a whole version if no writer was disturbed, and a refusal only if the data
\* may be missing (storage.cpp:111-139, db_json.cpp:258-321).
THEOREM StorageRegularGet == Spec => []RegularGet
BY StorageInvariant, StorageIsRegular, PTL

=============================================================================
