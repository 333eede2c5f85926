------------------------------ MODULE Storage ------------------------------
(***************************************************************************)
(* The storage of a node: metax/storage with platform/db_json. Three tasks *)
(* ("storage", "writer", "cache"), the clean-up timer and the threads that *)
(* the kernel detaches for its peers work on one db_json object, which has *)
(* no lock: only its two sizes are atomic.                                 *)
(*                                                                         *)
(* A job is one message to a task, one round of the timer or one thread.   *)
(* It is a program of steps that end where another job can interfere: at   *)
(* the calls of the file system, at the changes of the sizes, and in the   *)
(* scratch item of the fifo to the router, which threads share.            *)
(***************************************************************************)
EXTENDS Integers, Sequences, FiniteSets, SequencesExt

CONSTANTS
    Uuid,          \* the names of the data
    Job,           \* the jobs that may come
    Mixes,         \* the sets of jobs that come in one behaviour
    Kind,          \* Kind[j]: what job j does
    Of,            \* Of[j]: the uuid job j works on
    Target,        \* Target[j]: the uuid a copy is made under
    Size,          \* Size[j]: the size of the data a job writes
    Stored,        \* the uuids in the storage directory at the start
    Cached,        \* the uuids in the cache directory at the start
    StorageLimit,  \* m_storage_limit, negative for no limit
    CacheLimit,    \* m_cache_limit
    Ages,          \* TRUE if m_cache_age is not 0
    Faulty,        \* the jobs whose write the disk may refuse
    Word,          \* bound: the sizes are counted modulo Word, 2^64 in the code
    Garbage        \* what a read finds in its buffer beyond the end of a file

Kinds == {"get", "read", "save", "update", "store", "copy", "del", "delUuids",
          "delete", "add", "uncache", "move", "cleanup"}
Places == {"db", "cache"}

ASSUME JobAssumption ==
    /\ Mixes \subseteq SUBSET Job
    /\ Kind \in [Job -> Kinds]
    /\ Of \in [Job -> Uuid] /\ Target \in [Job -> Uuid]
    /\ \A j \in Job : Kind[j] = "copy" => Target[j] # Of[j]  \* a random new uuid
    /\ Size \in [Job -> Nat]
    /\ Faulty \subseteq Job
ASSUME PlaceAssumption ==
    Stored \subseteq Uuid /\ Cached \subseteq Uuid /\ IsFiniteSet(Uuid)
ASSUME NameAssumption == Job \cap Uuid = {} /\ Garbage \notin Job \cup Uuid
ASSUME LimitAssumption ==
    /\ StorageLimit \in Int /\ CacheLimit \in Nat
    /\ Word \in Nat \ {0}
    /\ Ages \in BOOLEAN

VARIABLES
    mix,      \* the jobs that come
    entry,    \* entry[p][u]: the file that directory p has under the name u, or 0
    files,    \* the contents of all files that were ever created
    size,     \* m_storage_size and m_cache_size
    started,  \* the jobs that have begun
    program,  \* program[j]: the steps that job j still has to do
    fd,       \* fd[j]: the file a job has open, or 0
    out,      \* out[j]: the file a copy writes to
    len,      \* len[j]: the length a job has read from a file, or will count
    data,     \* data[j]: what a get has read
    result,   \* result[j]: the command of the answer
    slot,     \* slot[t]: the scratch item of router_tx of a storage instance
    answers,  \* answers[j]: the answers committed with j's request id
    crashed,  \* std::terminate was called
    met,      \* history: the jobs that were at work while job j was
    before    \* history: the jobs that had ended before job j began

fileVars == <<entry, files>>
localVars == <<fd, out, len, data>>
tellVars == <<slot, answers>>
historyVars == <<mix, started, met, before>>
vars == <<entry, files, size, program, fd, out, len, data, result, slot,
          answers, crashed, mix, started, met, before>>

-----------------------------------------------------------------------------
(* The programs. A step says what it does, in which directory, to what. *)

Step(do, in, of) == [do |-> do, in |-> in, of |-> of]

\* if (f.exists()) { size -= f.getSize(); f.remove(); }
Unlink(p, u) ==
    << Step("exists", p, u), Step("shrink", p, u), Step("remove", p, u) >>

\* db_json::delete_uuid
DeleteUuid(u) == Unlink("cache", u) \o Unlink("db", u)

\* db_json::reduce_uuid_size
ReduceSize(u) == << Step("exists", "db", u), Step("shrink", "db", u) >>

\* The part of db_json::create and add_in_cache from the opening of the stream.
Create(p, u) ==
    << Step("truncate", p, u), Step("write", p, u), Step("count", p, u) >>

\* The end of a job: threads share the scratch item of their storage instance,
\* a task has its fifo for itself.
Ending(j) ==
    LET u == Of[j] IN
    CASE Kind[j] \in {"get", "save", "update", "delete"} ->
            << Step("fill", "db", u), Step("commit", "db", u) >>
      [] Kind[j] \in {"read", "store", "copy", "del", "move"} ->
            << Step("tell", "db", u) >>
      [] OTHER -> <<>>

Body(j) ==
    LET u == Of[j] IN
    CASE Kind[j] \in {"get", "read"} -> << Step("choose", "db", u) >>
      [] Kind[j] = "save" -> Create("db", u)
      [] Kind[j] \in {"update", "store"} -> ReduceSize(u) \o Create("db", u)
      [] Kind[j] = "copy" ->
            << Step("found", "db", u), Step("weigh", "db", u),
               Step("duplicate", "db", u), Step("pour", "db", u),
               Step("count", "db", u) >>
      [] Kind[j] = "del" ->
            Unlink("cache", u) \o << Step("found", "db", u) >> \o DeleteUuid(u)
      [] Kind[j] = "delUuids" -> << Step("found", "cache", u) >> \o DeleteUuid(u)
      [] Kind[j] = "delete" -> DeleteUuid(u)
      [] Kind[j] = "add" -> Create("cache", u)
      [] Kind[j] = "uncache" -> Unlink("cache", u)
      [] Kind[j] = "move" ->
            << Step("list", "cache", u), Step("reset", "cache", u) >>
      [] Kind[j] = "cleanup" -> << Step("list", "cache", u) >>

Success ==
    [get |-> "get_data", read |-> "get_data", save |-> "save_confirm",
     store |-> "save_confirm", update |-> "updated", copy |-> "copy_succeeded",
     del |-> "deleted", delete |-> "deleted", delUuids |-> "none",
     add |-> "none", uncache |-> "none", cleanup |-> "none",
     move |-> "completed"]

\* The storage instance a thread was started on, whose fifo and mutex it uses.
Instance(j) == IF Kind[j] \in {"save", "update"} THEN "writer" ELSE "storage"

\* The thread that carries out a job: messages to one task wait for each other.
TaskOf(j) ==
    CASE Kind[j] \in {"read", "copy", "del", "delUuids"} -> "storage"
      [] Kind[j] = "store" -> "writer"
      [] Kind[j] \in {"add", "uncache", "move"} -> "cache"
      [] Kind[j] = "cleanup" -> "timer"
      [] OTHER -> "thread of its own"

Active == {j \in started : program[j] # <<>>}
Ended == started \ Active
Head1(j) == Head(program[j])
At(j, do) == /\ ~crashed
             /\ program[j] # <<>>
             /\ Head1(j).do = do
File(j) == entry[Head1(j).in][Head1(j).of]

Init ==
    LET present == {"db"} \X Stored \cup {"cache"} \X Cached
        order == SetToSeq(present) IN
    /\ mix \in Mixes
    /\ files = [i \in DOMAIN order |-> << order[i][2] >>]
    /\ entry = [p \in Places |-> [u \in Uuid |->
                  IF <<p, u>> \in present
                  THEN CHOOSE i \in DOMAIN order : order[i] = <<p, u>>
                  ELSE 0]]
    /\ size = [p \in Places |->
                 Cardinality(IF p = "db" THEN Stored ELSE Cached) % Word]
    /\ program = [j \in Job |-> <<>>]
    /\ fd = [j \in Job |-> 0] /\ out = [j \in Job |-> 0]
    /\ len = [j \in Job |-> 0] /\ data = [j \in Job |-> <<>>]
    /\ result = [j \in Job |-> "none"]
    /\ slot = [t \in {"storage", "writer"} |-> <<>>]
    /\ answers = [j \in Job |-> <<>>]
    /\ crashed = FALSE
    /\ started = {}
    /\ met = [j \in Job |-> {}] /\ before = [j \in Job |-> {}]

-----------------------------------------------------------------------------
(* Beginning, continuing and giving up *)

\* A message reaches its task, or the kernel starts a thread. For updates and
\* deletions of peers the kernel has looked up the file itself.
Begin(j) ==
    /\ ~crashed
    /\ j \in mix \ started
    /\ \A i \in Active : TaskOf(i) = TaskOf(j) => TaskOf(j) = "thread of its own"
    /\ Kind[j] = "update" => entry["db"][Of[j]] # 0
    /\ program' = [program EXCEPT ![j] =
          IF Kind[j] = "delete" /\ entry["db"][Of[j]] = 0
          THEN Body(j) ELSE Body(j) \o Ending(j)]
    /\ result' = [result EXCEPT ![j] = Success[Kind[j]]]
    /\ started' = started \cup {j}
    /\ met' = [i \in Job |-> CASE i = j -> Active
                               [] i \in Active -> met[i] \cup {j}
                               [] OTHER -> met[i]]
    /\ before' = [before EXCEPT ![j] = Ended]
    /\ UNCHANGED <<mix, fileVars, size, localVars, tellVars, crashed>>

\* Job j is done with its first n steps.
Continue(j, n) ==
    /\ program' = [program EXCEPT ![j] = SubSeq(@, n + 1, Len(@))]
    /\ UNCHANGED <<result, crashed>>

\* The next file of move_cache_to_storage, whose loop catches the exception.
NextFile(steps) ==
    LET rest == {i \in DOMAIN steps : i > 1 /\ steps[i].do \in {"duplicate", "reset"}}
    IN  SubSeq(steps, CHOOSE i \in rest : \A k \in rest : i <= k, Len(steps))

\* Mutant: nobody catches the exceptions of a get.
ThrowThrough(j, why) ==
    /\ crashed' = (Kind[j] = "delete")
    /\ program' = [program EXCEPT ![j] =
          CASE Kind[j] \in {"store", "copy", "del"} -> Ending(j)
            [] Kind[j] = "move" -> NextFile(@)
            [] OTHER -> <<>>]
    /\ result' = [result EXCEPT ![j] = why]

\* An exception: answered by those who have to and silent in save and update;
\* nothing catches it in the thread of a deletion.
Throw(j, why) ==
    /\ crashed' = (Kind[j] = "delete")
    /\ program' = [program EXCEPT ![j] =
          CASE Kind[j] \in {"get", "read", "store", "copy", "del"} -> Ending(j)
            [] Kind[j] = "move" -> NextFile(@)
            [] OTHER -> <<>>]
    /\ result' = [result EXCEPT ![j] =
          CASE Kind[j] = "get" -> "refuse"
            [] Kind[j] = "del" -> "nack"
            [] OTHER -> why]

-----------------------------------------------------------------------------
(* Steps that read *)

\* look_up, and the choice between the cache and the storage in db_json::get.
ChoosePlace(j) ==
    /\ At(j, "choose")
    /\ LET u == Of[j]
           p == IF entry["cache"][u] # 0 THEN "cache" ELSE "db" IN
       IF entry[p][u] = 0
       THEN Throw(j, "failed")
       ELSE /\ program' = [program EXCEPT ![j] =
                  << Step("open", p, u), Step("measure", p, u),
                     Step("load", p, u) >> \o Tail(@)]
            /\ UNCHANGED <<result, crashed>>
    /\ UNCHANGED <<fileVars, size, localVars, tellVars, historyVars>>

\* The stream is opened; poco_assert(ifs.is_open()).
Open(j) ==
    /\ At(j, "open")
    /\ IF File(j) = 0
       THEN Throw(j, "failed") /\ UNCHANGED fd
       ELSE Continue(j, 1) /\ fd' = [fd EXCEPT ![j] = File(j)]
    /\ UNCHANGED <<fileVars, size, out, len, data, tellVars, historyVars>>

\* seekg to the end and tellg.
Measure(j) ==
    /\ At(j, "measure")
    /\ len' = [len EXCEPT ![j] = Len(files[fd[j]])]
    /\ Continue(j, IF files[fd[j]] = <<>> THEN 2 ELSE 1)
    /\ UNCHANGED <<fileVars, size, fd, out, data, tellVars, historyVars>>

\* read into the buffer of the length found before.
Load(j) ==
    /\ At(j, "load")
    /\ data' = [data EXCEPT ![j] = [k \in 1 .. len[j] |->
          IF k <= Len(files[fd[j]]) THEN files[fd[j]][k] ELSE Garbage]]
    /\ Continue(j, 1)
    /\ UNCHANGED <<fileVars, size, fd, out, len, tellVars, historyVars>>

\* f.exists() before the file's size is taken off and the file removed.
Exists(j) ==
    /\ At(j, "exists")
    /\ Continue(j, IF File(j) # 0 THEN 1
                   ELSE IF Kind[j] \in {"update", "store"} THEN 2 ELSE 3)
    /\ UNCHANGED <<fileVars, size, localVars, tellVars, historyVars>>

\* look_up before a copy, in delete_data and in delete_uuids.
Found(j) ==
    /\ At(j, "found")
    /\ IF \/ entry["db"][Of[j]] # 0
          \/ Head1(j).in = "cache" /\ entry["cache"][Of[j]] # 0
       THEN Continue(j, 1)
       ELSE /\ program' = [program EXCEPT ![j] = Ending(j)]
            /\ result' = [result EXCEPT ![j] = "nack"]
            /\ UNCHANGED crashed
    /\ UNCHANGED <<fileVars, size, localVars, tellVars, historyVars>>

-----------------------------------------------------------------------------
(* Steps that write *)

\* What a stream opened before leaves of the old content when it writes d.
Overlay(old, d) == d \o SubSeq(old, Len(d) + 1, Len(old))

\* Mutant: an existing file keeps its content.
OpenedKeeping(p, u) ==
    IF entry[p][u] # 0
    THEN UNCHANGED <<files, entry>>
    ELSE /\ files' = Append(files, <<>>)
         /\ entry' = [entry EXCEPT ![p][u] = Len(files) + 1]

\* Opening for writing: an existing file loses its content, else one is created.
Opened(p, u) ==
    IF entry[p][u] # 0
    THEN /\ files' = [files EXCEPT ![entry[p][u]] = <<>>]
         /\ UNCHANGED entry
    ELSE /\ files' = Append(files, <<>>)
         /\ entry' = [entry EXCEPT ![p][u] = Len(files) + 1]
Opens(p, u) == IF entry[p][u] # 0 THEN entry[p][u] ELSE Len(files) + 1

\* m_storage_size + n > m_storage_limit, both unsigned.
NoRoom(n) == (size["db"] + n) % Word > StorageLimit % Word

\* The limit is checked and the stream opened, which truncates the file.
Truncate(j) ==
    /\ At(j, "truncate")
    /\ LET p == Head1(j).in IN
       IF p = "db" /\ StorageLimit >= 0 /\ NoRoom(Size[j])
       THEN Throw(j, "no_space") /\ UNCHANGED <<fileVars, fd, len>>
       ELSE /\ Opened(p, Of[j])
            /\ fd' = [fd EXCEPT ![j] = Opens(p, Of[j])]
            /\ len' = [len EXCEPT ![j] = Size[j]]
            /\ Continue(j, 1)
    /\ UNCHANGED <<size, out, data, tellVars, historyVars>>

\* ofs.write; the storage checks whether it failed, the cache does not.
Write(j) ==
    /\ At(j, "write")
    /\ \/ /\ files' = [files EXCEPT ![fd[j]] =
                Overlay(@, [k \in 1 .. Size[j] |-> j])]
          /\ Continue(j, 1)
       \/ /\ j \in Faulty
          /\ IF Head1(j).in = "db" THEN Throw(j, "failed") ELSE Continue(j, 1)
          /\ UNCHANGED files
    /\ UNCHANGED <<entry, size, localVars, tellVars, historyVars>>

\* The size of what was written is added.
Count(j) ==
    /\ At(j, "count")
    /\ size' = [size EXCEPT ![Head1(j).in] = (@ + len[j]) % Word]
    /\ Continue(j, 1)
    /\ UNCHANGED <<fileVars, localVars, tellVars, historyVars>>

\* The size of a file is taken off; getSize throws if the file is gone.
Shrink(j) ==
    /\ At(j, "shrink")
    /\ IF File(j) = 0
       THEN Throw(j, "failed") /\ UNCHANGED size
       ELSE /\ size' = [size EXCEPT ![Head1(j).in] =
                  (@ - Len(files[File(j)])) % Word]
            /\ Continue(j, 1)
    /\ UNCHANGED <<fileVars, localVars, tellVars, historyVars>>

\* f.remove() throws if the file is gone.
RemoveFile(j) ==
    /\ At(j, "remove")
    /\ IF File(j) = 0
       THEN Throw(j, "failed") /\ UNCHANGED entry
       ELSE /\ entry' = [entry EXCEPT ![Head1(j).in][Head1(j).of] = 0]
            /\ Continue(j, 1)
    /\ UNCHANGED <<files, size, localVars, tellVars, historyVars>>

\* db_json::copy asserts that the file exists and checks the limit.
Weigh(j) ==
    /\ At(j, "weigh")
    /\ CASE File(j) = 0 -> Throw(j, "failed") /\ UNCHANGED len
         [] File(j) # 0 /\ NoRoom(Len(files[File(j)])) ->
              Throw(j, "no_space") /\ UNCHANGED len
         [] OTHER -> /\ len' = [len EXCEPT ![j] = Len(files[File(j)])]
                     /\ Continue(j, 1)
    /\ UNCHANGED <<fileVars, size, fd, out, data, tellVars, historyVars>>

\* The name under which the copy of a file is made.
CopyName(j) == IF Kind[j] = "copy" THEN Target[j] ELSE Head1(j).of

\* Poco::File::copyTo opens the source and the copy, into the storage directory.
Duplicate(j) ==
    /\ At(j, "duplicate")
    /\ IF File(j) = 0
       THEN Throw(j, "failed") /\ UNCHANGED <<fileVars, fd, out>>
       ELSE /\ Opened("db", CopyName(j))
            /\ fd' = [fd EXCEPT ![j] = File(j)]
            /\ out' = [out EXCEPT ![j] = Opens("db", CopyName(j))]
            /\ Continue(j, 1)
    /\ UNCHANGED <<size, len, data, tellVars, historyVars>>

\* Poco::File::copyTo reads the source and writes the copy.
Pour(j) ==
    /\ At(j, "pour")
    /\ files' = [files EXCEPT ![out[j]] = Overlay(@, files[fd[j]])]
    /\ Continue(j, 1)
    /\ UNCHANGED <<entry, size, localVars, tellVars, historyVars>>

-----------------------------------------------------------------------------
(* The whole cache *)

CachedNames == {u \in Uuid : entry["cache"][u] # 0}

\* What the loop over the files does to each of them.
LoopBody(j, test) ==
    IF Kind[j] = "move" THEN << "duplicate", "pour", "remove" >>
    ELSE << test, "shrink", "remove" >>

\* The directory is read: in any order to be moved, by modification time to be
\* cleaned up, where the first n files are older than m_cache_age.
List(j) ==
    /\ At(j, "list")
    /\ \E order \in SetToSeqs(CachedNames), n \in 0 .. Cardinality(CachedNames) :
          /\ n > 0 => Ages /\ Kind[j] = "cleanup"
          /\ program' = [program EXCEPT ![j] =
                [k \in 1 .. 3 * Len(order) |->
                   LET i == (k + 2) \div 3
                       body == LoopBody(j, IF i <= n THEN "expire" ELSE "trim")
                   IN  Step(body[k - 3 * (i - 1)], "cache", order[i])]
                \o Tail(@)]
    /\ UNCHANGED <<fileVars, size, localVars, result, tellVars, crashed, historyVars>>

\* The loop of cleanup_cache goes on while files are too old or the cache is
\* too large.
Trim(j) ==
    \/ /\ At(j, "expire")
       /\ Continue(j, 1)
       /\ UNCHANGED <<fileVars, size, localVars, tellVars, historyVars>>
    \/ /\ At(j, "trim")
       /\ Continue(j, IF size["cache"] > CacheLimit THEN 1 ELSE Len(program[j]))
       /\ UNCHANGED <<fileVars, size, localVars, tellVars, historyVars>>

\* The end of move_cache_to_storage.
Reset(j) ==
    /\ At(j, "reset")
    /\ size' = [size EXCEPT !["cache"] = 0]
    /\ Continue(j, 1)
    /\ UNCHANGED <<fileVars, localVars, tellVars, historyVars>>

-----------------------------------------------------------------------------
(* Answers *)

Answer(j) == [is |-> result[j], data |-> data[j]]

\* A task commits an answer in its own fifo.
Tell(j) ==
    /\ At(j, "tell")
    /\ answers' = [answers EXCEPT ![j] = Append(@, Answer(j))]
    /\ Continue(j, 1)
    /\ UNCHANGED <<fileVars, size, localVars, slot, historyVars>>

\* Mutant: nobody locks the mutex.
MutexIgnored(j) == j \in Active

\* Whether m_router_mutex of j's storage instance is free.
MutexFree(j) ==
    \A i \in Active \ {j} : Head1(i).do = "commit" => Instance(i) # Instance(j)

\* A thread locks m_router_mutex and fills the scratch item of router_tx.
Fill(j) ==
    /\ At(j, "fill")
    /\ MutexFree(j)
    /\ slot' = [slot EXCEPT ![Instance(j)] = <<j, Answer(j)>>]
    /\ Continue(j, 1)
    /\ UNCHANGED <<fileVars, size, localVars, answers, historyVars>>

\* It commits the item and unlocks the mutex.
Commit(j) ==
    /\ At(j, "commit")
    /\ LET item == slot[Instance(j)] IN
       answers' = [answers EXCEPT ![item[1]] = Append(@, item[2])]
    /\ Continue(j, 1)
    /\ UNCHANGED <<fileVars, size, localVars, slot, historyVars>>

Work(j) ==
    \/ ChoosePlace(j) \/ Open(j) \/ Measure(j) \/ Load(j) \/ Exists(j) \/ Found(j)
    \/ Truncate(j) \/ Write(j) \/ Count(j) \/ Shrink(j) \/ RemoveFile(j)
    \/ Weigh(j) \/ Duplicate(j) \/ Pour(j) \/ List(j) \/ Trim(j) \/ Reset(j)
    \/ Tell(j) \/ Fill(j) \/ Commit(j)

Next == \E j \in Job : Begin(j) \/ Work(j)

\* Threads that have begun go on.
Spec == Init /\ [][Next]_vars /\ WF_vars(\E j \in Job : Work(j))

-----------------------------------------------------------------------------
(* Properties *)

\* A version of data is named by the job that wrote it or, for what was there
\* at the start, by its uuid.
Version == Job \cup Uuid \cup {Garbage}
FileNo == 0 .. Len(files)

\* Every variable has its type.
TypeOK ==
    /\ files \in Seq(Seq(Version))
    /\ entry \in [Places -> [Uuid -> FileNo]]
    /\ size \in [Places -> 0 .. Word - 1]
    /\ started \subseteq Job
    /\ \A j \in Job : \A i \in DOMAIN program[j] :
          program[j][i].in \in Places /\ program[j][i].of \in Uuid
    /\ fd \in [Job -> FileNo] /\ out \in [Job -> FileNo]
    /\ len \in [Job -> Nat] /\ data \in [Job -> Seq(Version)]
    /\ crashed \in BOOLEAN
    /\ met \in [Job -> SUBSET Job] /\ before \in [Job -> SUBSET Job]

\* The data a job works on, and the jobs that write it.
Touches(j) == IF Kind[j] \in {"move", "cleanup"} THEN Uuid
              ELSE IF Kind[j] = "copy" THEN {Of[j], Target[j]} ELSE {Of[j]}
Writers == {j \in Job : Kind[j] \in {"save", "update", "store", "add", "copy", "move"}}
Removers == {j \in Job : Kind[j] \in {"del", "delUuids", "delete", "uncache",
                                       "move", "cleanup"}}
Confirmed(j) == \E i \in DOMAIN answers[j] :
    answers[j][i].is \in {"save_confirm", "updated"}

\* The names whose data may be copied, in one or more steps, to the name u.
Sources == [u \in Uuid |->
    {x \in Uuid : \A S \in SUBSET Uuid :
        /\ u \in S
        /\ \A c \in Job : Kind[c] = "copy" /\ Target[c] \in S => Of[c] \in S
        => x \in S}]

\* The versions that may be found under the name u.
VersionsOf == [u \in Uuid |->
    Sources[u] \cup {w \in Writers : Of[w] \in Sources[u]}]

\* The types hold.  Threads share the scratch item of the fifo to the router
\* (storage.cpp:131-137): a request gets one answer, with its own data.
AnswersMatch == TypeOK /\ \A j \in Job :
    /\ Len(answers[j]) <= 1
    /\ \A i \in DOMAIN answers[j] :
          /\ answers[j][i].is = result[j]
          /\ ToSet(answers[j][i].data) \subseteq VersionsOf[Of[j]] \cup {Garbage}

\* Version v of what g reads was overwritten in the storage directory before g
\* began: by a save or an update that began when v's writer and every copy to
\* that name had ended.
Overwritten(v, g) ==
    \E w \in before[g] :
        /\ Kind[w] \in {"save", "update", "store"} /\ Of[w] = Of[g]
        /\ Confirmed(w)
        /\ \A c \in before[g] \cup met[g] :
              Kind[c] = "copy" /\ Target[c] = Of[g] => c \in before[w]
        /\ IF v \in Job THEN v \in before[w] /\ Kind[v] # "add"
                        ELSE v = Of[g] /\ Of[g] \notin Cached

\* A writer that met another job on the same data, or failed, may leave or show
\* a part of its data.
Disturbed(g) ==
    \E w \in Writers \cap (before[g] \cup met[g]) :
        \/ w \in Faulty
        \/ \E j \in before[g] \cup met[g] \cup {g} :
              w \in met[j] /\ Touches(w) \cap Touches(j) # {}

\* What a get returns although others save, update, copy, move and delete: the
\* data of no version that was overwritten before the get began, in whole if
\* no writer was disturbed, and a refusal only if the data may be missing.
RegularGet == \A g \in Job : \A i \in DOMAIN answers[g] :
    LET d == answers[g][i].data IN
    /\ answers[g][i].is = "get_data" =>
          /\ \A k \in DOMAIN d : ~Overwritten(d[k], g)
          /\ \/ Disturbed(g)
             \/ \E v \in VersionsOf[Of[g]] :
                   d = [k \in 1 .. IF v \in Job THEN Size[v] ELSE 1 |-> v]
    /\ answers[g][i].is \in {"refuse", "failed"} /\ Kind[g] \in {"get", "read"} =>
          \/ Of[g] \notin Stored \cup Cached
          \/ \E j \in Removers \cap (met[g] \cup before[g]) : Of[g] \in Touches(j)

\* Every request that began is answered in the end, whatever fails
\* (storage.cpp:111-139, 178-206, 276-305, 326-354).
MustAnswer == {j \in Job :
    Kind[j] \in {"get", "read", "store", "copy", "del", "move"}}
EveryRequestAnswered ==
    <>[](crashed \/ \A j \in MustAnswer \cap started : Len(answers[j]) = 1)

=============================================================================
