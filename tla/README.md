# Metax in TLA+

Metax is a decentralised storage network. A node is one process of about a
dozen tasks (threads that exchange messages through fifos), and nodes talk to
their peers over TLS connections. This directory specifies the program in
`src/src`: what its parts keep and do, which properties make them correct, what
TLC checks of them on small instances and what TLAPS proves of them in general.

## The system

All tasks are instances of `platform::csp::task`. A task loops over
`wait()`, which blocks until one of its input fifos has data, handles at most
one message of each input, and posts messages into the fifos of other tasks.
Requests are named by 32-bit ids and are resumed from maps when the answer comes,
so every handler runs to its end without blocking. The exceptions are timers
(threads of Poco that set a flag and wake their task), `std::thread`s that the
kernel detaches for storage work of peers, and the HTTP threads of the web API.

| component | state | operations | talks to | what makes it correct |
|---|---|---|---|---|
| CSP runtime (`platform/task`, `fifo`) | queues, the scratch item, the reader's event, the set of inputs | push, front/pop, deactivate, `wait()`, stop, timer callbacks | every task | nothing is lost, duplicated or reordered; no wake-up is missed; a task ends when stopped or when its inputs are closed and drained |
| Router (`metax/router`) | `m_tenders`, `m_sync_tenders`, `m_id_tenders`, `m_tenders_timeline`, the request counter | announce a request, take, refuse, forward or answer a tender, pass an answer back, nack, expire, clear | kernel, storage, link, peers | answers find their way back, every request ends, tenders stay within the hop limit, the tables agree, no assertion fails |
| Link (`metax/link`, `link_peer`) | peers with handshake state, rating, balance, last-seen times; removable peers | accept, connect, handshake, broadcast, send, keep-alive, reconnect, drop | router, key manager, configuration, sockets | one connection per peer, no message before the handshake, a dropped peer is reported once |
| Kernel (`metax/kernel`) | requests, save units, streams, listeners, the user json | save/get with chunking and copies, share, listen, livestream, journal sync | all tasks | every IMS request is answered once, a save succeeds only with its copies, a get assembles the right version |
| Storage (`metax/storage`, `platform/db_json`) | files, cache files, two sizes and two limits | save, update, get, delete, copy, look up, cache, move the cache, clean up | kernel, router, backup, configuration | sizes describe the files, limits hold, a reader sees a whole version |
| Backup (`metax/backup`) | the journal `device.json`, its dirty flag | add an entry, compare with a peer's journal, fetch and delete, expire, save | kernel, storage, user manager | journals of devices converge to the newest versions |
| User manager | the user json and its version | load, merge, save, finalise | kernel, key manager, backup | devices agree on the newest user json, the last save reaches backup |
| Key manager | keys, pending encryption | generate, encrypt, decrypt, sign, check an id | kernel, link, user manager | an answer per request |
| Configuration manager | `config.xml`, `storage.json`, peers | read, write | all tasks | files are whole after a crash |
| Wallet | none | consumes its input | – | – |
| Web API (`metax_web_api`) | requests waiting for an answer, listeners | HTTP and websocket requests | kernel | every HTTP request is answered once |
| Wiring (`metax/hop`) | – | builds tasks and connects fifos | all | – |

Hard behaviours: the order of events between threads that share a fifo or an
event; answers that come late, twice, or from a peer that is gone; expiry racing
an answer; floods in networks with cycles; detached storage threads;
files rewritten while a crash may come; shutdown.


## The modules

| module | models | uses |
|---|---|---|
| `TaskChannels` | what the components assume of the runtime: ordered, lossless channels into a task that may be stopped | – |
| `CspTask` | `csp::task`, `csp::fifo` seen through `task::wait`, the manager's stop, a timer | implements `TaskChannels` |
| `FifoWait` | `fifo::wait_for_data`, the wait on one input by its own event, and backup's use of it at shutdown | – |
| `Router` | the router tasks of a network, with the links between them and the kernels they ask | – |
| `Lists` | lists of ids, what is kept of them and how they are cut | – |
| `KernelSave` | how the kernel saves and updates the data of its clients | `Lists` |
| `Storage` | storage, storage_writer, the cache and the detached threads on one `db_json` | – |
| `GetService` | what the kernel promises a client that gets an object | – |
| `KernelGet` | how the kernel gets objects, files and streams for its clients | `Lists`; implements `GetService` |
| `WebApi` | the HTTP handlers and the task of `web_api_adapter` | the kernel of `GetService` |
| `JournalSync` | backup's journals, `device.json`, and the synchronisation of two devices through link, router, kernel and storage | – |
| `MCCspTask`, `MCRouter`, `MCKernelSave`, `MCStorage`, `MCKernelGet`, `MCWebApi`, `MCJournalSync` | small instances for TLC | the module they are named after |
| `CspTaskProofs`, `RouterProofs`, `ListProofs`, `KernelSaveProofs`, `StorageProofs`, `KernelGetProofs`, `WebApiProofs`, `JournalSyncProofs` | theorems | the module they are named after (`CspTaskProofs` also `FifoWait`, `ListProofs` `Lists`), `TLAPS` |

`PROJECT.json` maps every definition to the lines it models. Definitions
preceded by a comment that begins with "Mutant" are plausible bugs; no
specification uses them, they serve to show that each property can fail.

### TaskChannels and CspTask

A fifo is a queue plus the scratch item its writer fills before `commit()`. The
mutex of a fifo makes each of its methods one step, and so is every operation on
the task's control signal, an auto-reset event shared by the task and all its
fifos. `task::wait()` is cut where another thread may come in between: the
cancellation check (`LeaveCancelled`), each look at an input (`Scan`), the
reset of the signal in a round that found data (`ResetOnData`), the sleep and
wake (`ScanEnds`, `Wake`), the search for inactive inputs, their removal and
the reset after it (`Prune`, `PruneEnds`, `ResetAfterPrune`). The writers fill and
commit, or deactivate their output; the manager cancels and then wakes; the timer
sets its flag and then wakes, in the router under a mutex (`LocksTimer`), whose
expiry handler also resets the signal (`HandleTimer`).

`TaskChannels` is the abstract specification: messages are appended to a channel,
received in order, and the task ends only when stopped or when all channels
are closed and empty. `ImplementsChannels` is the refinement, with the committed
queue as the pending messages and `handled` as the received ones. The components'
modules use such channels: one queue per pair of actors.

### FifoWait

The other way to wait: `wait_for_data` on the fifo's event `m_available`, which
every push sets although `task::wait` never consumes it, so that it may be stale. The
reader is either a loop `while (wait(rx))`, as in `platform_test`, or backup,
which lives in `task::wait` and at the end calls `wait_for_data` until it has the
final message of the user manager.

### Router

State, for every node: `tenders` is `m_tenders`, `ids` is `m_id_tenders`,
`timeline` is `m_tenders_timeline`, `counter` is `m_request_counter`. `net` holds
what travels between the links of two nodes and, on the diagonal, the nacks of a
link to its own router; `up` are the connections. Of the kernels only what
routers see is kept: what they owe an answer to (`owed`), what they were told
(`told`) and how much of it they have handled (`heard`), and which of their
requests are still in `m_requests` (`waiting`). `aborted` are the nodes where a
`poco_assert` has failed.

Actions: `Ask` (a kernel announces a request), `Reply` (a kernel answers, refuses or
clears what its router handed it, together with what the router does then),
`Hear` (the kernel that asked handles the next thing it was told), `Receive` (a
message of a peer: new, ignored, for the kernel, or bypassed), `Nack`, `Expire`,
`Disconnect`. Request ids and tender ids are abstract, and the first commands are
grouped into the six kinds that are treated differently. What a node answers goes on by
`Respond`: the answers of the storage and most of the kernel's take `Transfer`, which tests
and sets the state of the tender; the kernel's `copy_succeeded` takes `Confirm`
(`handle_kernel_confirm_for_multiwinner_tender`), which tests that the tender is remote and
leaves the state. `Copies` are the requests answered that way.

Left out: tenders of the storage sync and of livestreams, the offers of the
multiwinner protocol that nothing sends any more, the rating of peers by their
answers, the link's filters for peers that are syncing or still shaking hands, the
wrap of the 32-bit request counter. Expiry is not tied to time: with `Patient`
FALSE a tender may expire at any moment, which covers every timing of the
real timer and more; with `Patient` TRUE none does.

### KernelSave

`k` is the kernel: its tables (`requests` is `m_requests`, `unit` is `m_save_units`,
`ims` is `m_ims_req_ids`), the sets and flags of a request (`local`, `units`,
`backup`, `saved`), the two lists of pending units and the two counters, what it
has posted to the key manager (`key`), to the storage writer (`storage`) and to the
router (`tenders`), and what it told its clients. A handler is an operator from
such a record to the next, and calls others where the code does: `Confirm` is
`handle_save_confirm_for_local_save_unit`, and ends with `ProcessPending` as that
does. Units are named by their request and position; position 0 is the master.

Actions: `ImsSave`, `KeyAnswer` (a key, an encrypted piece or master),
`StorageConfirm`, `StorageNoSpace`, `StorageFailed`, `RouterConfirm`,
`RouterCancel`. A save whose data the storage cannot take is one outside `Fits`. Every
unit has size 1 for the limit of the router, so no small unit overtakes a large one
in `m_pending_router_save_reqs`. `max_save_fail_count` is 1, as the constructor
sets it and nothing changes. Left out: the user json, where the copies are
noted, and, after an update, the deletion of the old pieces, which have tables
of their own.

### Storage

The storage directory and the cache directory map names to files, and a file is the
sequence of blocks written to it, so that a reader sees what a writer has
truncated or written in part. A job is one message to a task, one round of the
clean-up timer, or one thread the kernel detaches for a peer; it is a program of
steps that end where another job can interfere: system calls, changes of the two
sizes (`size`, modulo `Word`), the steps of an answer. `Begin` starts a job when its task is
free, the steps have the names of what they do (`Open`, `Truncate`, `Write`,
`Count`, `RemoveFile`, `Trim`...), `Fill` and `Commit` put the answer into the
scratch item of the fifo to the router, which threads share under
`m_router_mutex`. `met` and `before` remember which jobs a job overlapped with or came
after, for `RegularGet` only.

The versions of an object are the writers of it; version `u` is the data that was stored
under the name `u` at the start. A copy takes versions to another name, also in several
steps, so `VersionsOf` a name closes over the copies (`Sources`). A copy never goes to the
name it comes from, because the kernel makes a new random uuid for it (kernel.cpp:1275-1279).
A copy to the name of a get may bring an old version back, so `Overwritten` asks that every
copy to it had ended before the overwriting write began.

Left out: the message that tells the configuration manager the sizes, and `db_sqlite`,
which is not built.

### KernelGet and GetService

`k` is the kernel as in `KernelSave`: `requests` and `ims`, the list of requests that wait
for one object (the first is its leader), what each request is for (`uuid`), `units` and
`missing` pieces, the state of the chunks and the streaming state (`curr`, `last`, the
range) of each request, the pending pieces and the counters behind `max_get_count` and
`max_router_get_input_size`, and what was posted to storage, router and key manager.
`stored` are the files on disk or in the cache; `Lose` takes one away between a look-up
and the get, as another client's deletion or the cache's clean-up does.

Actions: `ImsGet`, `ImsCleanStream`, the answers of storage, router (data or cancel)
and key manager (together `Answer`), `RouterSyncFinished` (gets blocked during a
synchronisation start), `AddInCache`, `Lose`.

A stream may be cleaned at any moment after its announcement, once, whether it has ended or
not (`cleaned`), as `WebApi` shows that the Web API does; the assertions of
`handle_ims_clean_stream_request` are part of `NoAbort`.

`GetService` is what a client sees: data, a failure, or the number of chunks and
then the chunks, with a failure possible at any point, also after the last chunk, and nothing
after it, nor after the stream is cleaned (`closed`).
`KernelGet` implements it with `told` as `said`, which is proved, and `WebApi` uses it as its
kernel, so the two sides are checked against one contract. It promises no
answer: that is `EveryGetAnswered`.

### WebApi

Handlers are named by their address, as `m_client_to_request` does, so a handler that has
gone may be followed by another of the same name (`Arrive`). `gets` is
`m_get_requests`, `clients` is `m_client_to_request`, `answer` and `gone` are the
promises, `maps` and `tx` the mutexes that are held over more than one step. A
handler inserts its request, sends it (or fails to), waits for its answer, reads chunks, cleans
its stream, or listens to a livestream and leaves it. Reading ends in four ways: after the
last chunk, or when the file of a chunk is missing, the handler goes on to clean the stream;
when the headers, a file or the socket throw, or when the promise holds an exception, it just ends
(`Quits`). The task looks an answer up, uses the entry and sets the promise after the
unlock, and erases; at the end it sets an exception in the promises and waits for the
handlers (`Finish`, `Join`). `Stop` may come at any time.

The kernel says whatever `GetService` allows, so also `get_fail` for a stream whose chunks
have all come and that is about to be cleaned: another client's piece fails while the handler
sleeps before its clean (db_request_handler.cpp:636). It has to say something until a talk is
complete (`KernelAnswers`, with fairness); the late failure is an option. The process ends
(`aborted`) when an assertion of the task fails, or when it uses an entry that is erased
(`gets[id]` is none after the look-up found one) or the promise of a handler that is gone
(`Unusable`). Assertions that fail in a handler throw into its `catch (...)` and are ignored,
as in the code. The look-up and the erasure of `cancel_livestream_get` are two steps
(`Leave`, `Forget`), each under the maps' mutex.

Left out: the content of a livestream, requests other than gets, which wait for
one promise in the same way, and the parsing of HTTP.

### JournalSync

`json` is `m_storage_data` of backup, `file` what of it is in `device.json`,
`store` the contents in the storage, `writing` and `noting` what detached threads have
still to do; `seen`, `heard` and `finished` are the link's `last_seen`,
`last_received_time` and `is_sync_finished`; `mine` and `theirs` are the routers'
`m_sync_tenders` on the asking and the asked side; `req` is the kernel's request, and
`blocked` its `m_should_block_get_request`. A label is the time of a change, and an entry
a label with a deletion mark.

Actions: `Change` (a client), `Write` and `Note` (the detached threads), `Save` (backup's
timer), `Restart` (clean, or a crash that falls back to `file`), `Connect` and
`Disconnect`, `Receive` (what the router and the link do with a peer's message), `Expire`
and `ExpireTheirs`, `KernelHandles` with a disjunct per message, `KernelWants`,
`StorageLists`, `StorageReads`, `BackupStamps`. What a broken connection has not delivered is
lost, and each synchronisation belongs to one connection.

Left out: the expiry of data and tombstones (`clean_up_expired_data`), notifications of
deletions, the removal of cached files, synchronisation over a relay.

## What is checked

Every run finishes on a laptop in less than three minutes. Deadlock is not checked
because all of these systems may stop: tasks end, networks come to rest, clients ask no
more.

| run | instance | shows |
|---|---|---|
| `csp_task` | 2 inputs with a writer each, 2 messages per writer, 2 expirations of a timer, deactivation and stop at any moment | `NoLostWakeup`, `EndsDrained`, `TimerServed`, refinement of `TaskChannels` (with its liveness) |
| `fifo_wait` | 8 pushes | a true result means data for the simple loop; backup gets its last message |
| `router_get` | square with a diagonal, 2 holders, one connection breaks, expiry at any time | `NoAbort`, `OneAnswer`, `QuietAfterClear` |
| `router_talk` | line of five, a message from one end and a notification from the other, one connection breaks, expiry at any time | `Bookkeeping`, `HopsRespected`, `EveryRequestEnds` |
| `router_quiet` | square, a message to a user and a copy with 2 holders at one time, no faults | `NoAbort`, `NoLoops`, `HolderFound`, `EveryCopyReported` |
| `kernel_save` | three saves: pieces stored here and copied; pieces only sent to peers; a small one the storage has no room for. 1 or 2 copies, 1 place in the storage, 2 in the router; writes fail and tenders expire at any moment | `NoAbort`, `UnitsHaveRequests`, `SuccessMeansSaved`, `RouterAccount`, `FailureDeletesPieces`, `EverySaveAnswered` |
| `storage` | any three of fourteen jobs on three names: gets, a save, an update, a save that may fail, a copy, deletions, the cache's jobs | `AnswersMatch`, `RegularGet`, `EveryRequestAnswered` |
| `kernel_get` | two clients; an encrypted file in pieces, a video in pieces, a song in its master; five ranges; four placements of the files, one of which may go away | `NoAbort`, `StreamsInOrder`, `RangeServed`, `RouterAccount`, `EveryGetAnswered`, refinement of `GetService` |
| `web_api` | three handlers, one listens; two requests, streams of up to two chunks, whose files may be missing; the application stops at any moment | `NoAbort`, `ClientsAgree`, `CleansOnce`, `EveryHandlerEnds` |
| `journal_sync` | two devices of sync classes 1 and 0, one object, two connections, a crash or restart, an early expiry | `NoAbort`, `BlockEnds`, `SyncDelivers`, `SyncKeepsNewest`, `SeenAfterSync` |

The type invariant of a module is a conjunct of the first property of its run
(`NoAbort` or `AnswersMatch`), and a theorem for every module of the program.

Two runs end in a violation, each of a property that the repository states:

| run | what the code does |
|---|---|
| `csp_finish` | `wait()` resets the signal in a round that found data; a deactivation in between is forgotten and the task sleeps on inactive inputs |
| `kernel_full` | a small encrypted save on a node whose storage is full aborts the node: the master is treated as a piece |

Several properties name their exceptions, and each exception is something the
code does: an `EverySaveAnswered` without failed writes, `EndsRegularly` in
`RangeServed`, wrapped chunk counts and `LeftBehind` in `EveryGetAnswered`,
`ChunkAfterClean` and `FailureTooLate` in the `NoAbort` of `WebApi`, `StreamFailed`,
`LockCycle` and `TooLate` in `EveryHandlerEnds`, `Disturbed` in `RegularGet`, a peer that has
lost what it announced in `SyncDelivers`.

### What came up besides

Seen while modelling, without a run of its own.

Router and kernel:

- `recording_start`, `recording_stop`, `on_update_unregister` and the notifications are not
  among the commands whose repeats `process_existing_tender` ignores
  (router.cpp:1277-1292). In a triangle, with `Kind` "record" in `Router`, the repeat
  reaches `bypass_tender_response` while the kernel owns the tender, and the assertion
  at router.cpp:1649 fails.
- Those repeats are passed on without the last-hop test of a new tender. With `hop_id` 0
  a router whose own tender has expired takes one as new and decrements to 65535, and the
  notification floods the network, against router.hpp:427. (`HopsRespected` fails
  for `Kind` "notify" in a triangle with a tail of three, and with `MaxHops` = 1 for any
  kind: `HopsAreRespected` is proved for the rest.)
- A user with two devices behind one relay: the second `peer_found` is passed to
  the first device, which aborts (router.cpp:1662 and 1649).
- `process_pending_save_requests` looks at the storage before it drops the units of
  failed saves, and nobody looks again (kernel.cpp:7045 and 7078, against
  kernel.hpp:1896-1898). With one place in the router `EverySaveAnswered` fails.
- A piece the storage fails to write, and those given up with it, keep their places in
  `m_storage_input_cnt` for ever (kernel.cpp:2244).
- After a fully confirmed backup of its master a request stays in `m_requests`
  (kernel.cpp:4437 removes the unit's id, kernel.cpp:467 has inserted the request's).
- `no_space` for one of several pieces while others are pending fails the
  assertion `preq.local` at kernel.cpp:7089.
- A piece that is confirmed after its save has failed is never deleted (kernel.cpp:5918).
- Two writers of one fifo lose messages between `operator*` and `commit` (fifo.hpp:64
  warns of it; the proofs assume `OwnChannels` where it matters).

Gets and streams:

- A range that ends at the first byte of a chunk, or past the object, never sets
  `streaming_state.last` (strict comparisons around kernel.cpp:6874): nothing more is sent, and
  with `curr` above 0 the number of chunks wraps (kernel.cpp:630).
- A file that vanishes between look-up and get reduces the router's counter although it was
  never counted; the request of a failed piece stays in `m_requests`; so does the
  entry in `m_ims_req_ids` after `clean_stream`.
- A stream that is cleaned before its end erases the request that has asked for chunks. When
  they come nobody finds it, the chunks stay "requested", and another client of the
  object waits for them for ever (`LeftBehind`).

Web API:

- When the file of a chunk is missing, `start_media_streaming` leaves its loop and cleans the
  stream all the same (db_request_handler.cpp:617-622 and 638). A chunk that the kernel has
  sent by then finds no entry, and the assertion at web_api_adapter.cpp:1595 ends the
  process (`ChunkAfterClean`). So does the next handler of an address whose handler ended
  with an exception: it finds, and cleans, the stream that one left behind.
- `get_fail` may follow `prepare_streaming`, also after the last chunk. Then `handle_get_fail`
  (web_api_adapter.cpp:1930-1947) uses, without the mutex, an entry that the cleaning handler
  may erase, or a promise that has gone with its handler (`FailureTooLate`); if both are there
  it sets the promise a second time, which throws, and the handler of a stream that misses
  chunks waits until the application ends (`StreamFailed`).
- `clean_streaming_request` (856-874) and `cancel_livestream_get` (315-335) take
  two mutexes in opposite order (`LockCycle`).
- The assertion at web_api_adapter.cpp:863 throws when another handler of the same address
  has come meanwhile; the exception is swallowed and the stream never cleaned
  (web_api_adapter.hpp:463 promises that it is).
- A handler that enters its request after the task has set its exceptions is never
  answered, and `joinAll` waits for it (`TooLate`).
- `cancel_livestream` works without the mutex; `send_livestream_content` takes the wrong
  one.

Storage:

- A failed overwrite leaves `m_storage_size` too small, two concurrent updates subtract
  the old size twice, `add_in_cache` counts what is there already, `move_cache_to_storage`
  sets the cache's size to zero. Wrapped, the size makes the next clean-up delete the
  whole cache (db_json.hpp:142 and 147 promise otherwise). The limit is checked before the
  write, while others write, and `copy` checks it although it may be negative, "no limit".
- A get next to an update may return nothing, a part, or a mixture of two
  concurrent updates; a get prefers a stale copy in the cache. Failures of a peer's save
  or update are told to nobody. `Poco` exceptions at storage.cpp:361 end the process.

Journals:

- A connection that breaks before `send_uuids` was posted still advances `last_seen`
  (`is_sync_finished` starts TRUE, link_peer.cpp:409), and a synchronisation that expired
  counts as finished (router.cpp:1884): those changes are never synchronised, against the
  comment on sync classes in config.xml (72-75).
- Tombstones are applied without a comparison of versions (backup.cpp:594), and what
  comes is written without comparing again: a local change or a second
  synchronisation in between is overwritten. `SyncKeepsNewest` says what remains.
- The journal is marked before the detached thread has written, so old content may be
  sent with a new label. A deleted object whose file is still there is sent as live.
- A crash loses the entries since the last save of `device.json` while the storage keeps
  the contents; a crash while the ratings are overwritten makes `last_seen` fall back to
  three days.
- `send_uuids` skips objects that are gone from the storage, so that the request ends
  only by expiry; a request that wants nothing stays in `m_requests`.

### Bounds, and why they are enough

*Runtime.* Two inputs are needed for a scan to pass over one while the other
changes, two messages for order and for a queue that is not emptied by one round. The
safety part is proved for any number of them.

*Router.* The diagonal of the square gives a node two routes of different length to
each other node and a triangle, the smallest cycles in which copies of a
request meet; the line of five is longer than the hop limit 3 allows, so that
a tender really ends. `MAX_HOPS` counts so that `M` lets a request cross `M - 1`
connections. `HopWidth` is the real 65536. A larger limit with unbounded expiry
lets a tender expire and be announced again by a copy still under way, which
the real timer rules out for all practical delays; this is why the runs with faults use
limit 3 and why conversations of `find_peer` in cycles are checked without expiry.
`HolderFound` is checked where all routes to the holder have equal length: in
other networks the copy that comes first may have come by the longer
route, and the copies that could go on are ignored.

*KernelSave.* Two pieces per save are the least that can succeed and fail separately and
arrive in either order. One place in the storage makes pieces wait; two in the
router let a piece for peers meet a copy of a stored one. With one copy the first is the
last (`clean_up_save_request`), with two it is not. The run also passes with 3
copies, which takes some minutes.

*Storage.* Three jobs are a reader between two writers, or two writers and the clean-up;
every choice of three of the fourteen is a start. A name is in the storage, one in the
cache, one nowhere, the limits are met by two saves and by one cached file. `Word` is
larger than the sum of all sizes, so that only a decrement below zero wraps.

*KernelGet.* Two clients of one object are a leader and a follower, of two objects they compete
for `max_get_count` and the router, both 1. Files of two chunks have a first and a
last; the last chunk of the file is shorter. The ranges begin and end at the edges of a
chunk and within it. One lost file is enough for a look-up that is not true any more.

*WebApi.* Three addresses let two handlers hold the locks in opposite order while a third works;
the second request may be one of the same address, which finds what the first left behind. Two
chunks are a stream that is left between them, and one that is not. The three invariants are
proved for any number of each.

*JournalSync.* Two changes, one of them possibly made before the start, are a version and a
newer one, in either journal, as content or deletion. The second connection has the
other device ask, after what the first has left: a break, an early expiry, a crash. The
classes 1 and 0 are both ways to begin a synchronisation.

### Fairness

- Runtime: a thread that is in the middle of a method continues, and a task that
  is not asleep keeps running (`WF` on `Reader`, `Commit`, `StopWake`,
  `TimerWakes`): the threads of the operating system. Nobody is obliged to write, to
  stop or to let a timer expire.
- Router: routers handle their inputs, kernels answer what they are handed, tenders
  that are watched expire (`onTimer` looks at them periodically). Connections need
  not break.
- KernelSave: the key manager and the storage answer what they were asked; some open
  tender is eventually cancelled if nothing else happens to it, which is what
  `EveryRequestEnds` shows of the router. Clients need not ask, peers need not confirm.
- KernelGet: the same, as weak fairness of `Answer`. It is written with `Busy`, which says when an
  answer is possible, because TLC evaluates that faster than `ENABLED`. (`Busy` is part of the
  fairness condition and stands for no code.)
- Storage: jobs that have begun go on. Jobs need not come.
- WebApi: handlers, the task and the kernel go on; nobody has to ask, to leave a
  livestream, to fail a stream that has ended, or to stop the application.
- JournalSync: tasks, threads and the routers' timers go on. No property of its run depends
  on it: all five are safety properties.

## What is proved

All theorems hold for every value of the constants that satisfies the `ASSUME`s
of the module.

`CspTaskProofs`:

- `TypeCorrect` and `NeverLosesWakeup`, for any number of inputs and writers, also
  several on one fifo. The invariant `SafeInv` adds to the types what makes it
  inductive: inputs that the current scan passed over are still empty or the signal
  is set (`QuietOK`), the pass is over members of `m_inputs` (`PassOK`), a task
  leaves early only when cancelled (`LeaveOK`).
- `LeavesNothingBehind` (`EndsDrained`) and `ImplementsChannelsSafely`, under the
  assumption `OwnChannels` that no two outputs share a fifo. The invariant
  `ChannelInv` says that what is found inactive and empty stays so, because its only
  writer has closed. The refinement maps each step to a step of `TaskChannels`
  or a stutter; its liveness is left to TLC.
- `WaitTypeCorrect` and `TrueAlwaysMeansData` (`TrueMeansData`) of `FifoWait`, for any
  number of messages. The invariant `EventOK` says, for each point of the loop, how many
  items a set event stands for when the caller waits in no other way; backup, which lives
  in `task::wait` before, is outside the theorem as it is outside the property.

`RouterProofs`, from `NodeAssumption`, `TenderAssumption`, `HopAssumption` and
`NoneAssumption` (an entry is not `None`), for any network, any requests and with
expiry and broken connections:

- `RouterTypeCorrect`.
- `TablesAgree` (`Bookkeeping`). It is not inductive by itself: an answer of the
  kernel is looked up by request id, so the invariant `RouterInv` also says that
  no two tenders of a node share a request id (`UniqueIds`), that an id is the
  kernel's own at the node that asked or below the counter (`EntryOK`), and that
  only requests that were asked for travel (`NetAsked`).
- `ClearedIsQuiet` (`QuietAfterClear`), an action property that follows from the
  same invariant: no step tells a kernel anything of a tender marked canceled.
- `HopsAreRespected` (`HopsRespected`), for `MAX_HOPS` of at least 2 and requests whose
  repeats are ignored (`Moderate`; above is what happens otherwise). The invariant says of
  each entry and each message under way that its node can be reached with the hops it has
  used (`EntriesInReach`, `QueuesInReach`), over connections that exist
  (`ConnectionsLinked`), and that what the kernel owes matches an entry (`DebtsMatch`).

On answers: `AnsweredOnce` (`OneAnswer`), for any network and requests. The
invariant ties what the kernel was told to its own entry: while the router has it, it is
confirmed if and only if the data were told (`ToldOf`). That no other step confirms it
needs that a get travels only as a request and as data (`NetOfGets`), and that what a
kernel was handed never has the id of a kernel's own request (`GetDebts`).

There are also two theorems on networks without faults (`Intact`: no
connection breaks and no tender expires), of any shape, with any requests and holders:

- `AnswersGoHome` (`NoLoops`).
- `IntactNoAbort` (`NoAbort`), for requests other than find and record (`Plain`). An answer to
  find turns the route of its conversation, and a repeated record is asserted not to
  come; `router_quiet` checks a find.

The invariant `IntactInv` says that a tender stays once it is its own kernel's,
was passed on, or is of a kind that a kernel cannot refuse (`Stays`), and that the peer a
tender came from is connected and has the tender to stay (`Route`). So a new tender
closes no loop, and an answer on its way finds the tender at every node that the route
goes through. It also says what each queue can hold (`QueuesFit`: a request only from a
node that stays with it, a nack only from a node that has nobody else to ask), what the
kernels owe (`DebtsFit`) and that connections stay mutual (`Wired`). TLC checked it on four
small networks before it was proved.

That no tender expires is needed. With early expiry TLC finds, on the network A-B, A-C,
B-C, B-D, where A gets what D holds, that `NoAbort` fails: B passes the get on, forgets it and
takes a late copy from C for a new one. The answer of D then reaches B while its kernel
still has the request, and the assertion in `bypass_tender_response` fails. So
`router_get`, where tenders expire, shows `NoAbort` for its network and its holders only.

`ListProofs` has only lemmas for the other modules: what `Kept` returns of any list
(`KeptElements`), what the front and the rest of a list hold, and what appending, pushing
and popping do to lists without repetitions. `Kept` is a recursive function; the induction
over its argument goes through the least length for which the claim fails (`LeastNat`,
from `WFMin` of `WellFoundedInduction`), because the induction theorems of the library
cannot be used.

`KernelSaveProofs`, from the assumptions of the module on its constants (finitely many
saves, limits of at least 1, ids that differ from each other and from `None`):
`SaveNoAbort`, `SaveUnitsHaveRequests`, `SaveSuccessMeansSaved`, `SaveRouterAccount` and
the action property `SaveFailureDeletesPieces`, for any number of saves and pieces, any
limits and numbers of copies, with writes and tenders that fail at any moment. They have one
hypothesis, `OnlySmallPlainRefused`: the storage refuses for lack of space only saves
that are small and not encrypted. Without it the first of them is false, as `kernel_full` shows
(an encrypted master is treated as a piece) and as the assertion `preq.local` shows for
saves in pieces; the other four are properties of a process that goes on. `KernelSave.cfg`
satisfies it with one save of each kind: stored, sent to peers only, refused.

The invariant `IInv` says of every handler, also in the middle of a chain of calls
(`Good`):

- where a unit is: in one of the two lists, at the storage, at the key manager or at the
  peers, never in two places and in none twice (`OnePlace`), and what its flags and its
  count of copies are there (`FlagsOf`);
- what keeps `m_requests` alive: `backup_units` contains the request while the client
  waits, and a unit while it is in `m_save_units` (`Requests`);
- what is left to do: while a client waits, `request::units` are the units in
  `m_save_units` without a copy, `saved_units` the pieces that have one, and all pieces
  are in one of the two (`UnitsKeptOf`); a master is asked for only when the first set is
  empty (`MasterJobs`), and before its key has come a save is untouched (`Begun`);
- what the counter counts (`Account`), what was told (`Answers`), and what a success, a
  deletion and a garbled unit mean (`Outcome`).

`Below`, which says that a unit with all its copies is gone, does not hold between
the calls of one handler; it is stated for all units but the one being counted. There is a
lemma for each function of the code (`AbandonGood`, `CleanUpGood`, `PreparePiecesGood`...)
that says it takes a good kernel to a good one, and one for each action that composes them.
TLC checked `IInv` as an invariant of the run's instance before it was proved.

`StorageProofs`, from `JobAssumption`, `PlaceAssumption`, `NameAssumption` (jobs and names are
different things, and what a read finds beyond the end of a file is neither) and
`LimitAssumption`, for any jobs of any kinds on finitely many names, any sizes and limits,
however the jobs interleave, and whichever writes the disk refuses:

- `StorageAnswersMatch` (`AnswersMatch`).
- `StorageRegularGet` (`RegularGet`).

The invariant `StorageInv` has two halves. `CoreInv` is enough for the first theorem:

- what a job still has to do is an end of a program of its kind (`Programs`), and a job that
  has answered has nothing left to do (`Answered`);
- the scratch item of a fifo holds the answer of the one thread between `Fill` and `Commit`
  (`Locked`);
- every file was made in one directory under one name, keeps it although `entry` loses or
  replaces it, and holds versions of that name only (`Homes`), and so does what a job has open
  (`HasOpen`) and has read (`DataOfName`). Files are numbers, and nothing in the state says
  where a file that was removed had been; the predicate quantifies over an assignment of files
  to homes, which every step extends or keeps.

`ReadInv` is about the past of a get:

- `met` and `before` say who can still be at work (`Histories`);
- a file is missing, or its reader refused, only if one of the jobs that remove was there
  (`Presence`, `Refusals`);
- as long as no writer was disturbed (`Calm`), a file is empty while its writer is about to
  write, and one version in whole otherwise (`WholeFiles`); what a get has loaded then is whole
  and stays so (`WholeData`);
- when a save or update of a name has truncated the file (`Past`), the older versions
  (`Older`) are in no file with the name, and a later get has neither loaded them nor opened a
  file with them (`Gone`).

TLC checked every part of it on the run's instance before it was proved. Two things in the
module came from that work: the condition on copies in `Overwritten`, and the closure in
`VersionsOf`; chains of copies need more jobs than the run has.

`WebApiProofs`, from `WebAssumption` and `NoneAssumption`, for any number of clients,
requests and chunks, whichever clients listen, leave or come back to an address, and
wherever the application stops:

- `ClientsNeverMixed` (`ClientsAgree`). What makes it inductive is that the ids a handler
  may still insert are new (`IdsFresh`).
- `WebNoAbort` (`NoAbort`): the task uses nothing that is gone and fails no assertion, but
  for the two late messages above; files and failures before an announcement, and streams
  that are read to their end without a late failure, never end the process.
  `WebCleansOnce` (`CleansOnce`): what the kernel is told to clean is announced, cleaned
  once, and waited for by nobody, which `KernelGet` assumes of its clients. The second
  invariant, `WebInv`, follows one request through both threads. The number of the
  kernel's messages that the task has done with (`Handled`) determines the promise and the
  counters of its entry (`Untold` before the first, `Told` after); what is still in the
  queue is the rest of what the kernel said, in order (`Talk`). An entry of a request that
  is on its way can only go when the task has handled an answer or a handler has told the
  kernel to clean it (`Request`, `Told`); an entry whose answer is still to come has a
  handler, so its promise is there (`Untold`). What is left for the task to miss is a
  message of a stream that is cleaned, or a failure after the handler's end (`TaskAt`).
  `m_client_to_request` may hold an id that is not the handler's, but only while the task
  is about to erase it, and then the handler has no answer yet and cannot clean
  (`HandlerAt`). Ids of listeners are never sent. A clean is in the queue of the kernel,
  or done, only for an announced stream whose entry is gone and that no handler waits for
  (`Erased`), and one of the two (`Letters`). What the queue holds of one request is
  `Kept` of it; `ListProofs` says what appending and taking do to that (`KeptAppend`,
  `KeptTail`, `KeptNone`). TLC checked `WebInv` on the run's instance before it was
  proved.

`KernelGetProofs`, from `GetAssumption`, `GetLimits` and `FileAssumption`, for any clients
and objects, sizes and ranges, whichever files disappear, and in whatever order storage, key
manager and router answer. `GetLimits` says that `chunk_count`, a 64-bit number, is not
exceeded by the size of an object.

- `GetNoAbort` (`NoAbort`) and `GetRouterAccount` (`RouterAccount`).
- `GetStreamsInOrder` (`StreamsInOrder`) and `GetRangeServed` (`RangeServed`).
- `KernelKeepsPromise` (`GetService`): every step of the kernel maps to a step of
  `GetService` or changes nothing that clients see. `GetService` states no
  fairness, so this is the whole refinement.

None of the five is inductive. `IInv` says of every handler, also between the calls it is
made of (`Good`):

- what is asked for is asked for once, of one neighbour, and its request is in `m_requests`
  (`OnePlace`). That is why an answer of the key manager finds its request: a master's
  request is erased only with its list, and while the master is under way nobody answers the
  list but the leader itself (`Masters`);
- the lists hold the requests whose clients wait, and these only (`Lists`), so
  `send_ims_response` finds a list that is not empty;
- a piece has one request, of the leader, or of whoever of a stream needed the chunk
  first, which the list of chunks marks (`Pieces`, `Units`);
- what a client was told is `prepare_streaming` and then exactly the chunks from that of its first
  byte to before `streaming_state.curr`, each cut to the range, and perhaps a failure
  (`Told`, `IsStream`). That consecutive chunks follow without a hole is then a fact about the
  numbers (`ChunkEnds`, `PartsFollow`).

The two counts (`Counted`, `Settled`) hold between handlers and not within them: an entry is
taken off before the next piece is let in. `NoAbort`, `StreamsInOrder`, `RangeServed` and the
refinement follow from `IInv`, the last together with the fact that no step takes back what a
client was told (`Grows`). TLC checked `IInv` on the run's instance before it was proved.

`JournalSyncProofs`, from `JournalAssumption` and `NoneAssumption`, for any finite number of
devices, any objects, sync classes, and numbers of changes, connections, crashes and early expiries:

- `SyncNoAbort` (`NoAbort`): none of the assertions on a synchronisation's request fails
  (kernel.cpp:1185, 2111, 2127, 2129, 2145).
- `SyncBlockEnds` (`BlockEnds`).
- `SyncSeenAfter` (the action property `SeenAfterSync`).

The invariant `SyncInv` says:

- a synchronisation, and of it each object that was asked for, is at one place at most: on the
  wire, before the kernel, at the storage, or on the way from backup (`OneToken`). That is why an
  object never comes twice, although `mine` and `req` are erased at different times;
- what is under way suits the state of the request (`Requests`): a start finds none, a list
  of the storage one that has just begun, an object one that awaits it or none;
- answers travel to the device that asked (`Homeward`);
- a synchronisation that has lost its tender is cancelled before its next message is
  handled, and after the cancel comes the end of the blocking unless another one goes on
  (`Cancels`). `BlockEnds` is not inductive without it: an early list would block the kernel
  when the message that ends the blocking has gone by;
- the link knows of every synchronisation that awaits objects (`LinkTold`).

TLC checked `SyncInv` on the run's instance before it was proved.

Only model-checked: liveness, with `EveryGetAnswered`, `EveryRequestAnswered` and their like,
and `ENABLED`, which are beyond the prover; `NoAbort` and `NoLoops` of the router where faults
occur, and `NoAbort` where a find or a record does; and `SyncKeepsNewest` and `SyncDelivers`,
which hold for the two devices of their run and not for all constants. With a third device TLC
finds both violated: its older tombstone, which backup applies without a comparison (above,
*Journals*), reaches the sender after it has announced its version and before it stamps the
object, or the receiver after an object has come and before the last one has.

## Not modelled, and what could come next

- Kernel: copy, delete and share, livestreams, listeners; the user json. They use
  the same tables in the same way as save and get, with less at stake.
- User manager and key manager: versions of the user json, the remote side of `find_peer`
  (kernel.cpp:3578-3597) and the assertions on its ids (kernel.cpp:860-933). A tender that
  expires while the key manager checks an id belongs here.
- Link: handshake, duplicate connections, keep-alive, rating and balancing. `Router` and
  `JournalSync` take from it ordered queues and one report of a broken connection.
- Backup: the expiry of data and of tombstones.
- Proofs: `NoAbort` of the router for a find or a record, from an invariant about the route
  of a conversation.

Not planned: the cryptography, serialization, parsing of HTTP and of configuration
files, mail, the configuration manager's reading and writing of files, the wallet,
which does nothing, the wiring of tasks, the socket reactor, which wraps Poco's; and
the Android and iOS applications, which are user interfaces around copies of these sources.
