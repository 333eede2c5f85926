---------------------------- MODULE JournalSync ----------------------------
(***************************************************************************)
(* The journals of devices (src/src/metax/backup.cpp), the file device.json *)
(* they are kept in, and the synchronisation of two storages that the link  *)
(* of each device starts when they get connected (link.cpp, router.cpp,     *)
(* kernel.cpp, storage.cpp).                                               *)
(*                                                                         *)
(* A journal has the version, the time and a deletion mark of every object. *)
(* The asking device gets lines of the other's journal, compares them with  *)
(* its own, and asks for the objects that are new.  With sync class 1 its   *)
(* link asks for all that changed since it has last seen the peer; with     *)
(* class 0 its kernel asks for the objects of its own storage.              *)
(*                                                                         *)
(* A message of the kernel or of backup reaches the next task in the step   *)
(* that posts it, except where an expiry can come between: before the       *)
(* kernel (toKernel) and between backup and kernel (fromBackup).  Storage   *)
(* works in threads of its own.  Clocks agree, and time passes when         *)
(* somebody changes an object.                                             *)
(***************************************************************************)
EXTENDS Naturals, Sequences, FiniteSets

CONSTANTS
    Device, Uuid,
    SyncClass,      \* SyncClass[d]: storage.sync_class in d's config.xml
    Asking,         \* the synchronisations that are modelled
    Past,           \* the changes made before the devices were started
    MaxNow,         \* bound on the changes
    MaxConnections, \* bound on the connections
    MaxRestarts,    \* bound on the restarts and crashes
    MaxHasty,       \* bound on the tenders that expire while their messages are on the way
    None            \* no entry, no content, no request

ASSUME JournalAssumption ==
    /\ IsFiniteSet(Device) /\ SyncClass \in [Device -> 0 .. 1]
    /\ Asking \subseteq [by : Device, of : Device, n : Nat]
    /\ MaxNow \in Nat /\ Past \in 0 .. MaxNow
    /\ MaxConnections \in Nat /\ MaxRestarts \in Nat /\ MaxHasty \in Nat

VARIABLES
    json,       \* json[d][u]: m_storage_data of backup
    file,       \* what of it is in device.json
    store,      \* store[d][u]: the content in d's storage
    writing,    \* writing[d]: contents on the way to d's storage, None deletes
    noting,     \* noting[d]: changes in the storage that are not in the journal yet
    seen,       \* seen[d, p]: last_seen of p in d's file of ratings
    heard,      \* heard[d, p]: last_received_time
    finished,   \* finished[d, p]: is_sync_finished
    conn,       \* conn[d, p]: the number of their connection, 0 when there is none
    wire,       \* wire[d, p]: messages from d to p
    mine,       \* m_sync_tenders of the asking routers
    theirs,     \* the tenders of the answering ones
    toKernel,   \* toKernel[d]: router_rx of the kernel
    fromBackup, \* fromBackup[d]: backup_rx of the kernel
    req,        \* req[s]: the request of the asking kernel
    blocked,    \* blocked[d]: m_should_block_get_request
    toList,     \* the synchronisations the storage is to list its objects for
    toSend,     \* toSend[d]: objects the storage is to read for a peer
    toStamp,    \* toStamp[d]: what it has read, on the way to backup
    now, connections, restarts, hasty,
    aborted     \* a poco_assert has failed

books == <<json, file, store, writing, noting>>
link == <<seen, heard, finished, conn>>
tenders == <<mine, theirs>>
serving == <<toList, toSend, toStamp>>
bounds == <<now, connections, restarts, hasty>>
vars == <<books, link, wire, tenders, toKernel, fromBackup, req, blocked, serving, bounds,
          aborted>>

Pair == {x \in Device \X Device : x[1] # x[2]}

\* A synchronisation: by one device, of what another one has, on a connection.
Sync == {s \in [by : Device, of : Device, n : 1 .. MaxConnections] : s.by # s.of}

\* A version of an object: data_version and last_updated.
Label == [v : 1 .. MaxNow, t : 1 .. MaxNow]
Entry == [label : Label, deleted : BOOLEAN]

\* get_journal_info_request of an asking kernel: the storage is to list its
\* objects, the peer or backup is asked, or what it wants is on its way.
Wants == UNION {[w -> [had : Entry \cup {None}, line : Label]] : w \in SUBSET Uuid}
Request ==
    [st : {"start"}, since : 0 .. MaxNow] \cup [st : {"asked"}]
    \cup [st : {"getting"}, want : Wants, left : SUBSET Uuid]

ASSUME NoneAssumption == None \notin Request

\* Is there a newer version at the peer (should_get_update)?
Newer(x, y) == x.v > y.v \/ (x.v = y.v /\ x.t > y.t)

\* The devices have been in use: their journals have any of the changes made so
\* far, of which no two were made at one time.
Used(j) ==
    \A d, e \in Device, u, w \in Uuid :
        (j[d][u] # None /\ j[e][w] # None /\ j[d][u].label.t = j[e][w].label.t)
            => u = w /\ j[d][u] = j[e][w]

Init ==
    /\ json \in [Device -> [Uuid -> {None} \cup
                 {e \in Entry : e.label.v <= e.label.t /\ e.label.t <= Past}]]
    /\ Used(json)
    /\ file = json
    /\ store = [d \in Device |-> [u \in Uuid |->
                  IF json[d][u] = None \/ json[d][u].deleted THEN None ELSE json[d][u].label]]
    /\ writing = [d \in Device |-> {}] /\ noting = writing
    /\ seen = [x \in Pair |-> 0] /\ heard = seen
    /\ finished = [x \in Pair |-> TRUE] /\ conn = [x \in Pair |-> 0]
    /\ wire = [x \in Pair |-> <<>>]
    /\ mine = {} /\ theirs = {}
    /\ toKernel = [d \in Device |-> <<>>] /\ fromBackup = toKernel
    /\ req = [s \in Sync |-> None] /\ blocked = [d \in Device |-> FALSE]
    /\ toList = {} /\ toSend = writing /\ toStamp = writing
    /\ now = Past /\ connections = 0 /\ restarts = 0 /\ hasty = 0
    /\ aborted = FALSE

\* What the queue q of d is when its head is handled and the messages ms come.
Handled(q, d, ms) == [q EXCEPT ![d] = Tail(@) \o ms]
Posted(q, d, ms) == [q EXCEPT ![d] = @ \o ms]

-----------------------------------------------------------------------------
(* Changes of objects, and the journal *)

\* A client's change is in the storage before the journal, and the connected
\* peers are told of it.
Change(d, u, deleted) ==
    /\ now < MaxNow
    /\ now' = now + 1
    /\ deleted => store[d][u] # None
    /\ LET known == json[d][u] # None
           label == [v |-> IF known THEN json[d][u].label.v + 1 ELSE 1, t |-> now']
           entry == [label |-> label, deleted |-> deleted]
       IN /\ label \in Label
          /\ store' = [store EXCEPT ![d][u] = IF deleted THEN None ELSE label]
          /\ noting' = [noting EXCEPT ![d] = @ \cup {[u |-> u, entry |-> entry]}]
          /\ wire' = [x \in Pair |->
                        IF x[1] # d \/ conn[x] = 0 THEN wire[x]
                        ELSE Append(wire[x], [kind |-> "change", u |-> u, entry |-> entry])]
    /\ UNCHANGED <<json, file, writing, link, tenders, toKernel, fromBackup, req, blocked,
                   serving, connections, restarts, hasty, aborted>>

\* handle_add_in_device_json, handle_kernel_delete_from_device_json: what is not
\* in the journal is not marked as deleted.
Noted(j, u, entry) ==
    IF entry.deleted /\ j[u] = None THEN j ELSE [j EXCEPT ![u] = entry]

\* The storage has confirmed a change.
Note(d) ==
    \E n \in noting[d] :
        /\ json' = [json EXCEPT ![d] = Noted(@, n.u, n.entry)]
        /\ noting' = [noting EXCEPT ![d] = @ \ {n}]
        /\ UNCHANGED <<file, store, writing, link, wire, tenders, toKernel, fromBackup, req,
                       blocked, serving, bounds, aborted>>

\* A thread of the storage, or storage_writer, gets a content into its file or
\* deletes it.
Write(d) ==
    \E w \in writing[d] :
        /\ store' = [store EXCEPT ![d][w.u] = w.content]
        /\ writing' = [writing EXCEPT ![d] = @ \ {w}]
        /\ UNCHANGED <<json, file, noting, link, wire, tenders, toKernel, fromBackup, req,
                       blocked, serving, bounds, aborted>>

\* save_device_json, when the timer asks for it
Save(d) ==
    /\ file[d] # json[d]
    /\ file' = [file EXCEPT ![d] = json[d]]
    /\ UNCHANGED <<json, store, writing, noting, link, wire, tenders, toKernel, fromBackup,
                   req, blocked, serving, bounds, aborted>>

-----------------------------------------------------------------------------
(* Connections *)

\* update_peer_last_seen of the devices ds, when their connections xs end
LastSeen(ds, xs) ==
    [x \in Pair |-> IF x \in xs /\ x[1] \in ds /\ conn[x] # 0 /\ finished[x]
                    THEN heard[x] ELSE seen[x]]

\* configure_peer_by_device_id of both: either link asks the peer for its
\* journal (post_send_journal_info_from_last_seen), or its router the kernel to
\* begin (post_kernel_start_storage_sync).
Connect(d, p) ==
    /\ conn[<<d, p>>] = 0 /\ connections < MaxConnections
    /\ connections' = connections + 1
    /\ LET both == {<<d, p>>, <<p, d>>}
           s(x) == [by |-> x[1], of |-> x[2], n |-> connections']
           asks(x) == s(x) \in Asking /\ SyncClass[x[1]] = 1
           starts(x) == s(x) \in Asking /\ SyncClass[x[1]] = 0
       IN /\ conn' = [x \in Pair |-> IF x \in both THEN connections' ELSE conn[x]]
          /\ heard' = [x \in Pair |-> IF x \in both THEN now ELSE heard[x]]
          /\ finished' = [x \in Pair |-> IF x \in both THEN TRUE ELSE finished[x]]
          /\ wire' = [x \in Pair |->
                        IF x \in both /\ asks(x)
                        THEN <<[kind |-> "ask", s |-> s(x), uuids |-> Uuid, since |-> seen[x]]>>
                        ELSE wire[x]]
          /\ mine' = mine \cup {s(x) : x \in {y \in both : starts(y)}}
          /\ toKernel' = [e \in Device |-> toKernel[e] \o
                LET x == IF e = d THEN <<d, p>> ELSE <<p, d>>
                IN IF e \in {d, p} /\ starts(x)
                   THEN <<[kind |-> "start", s |-> s(x), since |-> seen[x]]>> ELSE <<>>]
    /\ UNCHANGED <<books, seen, theirs, fromBackup, req, blocked, serving, now, restarts,
                   hasty, aborted>>

\* The connection breaks, or is closed; both links remove the peer.
Disconnect(d, p) ==
    /\ conn[<<d, p>>] # 0
    /\ LET both == {<<d, p>>, <<p, d>>}
       IN /\ seen' = LastSeen(Device, both)
          /\ conn' = [x \in Pair |-> IF x \in both THEN 0 ELSE conn[x]]
          /\ wire' = [x \in Pair |-> IF x \in both THEN <<>> ELSE wire[x]]
    /\ UNCHANGED <<books, heard, finished, tenders, toKernel, fromBackup, req, blocked,
                   serving, bounds, aborted>>

\* A device stops, and saves the journal and when it has seen its peers, or it
\* crashes; and it starts again.  A crash may come while the link overwrites
\* the file of ratings: then it has not seen anybody.
Restart(d, clean) ==
    /\ restarts < MaxRestarts
    /\ restarts' = restarts + 1
    /\ json' = [json EXCEPT ![d] = IF clean THEN @ ELSE file[d]]
    /\ file' = [file EXCEPT ![d] = json'[d]]
    /\ writing' = [writing EXCEPT ![d] = {}] /\ noting' = [noting EXCEPT ![d] = {}]
    /\ LET its == {x \in Pair : d \in {x[1], x[2]}}
           last == LastSeen(IF clean THEN Device ELSE Device \ {d}, its)
       IN /\ \/ seen' = last
             \/ ~ clean /\ seen' = [x \in Pair |-> IF x[1] = d THEN 0 ELSE last[x]]
          /\ conn' = [x \in Pair |-> IF x \in its THEN 0 ELSE conn[x]]
          /\ wire' = [x \in Pair |-> IF x \in its THEN <<>> ELSE wire[x]]
    /\ mine' = {s \in mine : s.by # d} /\ theirs' = {s \in theirs : s.of # d}
    /\ toKernel' = [toKernel EXCEPT ![d] = <<>>]
    /\ fromBackup' = [fromBackup EXCEPT ![d] = <<>>]
    /\ req' = [s \in Sync |-> IF s.by = d THEN None ELSE req[s]]
    /\ blocked' = [blocked EXCEPT ![d] = FALSE]
    /\ toList' = {s \in toList : s.by # d}
    /\ toSend' = [toSend EXCEPT ![d] = {}] /\ toStamp' = [toStamp EXCEPT ![d] = {}]
    /\ UNCHANGED <<store, heard, finished, now, connections, hasty, aborted>>

-----------------------------------------------------------------------------
(* Links and routers *)

\* What a router sends for a tender reaches the peer on the connection that the
\* tender came with, or nobody.
Sent(from, to, s, m) ==
    IF conn[<<from, to>>] = s.n THEN [wire EXCEPT ![<<from, to>>] = Append(@, m)] ELSE wire

\* handle_link_data: does the kernel get the message?
Passes(m) ==
    \/ m.kind \in {"ask", "list", "change"}
    \/ m.kind = "want" /\ m.s \in theirs
    \/ m.kind = "data" /\ m.s \in mine

Receive(p, d) ==
    /\ wire[<<p, d>>] # <<>>
    /\ LET m == Head(wire[<<p, d>>])
       IN /\ wire' = [wire EXCEPT ![<<p, d>>] = Tail(@)]
          /\ heard' = [heard EXCEPT ![<<d, p>>] = now]
          /\ theirs' = CASE m.kind = "ask" -> theirs \cup {m.s}
                         [] m.kind = "done" -> theirs \ {m.s}
                         [] OTHER -> theirs
          /\ mine' = IF m.kind = "list" THEN mine \cup {m.s} ELSE mine
          /\ toKernel' = IF Passes(m) THEN Posted(toKernel, d, <<m>>) ELSE toKernel
    /\ UNCHANGED <<books, seen, finished, conn, fromBackup, req, blocked, serving, bounds,
                   aborted>>

\* clean_up_sync_tender_info: the kernel is told when no synchronisation is left.
CleanUp(s) ==
    /\ mine' = mine \ {s}
    /\ finished' = IF conn[<<s.by, s.of>>] = s.n
                   THEN [finished EXCEPT ![<<s.by, s.of>>] = TRUE] ELSE finished

\* Mutant: asks whether there is no other before it erases its own.
LastOfNone(s) == IF {r \in mine : r.by = s.by} = {} THEN <<[kind |-> "finished"]>> ELSE <<>>

LastOf(s) ==
    IF {r \in mine : r.by = s.by} = {s} THEN <<[kind |-> "finished"]>> ELSE <<>>

\* Is a message of this synchronisation on the way?
Moving(s) ==
    \/ \E x \in Pair : \E k \in DOMAIN wire[x] :
          wire[x][k].kind # "change" /\ wire[x][k].s = s
    \/ \E d \in Device : \E k \in DOMAIN toKernel[d] :
          toKernel[d][k].kind \notin {"change", "finished"} /\ toKernel[d][k].s = s
    \/ \E d \in Device : \E k \in DOMAIN fromBackup[d] : fromBackup[d][k].s = s
    \/ \E d \in Device : \E x \in toSend[d] \cup toStamp[d] : x.s = s
    \/ s \in toList

\* A tender that is not used for some time expires.
Expires(s) ==
    \/ ~ Moving(s) /\ UNCHANGED hasty
    \/ Moving(s) /\ hasty < MaxHasty /\ hasty' = hasty + 1

\* handle_expired_sync_tender
Expire(s) ==
    /\ s \in mine
    /\ Expires(s)
    /\ CleanUp(s)
    /\ toKernel' = Posted(toKernel, s.by, <<[kind |-> "cancel", s |-> s]>> \o LastOf(s))
    /\ UNCHANGED <<books, seen, heard, conn, wire, theirs, fromBackup, req, blocked, serving,
                   now, connections, restarts, aborted>>

\* The answering kernel knows no request of this tender.
ExpireTheirs(s) ==
    /\ s \in theirs
    /\ Expires(s)
    /\ theirs' = theirs \ {s}
    /\ UNCHANGED <<books, link, wire, mine, toKernel, fromBackup, req, blocked, serving,
                   now, connections, restarts, aborted>>

-----------------------------------------------------------------------------
(* Kernels, backups and storages *)

\* handle_router_start_storage_sync
KernelStart(d, m) ==
    /\ aborted' = (req[m.s] # None)
    /\ req' = [req EXCEPT ![m.s] = [st |-> "start", since |-> m.since]]
    /\ toList' = toList \cup {m.s}
    /\ toKernel' = Handled(toKernel, d, <<>>)
    /\ UNCHANGED <<books, link, wire, tenders, fromBackup, blocked, toSend, toStamp, bounds>>

\* send_uuids_for_sync_process of the storage, handle_storage_start_sync of the
\* kernel and handle_sync_data_transfer of the router
StorageLists(s) ==
    /\ s \in toList
    /\ toList' = toList \ {s}
    /\ aborted' = (req[s] = None)
    /\ req' = [req EXCEPT ![s] = None]
    /\ wire' = IF aborted' \/ s \notin mine THEN wire
               ELSE Sent(s.by, s.of, s, [kind |-> "ask", s |-> s, since |-> req[s].since,
                                        uuids |-> {u \in Uuid : store[s.by][u] # None}])
    /\ UNCHANGED <<books, link, tenders, toKernel, fromBackup, blocked, toSend, toStamp, bounds>>

\* construct_journal_info_line, for what has changed since
Lines(d, uuids, since) ==
    {[u |-> u, entry |-> json[d][u]] :
        u \in {v \in uuids : json[d][v] # None /\ json[d][v].label.t > since}}

\* handle_kernel_send_journal_info
KernelAsk(d, m) ==
    /\ toKernel' = Handled(toKernel, d, <<>>)
    /\ wire' = IF m.s \notin theirs THEN wire
               ELSE Sent(d, m.s.by, m.s, [kind |-> "list", s |-> m.s,
                                         lines |-> Lines(d, m.uuids, m.since)])
    /\ UNCHANGED <<books, link, tenders, fromBackup, req, blocked, serving, bounds, aborted>>

\* Mutant: what is not known by its version is asked for, be it older.
WantedOther(d, l) ==
    /\ ~ l.entry.deleted
    /\ IF json[d][l.u] = None THEN SyncClass[d] = 1 ELSE l.entry.label # json[d][l.u].label

\* should_get_update, and the objects this device does not know
Wanted(d, l) ==
    /\ ~ l.entry.deleted
    /\ IF json[d][l.u] = None THEN SyncClass[d] = 1
       ELSE Newer(l.entry.label, json[d][l.u].label)

\* What handle_kernel_sync_finished sends and cleans up, if the tender is there
Finish(s, d, rest) ==
    IF s \in mine
    THEN /\ CleanUp(s)
         /\ wire' = Sent(d, s.of, s, [kind |-> "done", s |-> s])
         /\ toKernel' = [toKernel EXCEPT ![d] = rest \o LastOf(s)]
    ELSE /\ UNCHANGED <<mine, finished, wire>>
         /\ toKernel' = [toKernel EXCEPT ![d] = rest]

\* What is asked for, with the entry the journal had and the version of the line
\* (the code keeps the names only)
Awaited(d, lines, want) ==
    [u \in want |-> [had |-> json[d][u], line |-> (CHOOSE l \in lines : l.u = u).entry.label]]

\* handle_kernel_get_journal_info marks what the peer has deleted, whatever its
\* version, and tells the storage; and finds what to ask for.
KernelList(d, m) ==
    LET gone == {l \in m.lines : l.entry.deleted}
        want == {l.u : l \in {k \in m.lines : Wanted(d, k)}}
    IN \/ /\ m.lines = {}
          /\ Finish(m.s, d, Tail(toKernel[d]))
          /\ UNCHANGED <<books, seen, heard, conn, theirs, fromBackup, req, blocked, serving,
                         bounds, aborted>>
       \/ /\ m.lines # {}
          /\ toKernel' = Handled(toKernel, d, <<>>)
          /\ req' = [req EXCEPT ![m.s] = [st |-> "asked"]]
          /\ json' = [json EXCEPT ![d] = [u \in Uuid |->
                        IF json[d][u] # None /\ \E l \in gone : l.u = u
                        THEN (CHOOSE l \in gone : l.u = u).entry ELSE json[d][u]]]
          /\ writing' = [writing EXCEPT ![d] = @ \cup {[u |-> l.u, content |-> None] : l \in gone}]
          /\ fromBackup' = Posted(fromBackup, d,
                             <<[s |-> m.s, want |-> Awaited(d, m.lines, want)]>>)
          /\ UNCHANGED <<file, store, noting, link, wire, tenders, blocked, serving, bounds,
                         aborted>>

\* Mutant: the link is not told.
NotStarted(s) == finished

\* post_sync_started_request_to_link_peer, when the objects are asked for
Started(s) ==
    IF s \in mine /\ conn[<<s.by, s.of>>] = s.n
    THEN [finished EXCEPT ![<<s.by, s.of>>] = FALSE] ELSE finished

\* handle_backup_send_uuids: a request that has nothing to ask for stays.
KernelWants(d) ==
    /\ fromBackup[d] # <<>>
    /\ fromBackup' = Handled(fromBackup, d, <<>>)
    /\ LET s == Head(fromBackup[d]).s
           want == Head(fromBackup[d]).want
       IN IF req[s] = None
          THEN UNCHANGED <<req, blocked, finished, mine, wire, toKernel>>
          ELSE /\ req' = [req EXCEPT ![s] = [st |-> "getting", want |-> want,
                                             left |-> DOMAIN want]]
               /\ IF DOMAIN want = {}
                  THEN Finish(s, d, toKernel[d]) /\ UNCHANGED blocked
                  ELSE /\ blocked' = [blocked EXCEPT ![d] = TRUE]
                       /\ finished' = Started(s)
                       /\ wire' = IF s \notin mine THEN wire
                                  ELSE Sent(d, s.of, s, [kind |-> "want", s |-> s,
                                                        uuids |-> DOMAIN want])
                       /\ UNCHANGED <<mine, toKernel>>
    /\ UNCHANGED <<books, seen, heard, conn, theirs, serving, bounds, aborted>>

\* handle_router_send_uuids_request
KernelWant(d, m) ==
    /\ toKernel' = Handled(toKernel, d, <<>>)
    /\ toSend' = [toSend EXCEPT ![d] = @ \cup {[s |-> m.s, u |-> u] : u \in m.uuids}]
    /\ UNCHANGED <<books, link, wire, tenders, fromBackup, req, blocked, toList, toStamp,
                   bounds, aborted>>

\* send_uuids of the storage: what is not there is left out.
StorageReads(d) ==
    \E x \in toSend[d] :
        /\ toSend' = [toSend EXCEPT ![d] = @ \ {x}]
        /\ toStamp' = IF store[d][x.u] = None THEN toStamp
                      ELSE [toStamp EXCEPT ![d] = @ \cup
                              {[s |-> x.s, u |-> x.u, content |-> store[d][x.u]]}]
        /\ UNCHANGED <<books, link, wire, tenders, toKernel, fromBackup, req, blocked, toList,
                       bounds, aborted>>

\* Mutant: the version is that of device.json.
BackupStampsSaved(d) ==
    \E x \in toStamp[d] :
        /\ toStamp' = [toStamp EXCEPT ![d] = @ \ {x}]
        /\ wire' = IF file[d][x.u] = None \/ x.s \notin theirs THEN wire
                   ELSE Sent(d, x.s.by, x.s, [kind |-> "data", s |-> x.s, u |-> x.u,
                                             label |-> file[d][x.u].label, content |-> x.content])
        /\ UNCHANGED <<books, link, tenders, toKernel, fromBackup, req, blocked, toList, toSend,
                       bounds, aborted>>

\* handle_storage_get_uuid of backup adds the version the journal has now.
BackupStamps(d) ==
    \E x \in toStamp[d] :
        /\ toStamp' = [toStamp EXCEPT ![d] = @ \ {x}]
        /\ wire' = IF json[d][x.u] = None \/ x.s \notin theirs THEN wire
                   ELSE Sent(d, x.s.by, x.s, [kind |-> "data", s |-> x.s, u |-> x.u,
                                             label |-> json[d][x.u].label, content |-> x.content])
        /\ UNCHANGED <<books, link, tenders, toKernel, fromBackup, req, blocked, toList, toSend,
                       bounds, aborted>>

\* handle_router_get_uuid
KernelData(d, m) ==
    LET r == req[m.s]
        awaited == r # None /\ r.st = "getting" /\ m.u \in r.left
        left == r.left \ {m.u}
    IN \/ /\ ~ awaited
          /\ aborted' = (r # None)
          /\ toKernel' = Handled(toKernel, d, <<>>)
          /\ UNCHANGED <<books, link, wire, tenders, fromBackup, req, blocked, serving, bounds>>
       \/ /\ awaited
          /\ writing' = [writing EXCEPT ![d] = @ \cup {[u |-> m.u, content |-> m.content]}]
          /\ json' = [json EXCEPT ![d][m.u] = [label |-> m.label, deleted |-> FALSE]]
          /\ IF left = {}
             THEN req' = [req EXCEPT ![m.s] = None] /\ Finish(m.s, d, Tail(toKernel[d]))
             ELSE /\ req' = [req EXCEPT ![m.s].left = left]
                  /\ toKernel' = Handled(toKernel, d, <<>>)
                  /\ UNCHANGED <<mine, finished, wire>>
          /\ UNCHANGED <<file, store, noting, seen, heard, conn, theirs, fromBackup, blocked,
                         serving, bounds, aborted>>

\* Mutant: the request that waits for the storage's list is erased, too.
KernelCancelAny(d, m) ==
    /\ req' = [req EXCEPT ![m.s] = None]
    /\ toKernel' = Handled(toKernel, d, <<>>)
    /\ UNCHANGED <<books, link, wire, tenders, fromBackup, blocked, serving, bounds, aborted>>

\* handle_router_cancel: of these requests only get_journal_info is erased
\* (handle_failed_sync_request).
KernelCancel(d, m) ==
    /\ req' = IF req[m.s] # None /\ req[m.s].st # "start" THEN [req EXCEPT ![m.s] = None] ELSE req
    /\ toKernel' = Handled(toKernel, d, <<>>)
    /\ UNCHANGED <<books, link, wire, tenders, fromBackup, blocked, serving, bounds, aborted>>

\* handle_router_sync_finished_request
KernelFinished(d) ==
    /\ blocked' = [blocked EXCEPT ![d] = FALSE]
    /\ toKernel' = Handled(toKernel, d, <<>>)
    /\ UNCHANGED <<books, link, wire, tenders, fromBackup, req, serving, bounds, aborted>>

\* handle_router_update_request and handle_router_delete_request: the journal
\* is ahead of the thread that writes or deletes.
KernelChange(d, m) ==
    LET here == store[d][m.u] # None
        w == [u |-> m.u, content |-> IF m.entry.deleted THEN None ELSE m.entry.label]
    IN /\ json' = IF here THEN [json EXCEPT ![d] = Noted(@, m.u, m.entry)] ELSE json
       /\ writing' = IF here \/ m.entry.deleted THEN [writing EXCEPT ![d] = @ \cup {w}] ELSE writing
       /\ toKernel' = Handled(toKernel, d, <<>>)
       /\ UNCHANGED <<file, store, noting, link, wire, tenders, fromBackup, req, blocked,
                      serving, bounds, aborted>>

KernelHandles(d) ==
    /\ toKernel[d] # <<>>
    /\ LET m == Head(toKernel[d])
       IN \/ m.kind = "start" /\ KernelStart(d, m)
          \/ m.kind = "ask" /\ KernelAsk(d, m)
          \/ m.kind = "list" /\ KernelList(d, m)
          \/ m.kind = "want" /\ KernelWant(d, m)
          \/ m.kind = "data" /\ KernelData(d, m)
          \/ m.kind = "cancel" /\ KernelCancel(d, m)
          \/ m.kind = "finished" /\ KernelFinished(d)
          \/ m.kind = "change" /\ KernelChange(d, m)

Work ==
    \/ \E d \in Device : \/ KernelHandles(d) \/ KernelWants(d) \/ StorageReads(d)
                         \/ BackupStamps(d) \/ Note(d) \/ Write(d)
    \/ \E x \in Pair : Receive(x[1], x[2])
    \/ \E s \in Sync : StorageLists(s) \/ Expire(s) \/ ExpireTheirs(s)

Next ==
    \/ Work
    \/ \E d \in Device : \/ Save(d) \/ \E clean \in BOOLEAN : Restart(d, clean)
                         \/ \E u \in Uuid, deleted \in BOOLEAN : Change(d, u, deleted)
    \/ \E x \in Pair : Connect(x[1], x[2]) \/ Disconnect(x[1], x[2])

\* Tasks, threads and timers go on.  Nobody has to change an object, to connect
\* or disconnect, and no device has to stop.
Spec == Init /\ [][Next]_vars /\ WF_vars(Work)

-----------------------------------------------------------------------------
(* Correctness *)

Message ==
    [kind : {"ask"}, s : Sync, uuids : SUBSET Uuid, since : 0 .. MaxNow]
    \cup [kind : {"start"}, s : Sync, since : 0 .. MaxNow]
    \cup [kind : {"list"}, s : Sync, lines : SUBSET [u : Uuid, entry : Entry]]
    \cup [kind : {"want"}, s : Sync, uuids : SUBSET Uuid]
    \cup [kind : {"data"}, s : Sync, u : Uuid, label : Label, content : Label]
    \cup [kind : {"done", "cancel"}, s : Sync] \cup [kind : {"finished"}]
    \cup [kind : {"change"}, u : Uuid, entry : Entry]

\* Type invariant: the journal, the file, and what is on the way between tasks
\* and devices (kernel_router_package, kernel_backup_package) have their types,
\* and a synchronisation is open only between the two devices it belongs to.
TypeOK ==
    /\ json \in [Device -> [Uuid -> Entry \cup {None}]]
    /\ file \in [Device -> [Uuid -> Entry \cup {None}]]
    /\ store \in [Device -> [Uuid -> Label \cup {None}]]
    /\ writing \in [Device -> SUBSET [u : Uuid, content : Label \cup {None}]]
    /\ noting \in [Device -> SUBSET [u : Uuid, entry : Entry]]
    /\ seen \in [Pair -> 0 .. MaxNow] /\ heard \in [Pair -> 0 .. MaxNow]
    /\ finished \in [Pair -> BOOLEAN] /\ conn \in [Pair -> 0 .. MaxConnections]
    /\ \A x \in Pair : conn[x] = conn[<<x[2], x[1]>>]
    /\ wire \in [Pair -> Seq(Message)] /\ toKernel \in [Device -> Seq(Message)]
    /\ fromBackup \in [Device -> Seq([s : Sync, want : Wants])]
    /\ req \in [Sync -> Request \cup {None}]
    /\ mine \subseteq Sync /\ theirs \subseteq Sync /\ toList \subseteq Sync
    /\ toSend \in [Device -> SUBSET [s : Sync, u : Uuid]]
    /\ toStamp \in [Device -> SUBSET [s : Sync, u : Uuid, content : Label]]
    /\ now \in 0 .. MaxNow /\ connections \in 0 .. MaxConnections
    /\ restarts \in 0 .. MaxRestarts /\ hasty \in 0 .. MaxHasty
    /\ blocked \in [Device -> BOOLEAN] /\ aborted \in BOOLEAN

\* The types hold, and no assertion of the kernel about the request of a
\* synchronisation fails: it is new when the router starts it (kernel.cpp:2145),
\* the storage's list finds it (kernel.cpp:1185), and an object that comes is one
\* that is still awaited (kernel.cpp:2111, 2127 and 2129), though tenders expire,
\* connections break and devices restart meanwhile.
NoAbort == TypeOK /\ ~ aborted

\* A kernel that answers no get because of a synchronisation (kernel.cpp:2065,
\* m_should_block_get_request) has one that still goes on, or is about to be told
\* that none does: an object that never comes, an expiry or a lost connection
\* does not block its clients for ever.
BlockEnds ==
    \A d \in Device : blocked[d] =>
        \/ \E s \in mine : s.by = d
        \/ \E k \in DOMAIN toKernel[d] : toKernel[d][k].kind = "finished"

\* An object comes in for a synchronisation.
Comes(s, u) ==
    /\ req[s] # None /\ req[s].st = "getting" /\ u \in req[s].left
    /\ restarts' = restarts
    /\ req'[s] = None => s \notin mine'
    /\ req'[s] # None => u \notin req'[s].left

\* A synchronisation brings no object back to an older version: what comes is not
\* older than what this device's journal had when it compared, unless the entry
\* has changed since (should_get_update, handle_router_get_uuid, which does not
\* compare again).
SyncKeepsNewest ==
    [][\A s \in Sync, u \in Uuid :
         LET had == req[s].want[u].had
         IN (Comes(s, u) /\ had # None /\ json[s.by][u] = had)
                => ~ Newer(had.label, json'[s.by][u].label)]_vars

\* A synchronisation that ends without an expiry has brought each object it asked
\* for in at least the version the peer's journal announced, unless the peer has
\* itself lost that version meanwhile (by an older tombstone or a crash).
SyncDelivers ==
    [][\A s \in Sync, u \in Uuid :
         LET r == req[s]
         IN (s \in mine /\ s \notin mine' /\ r # None /\ r.st = "getting" /\ req'[s] = None
               /\ restarts' = restarts /\ u \in DOMAIN r.want)
            => \/ ~ Newer(r.want[u].line, json'[s.by][u].label)
               \/ json[s.of][u] = None \/ Newer(r.want[u].line, json[s.of][u].label)]_vars

\* While objects that were asked for are still to come, the time a peer was last
\* seen does not go on (update_peer_last_seen): after a break the next
\* synchronisation asks for them again.
SeenAfterSync ==
    [][\A s \in Sync :
         LET x == <<s.by, s.of>>
         IN (seen'[x] > seen[x] /\ conn[x] = s.n /\ s \in mine /\ req[s] # None)
               => req[s].st # "getting" \/ req[s].left = {}]_vars
=============================================================================
