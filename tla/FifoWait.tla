------------------------------ MODULE FifoWait ------------------------------
(***************************************************************************)
(* fifo::wait_for_data, the wait on one input by its own event             *)
(* m_available: the thread that waits, and the thread that pushes to the   *)
(* fifo and deactivates it.  The tasks of platform_test wait in this way   *)
(* only; backup waits so for its last messages (wait_for_final_messages),  *)
(* after a life of task::wait, which never touches m_available.            *)
(***************************************************************************)
EXTENDS Naturals

CONSTANT MaxPush  \* bound: the messages pushed

ASSUME MaxPushAssumption == MaxPush \in Nat

VARIABLES
    size,       \* the committed items of m_internal
    available,  \* m_available, an auto-reset event
    m_active,   \* whether the fifo is active
    pushed,     \* how many items were pushed
    rpc,        \* the reader: in its task::wait loop, or inside wait_for_data
    backup      \* the reader is backup, which first consumes through task::wait
                \* and then calls again whatever the call returns; or it is
                \* a loop while (wait(rx))

waitVars == <<size, available, m_active, pushed, rpc, backup>>

WaitInit ==
    /\ size = 0
    /\ available = FALSE
    /\ m_active = TRUE
    /\ pushed = 0
    /\ backup \in BOOLEAN
    /\ rpc = IF backup THEN "loop" ELSE "call"

\* Mutant: a push that does not signal the input's own event.
PushSilently ==
    /\ m_active
    /\ pushed < MaxPush
    /\ size' = size + 1
    /\ pushed' = pushed + 1
    /\ UNCHANGED <<available, m_active, rpc, backup>>

\* fifo::push, under the fifo's mutex.
Push ==
    /\ m_active
    /\ pushed < MaxPush
    /\ size' = size + 1
    /\ pushed' = pushed + 1
    /\ available' = TRUE
    /\ UNCHANGED <<m_active, rpc, backup>>

\* fifo::deactivate, once the writer has finished.
DeactivateFifo ==
    /\ m_active
    /\ m_active' = FALSE
    /\ available' = TRUE
    /\ UNCHANGED <<size, pushed, rpc, backup>>

\* The task::wait loop consumes an item: fifo::pop leaves m_available alone.
LoopConsumes ==
    /\ rpc = "loop"
    /\ size > 0
    /\ size' = size - 1
    /\ UNCHANGED <<available, m_active, pushed, rpc, backup>>

\* The task::wait loop ends because the task was stopped.
LoopEnds ==
    /\ rpc = "loop"
    /\ rpc' = "call"
    /\ UNCHANGED <<size, available, m_active, pushed, backup>>

\* wait_for_data: has_data().
HasData ==
    /\ rpc = "call"
    /\ rpc' = IF size > 0 THEN "reset" ELSE "empty"
    /\ UNCHANGED <<size, available, m_active, pushed, backup>>

\* Mutant: the call returns true and leaves the event as it is.
ResetForgotten ==
    /\ rpc = "reset"
    /\ rpc' = "true"
    /\ UNCHANGED <<size, available, m_active, pushed, backup>>

\* There is data: the event is reset and the call returns true.
Reset ==
    /\ rpc = "reset"
    /\ available' = FALSE
    /\ rpc' = "true"
    /\ UNCHANGED <<size, m_active, pushed, backup>>

\* There is none: an inactive fifo makes the call return false.
IsActive ==
    /\ rpc = "empty"
    /\ rpc' = IF m_active THEN "block" ELSE "false"
    /\ UNCHANGED <<size, available, m_active, pushed, backup>>

\* m_available.wait() returns and resets the event.
EventWakes ==
    /\ rpc = "block"
    /\ available
    /\ available' = FALSE
    /\ rpc' = "woken"
    /\ UNCHANGED <<size, m_active, pushed, backup>>

\* Once woken the call returns is_active().
Return ==
    /\ rpc = "woken"
    /\ rpc' = IF m_active THEN "true" ELSE "false"
    /\ UNCHANGED <<size, available, m_active, pushed, backup>>

\* The caller consumes an item and calls again; only backup looks for one after
\* the call returned false.
Consume ==
    /\ rpc = "true" \/ (backup /\ rpc = "false")
    /\ size > 0
    /\ size' = size - 1
    /\ rpc' = "call"
    /\ UNCHANGED <<available, m_active, pushed, backup>>

\* backup finds no item and calls again.
CallAgain ==
    /\ backup
    /\ rpc \in {"true", "false"}
    /\ size = 0
    /\ rpc' = "call"
    /\ UNCHANGED <<size, available, m_active, pushed, backup>>

WaitReader ==
    \/ LoopConsumes \/ LoopEnds
    \/ HasData \/ Reset \/ IsActive \/ EventWakes \/ Return \/ Consume \/ CallAgain

WaitNext == Push \/ DeactivateFifo \/ WaitReader

\* The reader's thread keeps running; the writer owes nothing.
WaitSpec == WaitInit /\ [][WaitNext]_waitVars /\ WF_waitVars(WaitReader)

-----------------------------------------------------------------------------

\* Every variable has its type.
WaitTypeOK ==
    /\ size \in 0 .. MaxPush
    /\ available \in BOOLEAN
    /\ m_active \in BOOLEAN
    /\ pushed \in 0 .. MaxPush
    /\ backup \in BOOLEAN
    /\ rpc \in {"loop", "call", "reset", "true", "empty", "block", "woken", "false"}

\* fifo.hpp:196, "True indicates that valid data is available in input": the
\* callers in platform_test, which wait in no other way, assert has_data() after
\* wait(rx) returned true. Backup cannot rely on it.
TrueMeansData == ~backup /\ rpc = "true" => size > 0

\* backup::wait_for_final_messages gets every message of user_manager, the last
\* one before the end included, though the events it waits on may be stale and
\* the call may return false while a message is queued.
LastMessageArrives == backup /\ pushed = MaxPush ~> size = 0
=============================================================================
