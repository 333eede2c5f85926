------------------------------ MODULE CspTask ------------------------------
(***************************************************************************)
(* The CSP runtime of src/src/platform: one csp::task that reads several   *)
(* csp::fifo channels with task::wait(), the threads that write to them,   *)
(* the manager that stops it and the timer that wakes it.                  *)
(*                                                                         *)
(* A step of a thread ends where another thread can see a difference:      *)
(* every fifo method holds the fifo's mutex and is one action, every       *)
(* operation on the task's control signal (an auto-reset Poco::Event) is   *)
(* one action, and wait() is cut between the fifos it looks at.            *)
(***************************************************************************)
EXTENDS Naturals, Sequences, FiniteSets

CONSTANTS
    Inputs,        \* the inputs of the task
    Writers,       \* the outputs of other tasks connected to them
    Dest,          \* Dest[w]: the input an output is connected to
    Deactivators,  \* the outputs whose owners deactivate them (finish())
    MaxSend,       \* bound: messages written to one output
    MaxTicks,      \* bound: expirations of the task's timer
    LocksTimer     \* TRUE for a task, like router, whose timer callback and
                   \* expiry handler exclude each other and reset the signal

ASSUME DestAssumption == Dest \in [Writers -> Inputs]
ASSUME DeactivatorsAssumption == Deactivators \subseteq Writers
ASSUME BoundsAssumption == MaxSend \in Nat /\ MaxTicks \in Nat
ASSUME LocksTimerAssumption == LocksTimer \in BOOLEAN

VARIABLES
    queue,      \* queue[i]: the committed items of the fifo (m_internal less its back)
    slot,       \* slot[i]: the scratch item at the back of m_internal
    active,     \* active[i]: m_active of the fifo
    signal,     \* m_signal of the task, shared with its fifos as m_notify
    inputs,     \* m_inputs of the task
    pc,         \* where the task is in its loop and in wait()
    seen,       \* the inputs the current pass has looked at already
    dead,       \* clean_up_list of wait()
    handled,    \* handled[i]: the items the task consumed, oldest first
    wpc,        \* wpc[w]: a writer fills the scratch slot, then commits it
    sent,       \* sent[w]: the number of messages a writer has committed
    cancelled,  \* isCancelled()
    mgr,        \* the manager in cancel_all(), holding its mutex while "wake"
    flag,       \* m_timeout of the task
    tpc,        \* the timer callback between its two statements, or idle
    ticks       \* the number of timer expirations

fifoVars == <<queue, slot, active>>
readerVars == <<inputs, pc, seen, dead, handled>>
writerVars == <<wpc, sent>>
mgrVars == <<cancelled, mgr>>
timerVars == <<flag, tpc, ticks>>
vars == <<queue, slot, active, signal, inputs, pc, seen, dead, handled,
          wpc, sent, cancelled, mgr, flag, tpc, ticks>>

Message == Writers \X (1 .. MaxSend)
NoMessage == <<>>
Item == Message \cup {NoMessage}

Init ==
    /\ queue = [i \in Inputs |-> <<>>]
    /\ slot = [i \in Inputs |-> NoMessage]
    /\ active = [i \in Inputs |-> TRUE]
    /\ signal = FALSE
    /\ inputs = Inputs
    /\ pc = "wait"
    /\ seen = {}
    /\ dead = {}
    /\ handled = [i \in Inputs |-> <<>>]
    /\ wpc = [w \in Writers |-> "fill"]
    /\ sent = [w \in Writers |-> 0]
    /\ cancelled = FALSE
    /\ mgr = "running"
    /\ flag = FALSE
    /\ tpc = "idle"
    /\ ticks = 0

-----------------------------------------------------------------------------
(* The writers: assignments through out.operator*, out.commit() and, at    *)
(* the end, out.deactivate().                                              *)

\* The writer assigns to the scratch item that output::operator* returns.
Fill(w) ==
    /\ wpc[w] = "fill"
    /\ sent[w] < MaxSend
    /\ slot' = [slot EXCEPT ![Dest[w]] = <<w, sent[w] + 1>>]
    /\ wpc' = [wpc EXCEPT ![w] = "commit"]
    /\ UNCHANGED <<queue, active, signal, sent, readerVars, mgrVars, timerVars>>

\* fifo::push: the scratch item becomes the last committed one, a new scratch
\* item is appended, and the reader's signal is set.
Commit(w) ==
    /\ wpc[w] = "commit"
    /\ queue' = [queue EXCEPT ![Dest[w]] = Append(@, slot[Dest[w]])]
    /\ slot' = [slot EXCEPT ![Dest[w]] = NoMessage]
    /\ signal' = TRUE
    /\ sent' = [sent EXCEPT ![w] = @ + 1]
    /\ wpc' = [wpc EXCEPT ![w] = "fill"]
    /\ UNCHANGED <<active, readerVars, mgrVars, timerVars>>

\* fifo::deactivate, called by finish() of the writing task.
Deactivate(w) ==
    /\ w \in Deactivators
    /\ wpc[w] = "fill"
    /\ active' = [active EXCEPT ![Dest[w]] = FALSE]
    /\ signal' = TRUE
    /\ wpc' = [wpc EXCEPT ![w] = "closed"]
    /\ UNCHANGED <<queue, slot, sent, readerVars, mgrVars, timerVars>>

-----------------------------------------------------------------------------
(* manager::cancel_all, which holds the manager's mutex, and the timer.    *)

\* task::stop, first statement: cancel().
StopCancel ==
    /\ mgr = "running"
    /\ cancelled' = TRUE
    /\ mgr' = "wake"
    /\ UNCHANGED <<fifoVars, signal, readerVars, writerVars, timerVars>>

\* Mutant: cancel_all without the wake-up.
StopSilently ==
    /\ mgr = "wake"
    /\ mgr' = "done"
    /\ UNCHANGED <<fifoVars, signal, readerVars, writerVars, cancelled, timerVars>>

\* task::stop, second statement: wake_up(); cancel_all then releases its mutex.
StopWake ==
    /\ mgr = "wake"
    /\ signal' = TRUE
    /\ mgr' = "done"
    /\ UNCHANGED <<fifoVars, readerVars, writerVars, cancelled, timerVars>>

\* on_timer, first statement. The callback of the router locks
\* m_timeout_mutex, which tpc = "wake" stands for.
TimerExpires ==
    /\ tpc = "idle"
    /\ ticks < MaxTicks
    /\ flag' = TRUE
    /\ ticks' = ticks + 1
    /\ tpc' = "wake"
    /\ UNCHANGED <<fifoVars, signal, readerVars, writerVars, mgrVars>>

\* Mutant: a timer callback without the wake-up.
TimerSilent ==
    /\ tpc = "wake"
    /\ tpc' = "idle"
    /\ UNCHANGED <<fifoVars, signal, readerVars, writerVars, mgrVars, flag, ticks>>

\* on_timer, second statement: wake_up().
TimerWakes ==
    /\ tpc = "wake"
    /\ signal' = TRUE
    /\ tpc' = "idle"
    /\ UNCHANGED <<fifoVars, readerVars, writerVars, mgrVars, flag, ticks>>

-----------------------------------------------------------------------------
(* The reader: while (wait()) { one item of every input; the timer }       *)

\* wait() begins: a cancelled task leaves, any other scans its inputs.
WaitBegins ==
    /\ pc = "wait"
    /\ pc' = IF cancelled THEN "leave" ELSE "scan"
    /\ seen' = {}
    /\ UNCHANGED <<fifoVars, signal, inputs, dead, handled, writerVars, mgrVars, timerVars>>

\* A cancelled task clears m_inputs once it has the manager's mutex.
LeaveCancelled ==
    /\ pc = "leave"
    /\ mgr # "wake"
    /\ inputs' = {}
    /\ pc' = "finish"
    /\ UNCHANGED <<fifoVars, signal, seen, dead, handled, writerVars, mgrVars, timerVars>>

\* The scan looks at one more input; the order of m_inputs is unspecified.
Scan(i) ==
    /\ pc = "scan"
    /\ i \in inputs \ seen
    /\ IF queue[i] # <<>>
         THEN pc' = "found" /\ UNCHANGED seen
         ELSE seen' = seen \cup {i} /\ UNCHANGED pc
    /\ UNCHANGED <<fifoVars, signal, inputs, dead, handled, writerVars, mgrVars, timerVars>>

\* wait() resets the signal before it returns true for data it found.
ResetOnData ==
    /\ pc = "found"
    /\ signal' = FALSE
    /\ pc' = "round"
    /\ seen' = {}
    /\ UNCHANGED <<fifoVars, inputs, dead, handled, writerVars, mgrVars, timerVars>>

\* Mutant: the event is reset on the way to sleep instead of on waking up.
ResetThenSleep ==
    /\ pc = "scan"
    /\ seen = inputs
    /\ pc' = IF inputs = {} THEN "finish" ELSE "sleep"
    /\ signal' = FALSE
    /\ UNCHANGED <<fifoVars, inputs, seen, dead, handled, writerVars, mgrVars, timerVars>>

\* No input has data: without inputs wait() returns false, else it sleeps.
ScanEnds ==
    /\ pc = "scan"
    /\ seen = inputs
    /\ pc' = IF inputs = {} THEN "finish" ELSE "sleep"
    /\ UNCHANGED <<fifoVars, signal, inputs, seen, dead, handled, writerVars, mgrVars, timerVars>>

\* m_signal->wait() returns and resets the event.
Wake ==
    /\ pc = "sleep"
    /\ signal
    /\ signal' = FALSE
    /\ pc' = "prune"
    /\ seen' = {}
    /\ dead' = {}
    /\ UNCHANGED <<fifoVars, inputs, handled, writerVars, mgrVars, timerVars>>

\* Mutant: pruning without the has_data() test.
PruneInactive(i) ==
    /\ pc = "prune"
    /\ i \in inputs \ seen
    /\ seen' = seen \cup {i}
    /\ dead' = IF active[i] THEN dead ELSE dead \cup {i}
    /\ UNCHANGED <<fifoVars, signal, inputs, pc, handled, writerVars, mgrVars, timerVars>>

\* After waking, wait() collects the inputs that are inactive and drained.
Prune(i) ==
    /\ pc = "prune"
    /\ i \in inputs \ seen
    /\ seen' = seen \cup {i}
    /\ dead' = IF ~active[i] /\ queue[i] = <<>> THEN dead \cup {i} ELSE dead
    /\ UNCHANGED <<fifoVars, signal, inputs, pc, handled, writerVars, mgrVars, timerVars>>

\* The collected inputs leave m_inputs; if there are none wait() returns true.
PruneEnds ==
    /\ pc = "prune"
    /\ seen = inputs
    /\ inputs' = inputs \ dead
    /\ pc' = IF dead = {} THEN "round" ELSE "pruned"
    /\ seen' = {}
    /\ UNCHANGED <<fifoVars, signal, dead, handled, writerVars, mgrVars, timerVars>>

\* Having pruned, wait() resets the signal and starts again.
ResetAfterPrune ==
    /\ pc = "pruned"
    /\ signal' = FALSE
    /\ pc' = "wait"
    /\ UNCHANGED <<fifoVars, inputs, seen, dead, handled, writerVars, mgrVars, timerVars>>

\* The task handles and consumes at most one item of an input.
Handle(i) ==
    /\ pc = "round"
    /\ i \in Inputs \ seen
    /\ seen' = seen \cup {i}
    /\ IF queue[i] # <<>>
         THEN /\ handled' = [handled EXCEPT ![i] = Append(@, Head(queue[i]))]
              /\ queue' = [queue EXCEPT ![i] = Tail(@)]
         ELSE UNCHANGED <<handled, queue>>
    /\ UNCHANGED <<slot, active, signal, inputs, pc, dead, writerVars, mgrVars, timerVars>>

\* The last statement of a round handles an expired timer; the router does
\* so under m_timeout_mutex and resets the task's signal.
HandleTimer ==
    /\ pc = "round"
    /\ seen = Inputs
    /\ LocksTimer => tpc # "wake"
    /\ flag' = FALSE
    /\ signal' = (signal /\ ~(LocksTimer /\ flag))
    /\ pc' = "wait"
    /\ UNCHANGED <<fifoVars, inputs, seen, dead, handled, writerVars, mgrVars, tpc, ticks>>

\* finish(): m_inputs is empty, so it waits for nothing and ends the task.
Finish ==
    /\ pc = "finish"
    /\ pc' = "done"
    /\ UNCHANGED <<fifoVars, signal, inputs, seen, dead, handled, writerVars, mgrVars, timerVars>>

Reader ==
    \/ WaitBegins \/ LeaveCancelled \/ ResetOnData \/ ScanEnds \/ Wake
    \/ PruneEnds \/ ResetAfterPrune \/ HandleTimer \/ Finish
    \/ \E i \in Inputs : Scan(i) \/ Prune(i) \/ Handle(i)

Writer(w) == Fill(w) \/ Commit(w) \/ Deactivate(w)

Manager == StopCancel \/ StopWake

TimerThread == TimerExpires \/ TimerWakes

Next == Reader \/ (\E w \in Writers : Writer(w)) \/ Manager \/ TimerThread

\* Every thread that has begun a statement sequence continues it; nobody is
\* obliged to send, to stop the task or to let the timer expire.
Spec ==
    /\ Init /\ [][Next]_vars
    /\ WF_vars(Reader)
    /\ WF_vars(StopWake)
    /\ WF_vars(TimerWakes)
    /\ \A w \in Writers : WF_vars(Commit(w))
-----------------------------------------------------------------------------
(* Properties *)

\* Every variable has its type.
TypeOK ==
    /\ queue \in [Inputs -> Seq(Item)]
    /\ slot \in [Inputs -> Item]
    /\ active \in [Inputs -> BOOLEAN]
    /\ signal \in BOOLEAN
    /\ inputs \in SUBSET Inputs
    /\ pc \in {"wait", "leave", "scan", "found", "sleep", "prune", "pruned",
               "round", "finish", "done"}
    /\ seen \in SUBSET Inputs
    /\ dead \in SUBSET Inputs
    /\ handled \in [Inputs -> Seq(Item)]
    /\ wpc \in [Writers -> {"fill", "commit", "closed"}]
    /\ sent \in [Writers -> 0 .. MaxSend]
    /\ cancelled \in BOOLEAN
    /\ mgr \in {"running", "wake", "done"}
    /\ flag \in BOOLEAN
    /\ tpc \in {"idle", "wake"}
    /\ ticks \in 0 .. MaxTicks

\* No wake-up is lost (task::wait, fifo::push, task::stop): a task that sleeps
\* on a signal that is not set has no input with data, and nobody has finished
\* asking it to stop.
NoLostWakeup ==
    pc = "sleep" /\ ~signal =>
        /\ \A i \in inputs : queue[i] = <<>>
        /\ cancelled => mgr = "wake"

\* Every output has an input of its own, as csp::fifo recommends.
OwnChannels == \A w, x \in Writers : Dest[w] = Dest[x] => w = x

\* wait() returns false only to a task that was stopped or that has consumed
\* every message of channels that are all inactive: pruning an input in
\* wait() never leaves a message behind.
EndsDrained ==
    pc \in {"finish", "done"} /\ ~cancelled =>
        \A i \in Inputs : ~active[i] /\ queue[i] = <<>>

\* task.hpp:87-90, finish() lets the application propagate its end: once every
\* input of a task is inactive its loop ends.
FinishPropagates == (\A i \in Inputs : ~active[i]) ~> pc = "done"

\* An expired timer is served: the flag its callback sets is cleared by the
\* task's round (onTimer of router, on_timer of backup and user_manager), unless
\* the task is stopped or one of its inputs has been deactivated, after which it
\* may sleep for ever (FinishPropagates).
TimerServed == flag ~> ~flag \/ cancelled \/ \E i \in Inputs : ~active[i]

\* The task implements the channels its components rely on.
Channels == INSTANCE TaskChannels WITH
    pending <- queue,
    received <- handled,
    open <- {i \in Inputs : active[i]},
    stopping <- cancelled,
    stopped <- pc = "done"

ImplementsChannels == Channels!ChanSpec
=============================================================================
