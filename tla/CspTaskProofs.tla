--------------------------- MODULE CspTaskProofs ---------------------------
(***************************************************************************)
(* Proofs about CspTask and FifoWait, for any number of inputs, writers    *)
(* and messages.                                                           *)
(***************************************************************************)
EXTENDS CspTask, FifoWait, TLAPS

-----------------------------------------------------------------------------
(* The inductive invariant. *)

\* What a pass of wait() has looked at belongs to m_inputs.
PassOK ==
    /\ pc \in {"scan", "prune"} => seen \subseteq inputs
    /\ pc = "sleep" => seen = inputs
    /\ pc = "prune" => dead \subseteq inputs

\* While the task scans or sleeps on a clear signal, the inputs it passed over
\* are still empty, and a cancellation is still to be followed by its wake-up.
QuietOK ==
    pc \in {"scan", "sleep"} /\ ~signal =>
        /\ \A i \in seen : queue[i] = <<>>
        /\ cancelled => mgr = "wake"

\* Only a cancelled task leaves through the manager's mutex.
LeaveOK == pc = "leave" => cancelled

\* A writer begins a message only below the bound.
BoundOK == \A w \in Writers : wpc[w] = "commit" => sent[w] < MaxSend

SafeInv == TypeOK /\ PassOK /\ QuietOK /\ LeaveOK /\ BoundOK

-----------------------------------------------------------------------------
(* Types and wake-ups. *)

LEMMA NoMessageIsItem == NoMessage \in Item
BY DEF Item

LEMMA NextMessageIsItem ==
    ASSUME NEW w \in Writers, NEW n \in 0 .. MaxSend, n < MaxSend
    PROVE  <<w, n + 1>> \in Item
<1>1. n + 1 \in 1 .. MaxSend
  BY BoundsAssumption
<1> QED
  BY <1>1 DEF Item, Message

LEMMA InitSafe == Init => SafeInv
<1> SUFFICES ASSUME Init PROVE SafeInv
  OBVIOUS
<1>1. <<>> \in Seq(Item)
  OBVIOUS
<1>2. /\ queue \in [Inputs -> Seq(Item)]
      /\ handled \in [Inputs -> Seq(Item)]
  BY <1>1, Zenon DEF Init
<1>3. slot \in [Inputs -> Item]
  BY NoMessageIsItem DEF Init
<1>4. /\ active \in [Inputs -> BOOLEAN]
      /\ wpc \in [Writers -> {"fill", "commit", "closed"}]
      /\ sent \in [Writers -> 0 .. MaxSend]
      /\ ticks \in 0 .. MaxTicks
  BY BoundsAssumption DEF Init
<1>5. TypeOK
  BY <1>2, <1>3, <1>4, Zenon DEF Init, TypeOK
<1> QED
  BY <1>5 DEF Init, SafeInv, PassOK, QuietOK, LeaveOK, BoundOK

\* The writers' steps keep the types and the bound.
LEMMA WriterType ==
    ASSUME TypeOK, BoundOK, NEW w \in Writers, Writer(w)
    PROVE  TypeOK' /\ BoundOK'
<1> USE DestAssumption, BoundsAssumption
<1>1. CASE Fill(w)
  <2>1. <<w, sent[w] + 1>> \in Item
    BY <1>1, NextMessageIsItem DEF TypeOK, Fill
  <2> QED
    BY <1>1, <2>1 DEF TypeOK, BoundOK, Fill, readerVars, mgrVars, timerVars
<1>2. CASE Commit(w)
  <2>1. sent[w] < MaxSend
    BY <1>2 DEF BoundOK, Commit
  <2> QED
    BY <1>2, <2>1, NoMessageIsItem
       DEF TypeOK, BoundOK, Commit, readerVars, mgrVars, timerVars
<1>3. CASE Deactivate(w)
  BY <1>3 DEF TypeOK, BoundOK, Deactivate, readerVars, mgrVars, timerVars
<1> QED
  BY <1>1, <1>2, <1>3 DEF Writer

\* The steps that touch no fifo keep the types.
LEMMA ManagerType ==
    ASSUME TypeOK, BoundOK, Manager \/ TimerThread
    PROVE  TypeOK' /\ BoundOK'
<1>1. CASE StopCancel
  BY <1>1 DEF TypeOK, BoundOK, StopCancel, fifoVars, readerVars, writerVars, timerVars
<1>2. CASE StopWake
  BY <1>2 DEF TypeOK, BoundOK, StopWake, fifoVars, readerVars, writerVars, timerVars
<1>3. CASE TimerExpires
  BY <1>3, BoundsAssumption
     DEF TypeOK, BoundOK, TimerExpires, fifoVars, readerVars, writerVars, mgrVars
<1>4. CASE TimerWakes
  BY <1>4 DEF TypeOK, BoundOK, TimerWakes, fifoVars, readerVars, writerVars, mgrVars
<1> QED
  BY <1>1, <1>2, <1>3, <1>4 DEF Manager, TimerThread

\* Consuming an item moves it from the channel to what was handled.
LEMMA HandleType ==
    ASSUME TypeOK, BoundOK, NEW i \in Inputs, Handle(i)
    PROVE  TypeOK' /\ BoundOK'
<1>1. CASE queue[i] = <<>>
  BY <1>1 DEF TypeOK, BoundOK, Handle, writerVars, mgrVars, timerVars
<1>2. CASE queue[i] # <<>>
  <2>1. /\ Head(queue[i]) \in Item
        /\ Tail(queue[i]) \in Seq(Item)
    BY <1>2 DEF TypeOK
  <2>2. Append(handled[i], Head(queue[i])) \in Seq(Item)
    BY <2>1 DEF TypeOK
  <2> QED
    BY <1>2, <2>1, <2>2 DEF TypeOK, BoundOK, Handle, writerVars, mgrVars, timerVars
<1> QED
  BY <1>1, <1>2

\* The reader's steps keep the types.
LEMMA ReaderType ==
    ASSUME TypeOK, BoundOK, Reader
    PROVE  TypeOK' /\ BoundOK'
<1> USE DEF TypeOK, BoundOK, fifoVars, writerVars, mgrVars, timerVars
<1>1. CASE WaitBegins
  BY <1>1 DEF WaitBegins
<1>2. CASE LeaveCancelled
  BY <1>2 DEF LeaveCancelled
<1>3. CASE ResetOnData
  BY <1>3 DEF ResetOnData
<1>4. CASE ScanEnds
  BY <1>4 DEF ScanEnds
<1>5. CASE Wake
  BY <1>5 DEF Wake
<1>6. CASE PruneEnds
  BY <1>6 DEF PruneEnds
<1>7. CASE ResetAfterPrune
  BY <1>7 DEF ResetAfterPrune
<1>8. CASE HandleTimer
  BY <1>8 DEF HandleTimer
<1>9. CASE Finish
  BY <1>9 DEF Finish
<1>10. ASSUME NEW i \in Inputs, Scan(i) PROVE TypeOK' /\ BoundOK'
  BY <1>10 DEF Scan
<1>11. ASSUME NEW i \in Inputs, Prune(i) PROVE TypeOK' /\ BoundOK'
  BY <1>11 DEF Prune
<1>12. ASSUME NEW i \in Inputs, Handle(i) PROVE TypeOK' /\ BoundOK'
  BY <1>12, HandleType
<1> QED
  BY <1>1, <1>2, <1>3, <1>4, <1>5, <1>6, <1>7, <1>8, <1>9, <1>10, <1>11, <1>12
     DEF Reader

LEMMA TypeStep ==
    ASSUME TypeOK, BoundOK, [Next]_vars
    PROVE  TypeOK' /\ BoundOK'
<1>1. CASE UNCHANGED vars
  BY <1>1 DEF vars, TypeOK, BoundOK
<1> QED
  BY <1>1, ReaderType, WriterType, ManagerType DEF Next

\* A writer that commits or deactivates sets the signal; filling the scratch
\* item changes nothing the reader looks at.
LEMMA WriterQuiet ==
    ASSUME TypeOK, PassOK, QuietOK, LeaveOK, NEW w \in Writers, Writer(w)
    PROVE  PassOK' /\ QuietOK' /\ LeaveOK'
<1> USE DEF PassOK, QuietOK, LeaveOK, readerVars, mgrVars
<1>1. CASE Fill(w)
  BY <1>1 DEF Fill
<1>2. CASE Commit(w)
  BY <1>2 DEF Commit
<1>3. CASE Deactivate(w)
  BY <1>3 DEF Deactivate
<1> QED
  BY <1>1, <1>2, <1>3 DEF Writer

\* A stop request is pending until its wake-up; the timer only sets the signal.
LEMMA ManagerQuiet ==
    ASSUME TypeOK, PassOK, QuietOK, LeaveOK, Manager \/ TimerThread
    PROVE  PassOK' /\ QuietOK' /\ LeaveOK'
<1> USE DEF PassOK, QuietOK, LeaveOK, fifoVars, readerVars, mgrVars
<1>1. CASE StopCancel
  BY <1>1 DEF StopCancel
<1>2. CASE StopWake
  BY <1>2 DEF StopWake
<1>3. CASE TimerExpires
  BY <1>3 DEF TimerExpires
<1>4. CASE TimerWakes
  BY <1>4 DEF TimerWakes
<1> QED
  BY <1>1, <1>2, <1>3, <1>4 DEF Manager, TimerThread

\* Every path of the reader that clears the signal scans again before it sleeps.
LEMMA ReaderQuiet ==
    ASSUME TypeOK, PassOK, QuietOK, LeaveOK, Reader
    PROVE  PassOK' /\ QuietOK' /\ LeaveOK'
<1> USE DEF TypeOK, PassOK, QuietOK, LeaveOK, fifoVars, mgrVars
<1>1. CASE WaitBegins
  BY <1>1 DEF WaitBegins
<1>2. CASE LeaveCancelled
  BY <1>2 DEF LeaveCancelled
<1>3. CASE ResetOnData
  BY <1>3 DEF ResetOnData
<1>4. CASE ScanEnds
  BY <1>4 DEF ScanEnds
<1>5. CASE Wake
  BY <1>5 DEF Wake
<1>6. CASE PruneEnds
  BY <1>6 DEF PruneEnds
<1>7. CASE ResetAfterPrune
  BY <1>7 DEF ResetAfterPrune
<1>8. CASE HandleTimer
  BY <1>8 DEF HandleTimer
<1>9. CASE Finish
  BY <1>9 DEF Finish
<1>10. ASSUME NEW i \in Inputs, Scan(i) PROVE PassOK' /\ QuietOK' /\ LeaveOK'
  BY <1>10 DEF Scan
<1>11. ASSUME NEW i \in Inputs, Prune(i) PROVE PassOK' /\ QuietOK' /\ LeaveOK'
  BY <1>11 DEF Prune
<1>12. ASSUME NEW i \in Inputs, Handle(i) PROVE PassOK' /\ QuietOK' /\ LeaveOK'
  BY <1>12 DEF Handle
<1> QED
  BY <1>1, <1>2, <1>3, <1>4, <1>5, <1>6, <1>7, <1>8, <1>9, <1>10, <1>11, <1>12
     DEF Reader

LEMMA SafeStep == SafeInv /\ [Next]_vars => SafeInv'
<1> SUFFICES ASSUME SafeInv, [Next]_vars PROVE SafeInv'
  OBVIOUS
<1> USE DEF SafeInv
<1>1. TypeOK' /\ BoundOK'
  BY TypeStep
<1>2. CASE UNCHANGED vars
  BY <1>1, <1>2 DEF vars, PassOK, QuietOK, LeaveOK
<1>3. CASE Next
  BY <1>1, <1>3, ReaderQuiet, WriterQuiet, ManagerQuiet DEF Next
<1> QED
  BY <1>2, <1>3

\* The types of CspTask are invariant for any inputs, writers and bounds.
THEOREM TypeCorrect == Spec => []TypeOK
<1>1. SafeInv => TypeOK
  BY DEF SafeInv
<1> QED
  BY InitSafe, SafeStep, <1>1, PTL DEF Spec

\* No wake-up is ever lost by task::wait, however many inputs the task has,
\* however many threads write to one of them, and whatever signals are reset.
THEOREM NeverLosesWakeup == Spec => []NoLostWakeup
<1>1. SafeInv => NoLostWakeup
  BY DEF SafeInv, PassOK, QuietOK, NoLostWakeup
<1> QED
  BY InitSafe, SafeStep, <1>1, PTL DEF Spec

-----------------------------------------------------------------------------
(* Channels of one writer each: nothing is left behind, and the task        *)
(* implements TaskChannels.                                                 *)

\* A writer that may still commit has an active channel, and the scratch item
\* it has filled is the one it will commit.
WriterOK ==
    \A w \in Writers :
        /\ wpc[w] # "closed" => active[Dest[w]]
        /\ wpc[w] = "commit" => slot[Dest[w]] = <<w, sent[w] + 1>>

\* What wait() has pruned, or is about to prune, is inactive and drained.
Gone(i) == ~active[i] /\ queue[i] = <<>>

PrunedOK ==
    /\ ~cancelled => \A i \in Inputs \ inputs : Gone(i)
    /\ pc = "prune" => \A i \in dead : Gone(i)
    /\ pc \in {"finish", "done"} /\ ~cancelled => inputs = {}

ChannelInv == SafeInv /\ WriterOK /\ PrunedOK

LEMMA InitChannel == Init => ChannelInv
BY InitSafe, DestAssumption DEF ChannelInv, Init, WriterOK, PrunedOK

LEMMA WriterChannel ==
    ASSUME OwnChannels, TypeOK, WriterOK, PrunedOK, NEW w \in Writers, Writer(w)
    PROVE  WriterOK' /\ PrunedOK'
<1> USE DestAssumption DEF OwnChannels, TypeOK, readerVars, mgrVars
<1>1. CASE Fill(w)
  <2>1. WriterOK'
    BY <1>1 DEF Fill, WriterOK
  <2>2. PrunedOK'
    BY <1>1 DEF Fill, PrunedOK, Gone
  <2> QED
    BY <2>1, <2>2
<1>2. CASE Commit(w)
  <2>1. WriterOK'
    BY <1>2 DEF Commit, WriterOK
  <2>2. active[Dest[w]]
    BY <1>2 DEF Commit, WriterOK
  <2>3. \A i \in Inputs : Gone(i) => Gone(i)'
    BY <1>2, <2>2 DEF Commit, Gone
  <2>4. PrunedOK'
    BY <1>2, <2>3 DEF Commit, PrunedOK
  <2> QED
    BY <2>1, <2>4
<1>3. CASE Deactivate(w)
  <2>1. WriterOK'
    BY <1>3 DEF Deactivate, WriterOK
  <2>2. \A i \in Inputs : Gone(i) => Gone(i)'
    BY <1>3 DEF Deactivate, Gone
  <2>3. PrunedOK'
    BY <1>3, <2>2 DEF Deactivate, PrunedOK
  <2> QED
    BY <2>1, <2>3
<1> QED
  BY <1>1, <1>2, <1>3 DEF Writer

LEMMA ManagerChannel ==
    ASSUME WriterOK, PrunedOK, Manager \/ TimerThread
    PROVE  WriterOK' /\ PrunedOK'
<1> USE DEF WriterOK, PrunedOK, Gone, fifoVars, readerVars, writerVars, mgrVars
<1>1. CASE StopCancel
  BY <1>1 DEF StopCancel
<1>2. CASE StopWake
  BY <1>2 DEF StopWake
<1>3. CASE TimerExpires
  BY <1>3 DEF TimerExpires
<1>4. CASE TimerWakes
  BY <1>4 DEF TimerWakes
<1> QED
  BY <1>1, <1>2, <1>3, <1>4 DEF Manager, TimerThread

LEMMA ReaderChannel ==
    ASSUME TypeOK, PassOK, LeaveOK, WriterOK, PrunedOK, Reader
    PROVE  WriterOK' /\ PrunedOK'
<1> USE DEF TypeOK, PassOK, LeaveOK, WriterOK, PrunedOK, Gone, fifoVars,
            writerVars, mgrVars
<1>1. CASE WaitBegins
  BY <1>1 DEF WaitBegins
<1>2. CASE LeaveCancelled
  BY <1>2 DEF LeaveCancelled
<1>3. CASE ResetOnData
  BY <1>3 DEF ResetOnData
<1>4. CASE ScanEnds
  BY <1>4 DEF ScanEnds
<1>5. CASE Wake
  BY <1>5 DEF Wake
<1>6. CASE PruneEnds
  BY <1>6 DEF PruneEnds
<1>7. CASE ResetAfterPrune
  BY <1>7 DEF ResetAfterPrune
<1>8. CASE HandleTimer
  BY <1>8 DEF HandleTimer
<1>9. CASE Finish
  BY <1>9 DEF Finish
<1>10. ASSUME NEW i \in Inputs, Scan(i) PROVE WriterOK' /\ PrunedOK'
  BY <1>10 DEF Scan
<1>11. ASSUME NEW i \in Inputs, Prune(i) PROVE WriterOK' /\ PrunedOK'
  BY <1>11 DEF Prune
<1>12. ASSUME NEW i \in Inputs, Handle(i) PROVE WriterOK' /\ PrunedOK'
  BY <1>12 DEF Handle
<1> QED
  BY <1>1, <1>2, <1>3, <1>4, <1>5, <1>6, <1>7, <1>8, <1>9, <1>10, <1>11, <1>12
     DEF Reader

LEMMA ChannelStep ==
    ASSUME OwnChannels
    PROVE  ChannelInv /\ [Next]_vars => ChannelInv'
<1> SUFFICES ASSUME ChannelInv, [Next]_vars PROVE ChannelInv'
  OBVIOUS
<1>1. SafeInv'
  BY SafeStep DEF ChannelInv
<1>2. CASE UNCHANGED vars
  BY <1>1, <1>2 DEF vars, ChannelInv, WriterOK, PrunedOK, Gone
<1>3. CASE Next
  BY <1>1, <1>3, ReaderChannel, WriterChannel, ManagerChannel
     DEF Next, ChannelInv, SafeInv
<1> QED
  BY <1>2, <1>3

\* When every output has an input of its own, a task whose loop ends without
\* being stopped leaves no message behind in any of its channels.
THEOREM LeavesNothingBehind ==
    ASSUME OwnChannels
    PROVE  Spec => []EndsDrained
<1>1. ChannelInv => EndsDrained
  BY DEF ChannelInv, PrunedOK, Gone, EndsDrained
<1>2. ChannelInv /\ [Next]_vars => ChannelInv'
  BY ChannelStep
<1> QED
  BY InitChannel, <1>1, <1>2, PTL DEF Spec

-----------------------------------------------------------------------------
(* The refinement: the safety part of Channels!ChanSpec. *)

LEMMA InitMaps == Init => Channels!ChanInit
BY DEF Init, Channels!ChanInit

LEMMA WriterMaps ==
    ASSUME TypeOK, WriterOK, NEW w \in Writers, Writer(w)
    PROVE  [Channels!ChanNext]_(Channels!chanVars)
<1> USE DestAssumption DEF TypeOK, readerVars, mgrVars
<1>1. CASE Fill(w)
  BY <1>1 DEF Fill, Channels!chanVars
<1>2. CASE Commit(w)
  <2>1. Channels!Send(w)
    BY <1>2 DEF Commit, WriterOK, Channels!Send
  <2> QED
    BY <2>1 DEF Channels!ChanNext
<1>3. CASE Deactivate(w)
  <2>1. Channels!Close(Dest[w])
    BY <1>3 DEF Deactivate, Channels!Close
  <2> QED
    BY <2>1 DEF Channels!ChanNext
<1> QED
  BY <1>1, <1>2, <1>3 DEF Writer

LEMMA ManagerMaps ==
    ASSUME TypeOK, Manager \/ TimerThread
    PROVE  [Channels!ChanNext]_(Channels!chanVars)
<1> USE DEF fifoVars, readerVars, writerVars, mgrVars
<1>1. CASE StopCancel
  BY <1>1 DEF StopCancel, Channels!RequestStop, Channels!ChanNext
<1>2. CASE StopWake
  BY <1>2 DEF StopWake, Channels!chanVars
<1>3. CASE TimerExpires
  BY <1>3 DEF TimerExpires, Channels!chanVars
<1>4. CASE TimerWakes
  BY <1>4 DEF TimerWakes, Channels!chanVars
<1> QED
  BY <1>1, <1>2, <1>3, <1>4 DEF Manager, TimerThread

\* Only Handle and Finish are visible: a receipt and the end of the task.
LEMMA ReaderMaps ==
    ASSUME TypeOK, PrunedOK, Reader
    PROVE  [Channels!ChanNext]_(Channels!chanVars)
<1> USE DEF TypeOK, fifoVars, writerVars, mgrVars, Channels!chanVars
<1>1. CASE WaitBegins
  BY <1>1 DEF WaitBegins
<1>2. CASE LeaveCancelled
  BY <1>2 DEF LeaveCancelled
<1>3. CASE ResetOnData
  BY <1>3 DEF ResetOnData
<1>4. CASE ScanEnds
  BY <1>4 DEF ScanEnds
<1>5. CASE Wake
  BY <1>5 DEF Wake
<1>6. CASE PruneEnds
  BY <1>6 DEF PruneEnds
<1>7. CASE ResetAfterPrune
  BY <1>7 DEF ResetAfterPrune
<1>8. CASE HandleTimer
  BY <1>8 DEF HandleTimer
<1>9. CASE Finish
  <2>1. cancelled \/ Channels!Drained
    BY <1>9 DEF Finish, PrunedOK, Gone, Channels!Drained
  <2>2. Channels!Stop
    BY <1>9, <2>1 DEF Finish, Channels!Stop
  <2> QED
    BY <2>2 DEF Channels!ChanNext
<1>10. ASSUME NEW i \in Inputs, Scan(i)
       PROVE  [Channels!ChanNext]_(Channels!chanVars)
  BY <1>10 DEF Scan
<1>11. ASSUME NEW i \in Inputs, Prune(i)
       PROVE  [Channels!ChanNext]_(Channels!chanVars)
  BY <1>11 DEF Prune
<1>12. ASSUME NEW i \in Inputs, Handle(i)
       PROVE  [Channels!ChanNext]_(Channels!chanVars)
  <2>1. CASE queue[i] = <<>>
    BY <1>12, <2>1 DEF Handle
  <2>2. CASE queue[i] # <<>>
    <3>1. Channels!Receive(i)
      BY <1>12, <2>2 DEF Handle, Channels!Receive
    <3> QED
      BY <3>1 DEF Channels!ChanNext
  <2> QED
    BY <2>1, <2>2
<1> QED
  BY <1>1, <1>2, <1>3, <1>4, <1>5, <1>6, <1>7, <1>8, <1>9, <1>10, <1>11, <1>12
     DEF Reader

\* When every output has an input of its own, the fifos, the shared signal and
\* the loop of task::wait implement ordered lossless channels whose reader ends
\* only when it is stopped or they are closed and drained.
THEOREM ImplementsChannelsSafely ==
    ASSUME OwnChannels
    PROVE  Spec => Channels!ChanSafety
<1>1. ChannelInv /\ [Next]_vars => [Channels!ChanNext]_(Channels!chanVars)
  <2> SUFFICES ASSUME ChannelInv, [Next]_vars
               PROVE  [Channels!ChanNext]_(Channels!chanVars)
    OBVIOUS
  <2>1. CASE UNCHANGED vars
    BY <2>1 DEF vars, Channels!chanVars
  <2>2. CASE Next
    BY <2>2, ReaderMaps, WriterMaps, ManagerMaps DEF Next, ChannelInv, SafeInv
  <2> QED
    BY <2>1, <2>2
<1>2. ChannelInv /\ [Next]_vars => ChannelInv'
  BY ChannelStep
<1> QED
  BY InitMaps, InitChannel, <1>1, <1>2, PTL DEF Spec, Channels!ChanSafety

-----------------------------------------------------------------------------
(* The wait on one input by its own event *)

\* No item is consumed that was not pushed.
CountOK == size <= pushed

\* A caller that waits in no other way never finds the event set by an item that
\* is gone: before the wait the event means an item; once the call has found or
\* been told of one, a set event means another one.
EventOK ==
    ~ backup =>
        /\ rpc # "loop"
        /\ rpc \in {"call", "empty", "block"} /\ available /\ m_active => size > 0
        /\ rpc \in {"woken", "true"} /\ available /\ m_active => size > 1
        /\ rpc = "reset" => size > 0
        /\ rpc = "woken" /\ m_active => size > 0
        /\ rpc = "true" => size > 0

WaitInv == WaitTypeOK /\ CountOK /\ EventOK

LEMMA InitWait == WaitInit => WaitInv
<1> SUFFICES ASSUME WaitInit PROVE WaitInv
  OBVIOUS
<1>1. rpc = "loop" \/ (~ backup /\ rpc = "call")
  BY Zenon DEF WaitInit
<1>2. WaitTypeOK
  <2>1. size \in 0 .. MaxPush /\ pushed \in 0 .. MaxPush
    BY MaxPushAssumption DEF WaitInit
  <2>2. available \in BOOLEAN /\ m_active \in BOOLEAN /\ backup \in BOOLEAN
    BY Zenon DEF WaitInit
  <2> QED
    BY <1>1, <2>1, <2>2, Zenon DEF WaitTypeOK
<1>3. CountOK
  BY DEF WaitInit, CountOK
<1>4. EventOK
  <2>1. backup \/ rpc = "call"
    BY Zenon DEF WaitInit
  <2>2. ~ available
    BY Zenon DEF WaitInit
  <2> QED
    BY <2>1, <2>2 DEF EventOK
<1> QED
  BY <1>2, <1>3, <1>4 DEF WaitInv

LEMMA WriterKeepsWait ==
    ASSUME WaitInv, Push \/ DeactivateFifo
    PROVE  WaitInv'
<1> USE MaxPushAssumption DEF WaitInv, WaitTypeOK, CountOK, EventOK
<1>1. CASE Push
  BY <1>1 DEF Push
<1>2. CASE DeactivateFifo
  BY <1>2 DEF DeactivateFifo
<1> QED
  BY <1>1, <1>2

LEMMA ReaderKeepsWait ==
    ASSUME WaitInv, WaitReader
    PROVE  WaitInv'
<1> USE MaxPushAssumption DEF WaitInv, WaitTypeOK, CountOK, EventOK
<1>1. CASE LoopConsumes
  BY <1>1 DEF LoopConsumes
<1>2. CASE LoopEnds
  BY <1>2 DEF LoopEnds
<1>3. CASE HasData
  BY <1>3 DEF HasData
<1>4. CASE Reset
  BY <1>4 DEF Reset
<1>5. CASE IsActive
  BY <1>5 DEF IsActive
<1>6. CASE EventWakes
  BY <1>6 DEF EventWakes
<1>7. CASE Return
  BY <1>7 DEF Return
<1>8. CASE Consume
  BY <1>8 DEF Consume
<1>9. CASE CallAgain
  BY <1>9 DEF CallAgain
<1> QED
  BY <1>1, <1>2, <1>3, <1>4, <1>5, <1>6, <1>7, <1>8, <1>9 DEF WaitReader

LEMMA NextKeepsWait == WaitInv /\ [WaitNext]_waitVars => WaitInv'
<1> SUFFICES ASSUME WaitInv, [WaitNext]_waitVars PROVE WaitInv'
  OBVIOUS
<1>1. CASE Push \/ DeactivateFifo
  BY <1>1, WriterKeepsWait
<1>2. CASE WaitReader
  BY <1>2, ReaderKeepsWait
<1>3. CASE UNCHANGED waitVars
  BY <1>3 DEF waitVars, WaitInv, WaitTypeOK, CountOK, EventOK
<1> QED
  BY <1>1, <1>2, <1>3 DEF WaitNext

LEMMA AlwaysWait == WaitSpec => []WaitInv
BY InitWait, NextKeepsWait, PTL DEF WaitSpec

\* The types of a fifo and its two threads hold for any number of messages.
THEOREM WaitTypeCorrect == WaitSpec => []WaitTypeOK
<1>1. WaitInv => WaitTypeOK
  BY DEF WaitInv
<1> QED
  BY <1>1, AlwaysWait, PTL

\* wait(rx) returns true to a task that waits in no other way only when there is
\* an item (fifo.hpp:196), whatever is pushed and whenever the fifo is deactivated.
THEOREM TrueAlwaysMeansData == WaitSpec => []TrueMeansData
<1>1. WaitInv => TrueMeansData
  BY DEF WaitInv, EventOK, TrueMeansData
<1> QED
  BY <1>1, AlwaysWait, PTL
=============================================================================
