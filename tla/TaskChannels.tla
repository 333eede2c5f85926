---------------------------- MODULE TaskChannels ----------------------------
(***************************************************************************)
(* What the CSP runtime promises to the components of Metax: a task reads  *)
(* unbounded, ordered, lossless channels, several sources may write to     *)
(* one, and the task ends when it is stopped or when all its channels are  *)
(* closed and drained (comments of csp::fifo and csp::task).               *)
(***************************************************************************)
EXTENDS Naturals, Sequences

CONSTANTS Inputs, Writers, Dest

VARIABLES
    pending,   \* pending[i]: what was sent to an input and not received yet
    received,  \* received[i]: what the task received from an input
    sent,      \* sent[w]: how many messages a writer has sent
    open,      \* the inputs that still accept messages
    stopping,  \* the task was asked to stop
    stopped    \* the task has ended

chanVars == <<pending, received, sent, open, stopping, stopped>>

ChanInit ==
    /\ pending = [i \in Inputs |-> <<>>]
    /\ received = [i \in Inputs |-> <<>>]
    /\ sent = [w \in Writers |-> 0]
    /\ open = Inputs
    /\ stopping = FALSE
    /\ stopped = FALSE

\* A writer numbers its messages; its next one joins the end of its channel.
Send(w) ==
    /\ Dest[w] \in open
    /\ sent' = [sent EXCEPT ![w] = @ + 1]
    /\ pending' = [pending EXCEPT ![Dest[w]] = Append(@, <<w, sent[w] + 1>>)]
    /\ UNCHANGED <<received, open, stopping, stopped>>

Close(i) ==
    /\ open' = open \ {i}
    /\ UNCHANGED <<pending, received, sent, stopping, stopped>>

Receive(i) ==
    /\ ~stopped
    /\ pending[i] # <<>>
    /\ received' = [received EXCEPT ![i] = Append(@, Head(pending[i]))]
    /\ pending' = [pending EXCEPT ![i] = Tail(@)]
    /\ UNCHANGED <<sent, open, stopping, stopped>>

RequestStop ==
    /\ stopping' = TRUE
    /\ UNCHANGED <<pending, received, sent, open, stopped>>

Drained == open = {} /\ \A i \in Inputs : pending[i] = <<>>

Stop ==
    /\ stopping \/ Drained
    /\ stopped' = TRUE
    /\ UNCHANGED <<pending, received, sent, open, stopping>>

ChanNext ==
    \/ \E w \in Writers : Send(w)
    \/ \E i \in Inputs : Close(i) \/ Receive(i)
    \/ RequestStop
    \/ Stop

ChanSafety == ChanInit /\ [][ChanNext]_chanVars

\* A message that was sent is received and a stop is obeyed. That a drained
\* task ends by itself is no part of this promise: see FinishPropagates.
ChanSpec ==
    /\ ChanSafety
    /\ \A i \in Inputs : WF_chanVars(Receive(i))
    /\ WF_chanVars(stopping /\ Stop)
=============================================================================
