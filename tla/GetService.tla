----------------------------- MODULE GetService -----------------------------
(***************************************************************************)
(* What the kernel promises a client that asks for an object.  A request   *)
(* is answered with the whole data, with a failure, or, for media, with    *)
(* the number of chunks that will follow (prepare_streaming) and then the  *)
(* chunks one by one; a failure may end the stream at any point, even after *)
(* its last chunk.  Nothing follows the data or a failure.  A stream that   *)
(* the client has had cleaned, whether it had ended or not, is not heard of *)
(* again.                                                                   *)
(*                                                                         *)
(* KernelGet implements this specification; WebApi has it as the kernel    *)
(* its clients talk to.                                                    *)
(***************************************************************************)
EXTENDS Naturals, Sequences

CONSTANTS Get   \* the get requests of clients

VARIABLES
    said,   \* said[g]: the messages for the request, in order
    closed  \* the streams that were cleaned

\* The messages of ims_kernel_package that answer a get.
Data == [cmd |-> "get_data"]
Fail == [cmd |-> "get_fail"]
Chunk == [cmd |-> "chunk"]
Prepare(n) == [cmd |-> "prepare_streaming", count |-> n]

IsPrepare(m) == m.cmd = "prepare_streaming"

Stream(c) ==
    /\ c # <<>> /\ IsPrepare(c[1])
    /\ \A i \in 2 .. Len(c) : \/ c[i] = Chunk /\ i <= c[1].count + 1
                              \/ c[i] = Fail /\ i = Len(c)

Legal(c) == c \in {<<>>, <<Data>>, <<Fail>>} \/ Stream(c)

\* Nothing more has to come.
Complete(c) ==
    \/ c # <<>> /\ c[Len(c)] \in {Data, Fail}
    \/ c # <<>> /\ IsPrepare(c[1]) /\ Len(c) = c[1].count + 1

Init == said = [g \in Get |-> <<>>] /\ closed = {}

\* One step of the kernel may send messages to several clients.
Next ==
    /\ closed \subseteq closed'
    /\ \A g \in Get :
          /\ Len(said'[g]) >= Len(said[g])
          /\ SubSeq(said'[g], 1, Len(said[g])) = said[g]
          /\ Legal(said'[g])
          /\ g \in closed => said'[g] = said[g]

Spec == Init /\ [][Next]_<<said, closed>>
=============================================================================
