---------------------------- MODULE MCKernelSave ----------------------------
(* Instances of KernelSave for TLC. *)
EXTENDS KernelSave, TLC

CONSTANTS a, b, c

\* a is stored here and copied to peers, b only sent to peers, both in pieces
\* and encrypted; c is small and plain.
MCPieces == a :> 2 @@ b :> 2 @@ c :> 0
MCLocal == a :> TRUE @@ b :> FALSE @@ c :> TRUE
MCEnc == a :> "new" @@ b :> "kept" @@ c :> "none"

\* One small save with the defaults: encrypted and stored here.
SmallPieces == a :> 0
SmallLocal == a :> TRUE
SmallEnc == a :> "new"
=============================================================================
