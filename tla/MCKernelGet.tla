---------------------------- MODULE MCKernelGet ----------------------------
(***************************************************************************)
(* A small instance of KernelGet: an encrypted file, a video and a piece   *)
(* of music that fits into its master.                                     *)
(***************************************************************************)
EXTENDS KernelGet, TLC

CONSTANTS g1, g2, file, video, song

MCSize == file :> 3 @@ video :> 4 @@ song :> 2
MCPlaced == {{}, File, {f \in File : f[2] = -1}, File \ {<<file, 1>>, <<video, 0>>}}
MCRanges == {<<-1, -1>>, <<0, 2>>, <<2, -1>>, <<3, 1>>, <<1, 2>>}
=============================================================================
