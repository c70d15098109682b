--------------------------- MODULE MCPrintSystem ----------------------------
(***************************************************************************)
(* PrintSystem for TLC.                                                    *)
(***************************************************************************)
EXTENDS PrintSystemInvariant

MCImageLen == [j \in Jobs |-> 3]

MCEmptyImage == [j \in Jobs |-> 0]

JobSymmetry == Permutations(Jobs)

MCPrinterFrames ==
  {NeedsAck, ReadyFrame, MediaInfo, FinishedFrame, FaultFrame, Heartbeat,
   InfoBlock, TearDown} \cup {RequestFrame(n) : n \in 0 .. 3}
=============================================================================
