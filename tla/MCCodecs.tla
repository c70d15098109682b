------------------------------ MODULE MCCodecs ------------------------------
(***************************************************************************)
(* Codecs for TLC.  Stream frames: one without payload, and payloads whose *)
(* words read as a length or as a negative number when taken for a header. *)
(* BLE: bytes of six values, so that two hold up to 35 and three up to     *)
(* 215, and lengths, chunk sizes and arguments around those limits.        *)
(***************************************************************************)
EXTENDS Codecs

MCFrames ==
  {[opcode |-> 0, payload |-> << >>],
   [opcode |-> 1, payload |-> <<1>>],
   [opcode |-> 3, payload |-> <<2, 5>>]}

MCLengths == {0, 1, 34, 35, 36, 37, 50, 215, 216, 217, 260}

MCChunkSizes == {0, 7, 35, 36, 37, 50}

MCArguments == {0, 5, 6, 215, 216, 1295, 1300}
=============================================================================
