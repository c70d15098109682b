----------------------------- MODULE MCPrinter ------------------------------
(***************************************************************************)
(* Printer for TLC: two jobs on one channel; the printer may send any of   *)
(* the frames below at any time.                                           *)
(***************************************************************************)
EXTENDS Printer

MCImageLen == [j \in Jobs |-> 2]

JobSymmetry == Permutations(Jobs)

StateFrame(state, detail, payload) ==
  [opcode |-> Notification.PRINT_STATE, arg1 |-> state, arg2 |-> 0,
   arg3 |-> detail, payload |-> payload]

OpcodeFrame(op, payload) ==
  [opcode |-> op, arg1 |-> 0, arg2 |-> 0, arg3 |-> 0, payload |-> payload]

(* One frame of every reading the code distinguishes: a request inside the *)
(* image, and a device information block whose first word a job reads as   *)
(* an offset past its end.                                                 *)
MCPrinterFrames ==
  {OpcodeFrame(Notification.HEARTBEAT, <<>>),
   OpcodeFrame(Notification.JOB_COMPLETE, <<>>),
   OpcodeFrame(Notification.DEVICE_INFO, <<2, 0>>),
   StateFrame(PrintState.READY, 0, <<>>),
   StateFrame(PrintState.REQUEST_DATA, 0, <<1>>),
   StateFrame(PrintState.REQUEST_DATA, 4, <<>>),
   StateFrame(PrintState.MEDIA_INFO, 1, <<0, 104>>),
   StateFrame(PrintState.FINISHED, 0, <<>>)}
=============================================================================
