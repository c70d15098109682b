---------------------------- MODULE PrintSession ----------------------------
(***************************************************************************)
(* PrintSession (src/protocol/session.ts): the transport-agnostic state    *)
(* machine of one print job.  It is a pure function of the session and one *)
(* frame, so the module has operators and no variables: HandleFrame gives  *)
(* the next session and the action the caller must take.                   *)
(***************************************************************************)
EXTENDS PrintProtocol

CONSTANTS
  MaxChunk,       \* maxChunkSize; at least the image length means unlimited
  ProtocolLevel,  \* protocolLevel of the peer
  Copies,         \* copies, placed in the legacy job start frame
  JobId           \* jobId, placed in the modern job start frame

ASSUME SessionAssumption ==
  /\ MaxChunk \in Nat \ {0}
  /\ ProtocolLevel \in Nat
  /\ Copies \in Nat
  /\ JobId \in Nat

(* bytesSent, finished and whether failure is set.                         *)
Session == [bytesSent: Nat, finished: BOOLEAN, failed: BOOLEAN]

NewSession == [bytesSent |-> 0, finished |-> FALSE, failed |-> FALSE]

(* What the session asks of its caller.  A throw is an action here, since  *)
(* the caller catches it around the call.                                  *)
SendAction(frame) == [type |-> "send", frame |-> frame, final |-> FALSE]
FinalAction(frame) == [type |-> "send", frame |-> frame, final |-> TRUE]
DoneAction == [type |-> "done"]
WaitAction == [type |-> "wait"]
ThrowAction == [type |-> "throw"]

Action ==
  [type: {"send"}, frame: HostFrame, final: BOOLEAN]
    \cup [type: {"done", "wait", "throw"}]

Result(s, action) == [session |-> s, action |-> action]

UsesModernOpcodes == ProtocolLevel > MODERN_PROTOCOL_LEVEL

StartFrame ==
  HostFrameOf(Command.SESSION_START, 1, SESSION_PROTOCOL_REVISION, <<>>)

HeartbeatEcho == HostFrameOf(Command.HEARTBEAT, 1, 0, <<>>)

EndJobFrame == HostFrameOf(Command.END_JOB, 0, 0, <<>>)

StatusPollFrame == HostFrameOf(Command.STATUS_POLL, 0, 0, <<>>)

-----------------------------------------------------------------------------
(* Each definition below that ends in a slip (the *Slip operators) is the  *)
(* code's definition with one plausible mistake; the properties of the     *)
(* runs must notice it.                                                    *)

(* The arguments of the frame are not cut to a byte.                       *)
JobStartSlip(len) == HostFrameOf(Command.PRINT_START_LEGACY, Copies, 0, <<len>>)

(* buildJobStart; encodeFrame keeps the low byte of each argument.         *)
JobStart(len) ==
  IF UsesModernOpcodes
  THEN HostFrameOf(Command.PRINT_START, (JobId \div 256) % 256, JobId % 256,
                   <<len, JobId>>)
  ELSE HostFrameOf(Command.PRINT_START_LEGACY, Copies % 256, 0, <<len>>)

(* The host continues where it stopped, whatever the printer asks for.     *)
ContinueSlip(s, f) == s.bytesSent

(* Every request is read as one for the start of the image.                *)
RestartSlip(s, f) == 0

(* The offset a data request names, or the end of the last slice.          *)
RequestedOffset(s, f) == IF f.payload # <<>> THEN f.payload[1] ELSE s.bytesSent

(* The end of the image passes for an offset inside it.                    *)
PastEndSlip(offset, len) == offset > len

PastEnd(offset, len) == offset >= len

SliceEnd(offset, len) == IF offset + MaxChunk < len THEN offset + MaxChunk ELSE len

(* bytesSent is left behind.                                               *)
AdvanceSlip(s, end) == s

Advance(s, end) == [s EXCEPT !.bytesSent = end]

(* buildDataResponse: one slice from the offset the printer names, or      *)
(* nothing when that offset is past the image.                             *)
DataResponse(s, len, f) ==
  LET offset == RequestedOffset(s, f)
      end    == SliceEnd(offset, len)
      opcode == IF UsesModernOpcodes THEN Command.DATA ELSE Command.DATA_LEGACY
  IN  IF PastEnd(offset, len)
      THEN Result(s, WaitAction)
      ELSE Result(Advance(s, end),
                  SendAction(HostFrameOf(opcode, f.arg1, f.arg2, <<offset, end>>)))

(* END_JOB goes out and the session stays unfinished.                      *)
FinishedSlip(s) == Result(s, FinalAction(EndJobFrame))

FinishedResponse(s) == Result([s EXCEPT !.finished = TRUE], FinalAction(EndJobFrame))

(* The heartbeat is taken for an idle frame.                               *)
HeartbeatSlip(s) == Result(s, WaitAction)

HeartbeatResponse(s) == Result(s, SendAction(HeartbeatEcho))

(* handlePrintState: everything that is not dispatched on the opcode.      *)
HandlePrintState(s, len, f) ==
  CASE IsFault(f) ->
         Result([s EXCEPT !.failed = TRUE], ThrowAction)
    [] ~IsFault(f) /\ f.arg1 = PrintState.READY ->
         Result(s, SendAction(JobStart(len)))
    [] ~IsFault(f) /\ f.arg1 = PrintState.REQUEST_DATA ->
         DataResponse(s, len, f)
    [] f.arg1 = PrintState.NEEDS_ACK ->
         Result(s, SendAction(HostFrameOf(Command.ACK, f.arg3, 0, <<>>)))
    [] f.arg1 = PrintState.FINISHED ->
         FinishedResponse(s)
    [] f.arg1 \notin {PrintState.READY, PrintState.REQUEST_DATA,
                      PrintState.NEEDS_ACK, PrintState.FINISHED} ->
         Result(s, WaitAction)

DataOpcodes == {Command.DATA, Command.DATA_LEGACY}

EndOpcodes == {Notification.JOB_COMPLETE, Notification.SESSION_END}

IgnoredOpcodes ==
  {Notification.IDLE_A, Notification.IDLE_B, Command.FILE_LIST,
   Command.FILE_READ, Command.FILE_READ_NEXT}

(* The frames handleFrame passes on to handlePrintState, and so to onStatus. *)
ReachesPrintState(f) ==
  f.opcode \notin {Notification.HEARTBEAT} \cup EndOpcodes \cup IgnoredOpcodes

(* handleFrame: the opcodes the code singles out, then the print states.   *)
HandleFrame(s, len, f) ==
  CASE f.opcode = Notification.HEARTBEAT ->
         HeartbeatResponse(s)
    [] f.opcode \in EndOpcodes ->
         Result([s EXCEPT !.finished = TRUE], DoneAction)
    [] f.opcode \in IgnoredOpcodes ->
         Result(s, WaitAction)
    [] ReachesPrintState(f) ->
         HandlePrintState(s, len, f)
=============================================================================
