--------------------------- MODULE PrintProtocol ---------------------------
(***************************************************************************)
(* The vocabulary of the stream protocol (src/protocol/constants.ts,       *)
(* status.ts, device-info.ts): opcodes, print states, the frames both      *)
(* sides exchange and the readings of a printer frame that do not depend   *)
(* on a job.  The module has no state.                                     *)
(*                                                                         *)
(* A frame is a record.  A payload is the sequence of its 32-bit words, so *)
(* a payload shorter than four bytes is <<>>; the bytes of an image are    *)
(* their positions, so a slice of it is the pair <<from, to>>.             *)
(***************************************************************************)
EXTENDS Integers, Sequences

Command ==
  [END_JOB |-> 1, SESSION_START |-> 2, STATUS_POLL |-> 3,
   PRINT_START_LEGACY |-> 5, ACK |-> 7, DATA_LEGACY |-> 9,
   PRINT_START |-> 16, DATA |-> 18, FILE_LIST |-> 81, FILE_READ |-> 83,
   FILE_READ_NEXT |-> 84, HEARTBEAT |-> 100, DEVICE_INFO |-> 112]

Notification ==
  [PRINT_STATE |-> 0, JOB_COMPLETE |-> 19, SESSION_END |-> 20,
   IDLE_A |-> 64, IDLE_B |-> 65, HEARTBEAT |-> 100, DEVICE_INFO |-> 112]

PrintState ==
  [REQUEST_DATA |-> 0, READY |-> 1, MEDIA_INFO |-> 3,
   NEEDS_ACK |-> 5, FINISHED |-> 6]

SESSION_PROTOCOL_REVISION == 37
MODERN_PROTOCOL_LEVEL == 100

(* A header byte. *)
Byte == 0 .. 255

(* The length of a device information block, in words.  The code asks for  *)
(* 53 bytes; the model's block is two words long.                          *)
DeviceInfoWords == 2

(* Frames of the printer carry the three argument bytes the host reads.    *)
PrinterFrame ==
  [opcode: Byte, arg1: Byte, arg2: Byte, arg3: Byte, payload: Seq(Nat)]

(* Frames of the host; arg3 is never set by the code under model.          *)
HostFrame == [opcode: Byte, arg1: Byte, arg2: Byte, payload: Seq(Nat)]

HostFrameOf(op, a1, a2, payload) ==
  [opcode |-> op, arg1 |-> a1, arg2 |-> a2, payload |-> payload]

(* Byte 3 is a fault code only under byte 1 = 0 (any non-zero value) and   *)
(* under byte 1 = 1 (only 10).                                             *)
IsFault(f) ==
  \/ f.arg1 = 0 /\ f.arg3 # 0
  \/ f.arg1 = 1 /\ f.arg3 = 10

(* The kind of status a frame is reported as to the caller's onStatus.     *)
ParseStatus(f) ==
  CASE IsFault(f)                       -> "error"
    [] ~IsFault(f) /\ f.arg1 = 0        -> "ok"
    [] ~IsFault(f) /\ f.arg1 = 1        -> "job-state"
    [] f.arg1 = 2                       -> "progress"
    [] f.arg1 = 3                       -> "disconnected"
    [] f.arg1 \in {4, 5, 6}             -> "unknown"
    [] f.arg1 > 6                       -> "error"

(* parseDeviceInfo with its length check off by one: a plausible mistake   *)
(* the runs must notice.                                                   *)
IsDeviceInfoSlip(f) ==
  f.opcode = Command.DEVICE_INFO /\ Len(f.payload) > DeviceInfoWords

(* parseDeviceInfo returned a block rather than null.                      *)
IsDeviceInfo(f) ==
  f.opcode = Command.DEVICE_INFO /\ Len(f.payload) >= DeviceInfoWords

DeviceInfoRequest == HostFrameOf(Command.DEVICE_INFO, 0, 0, <<>>)
=============================================================================
