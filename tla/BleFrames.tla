----------------------------- MODULE BleFrames ------------------------------
(***************************************************************************)
(* The BLE framing (src/protocol/ble.ts): commands of ten bytes and data   *)
(* frames with a header of five.  A transfer is a command sequence and the *)
(* data frames of its payload, one per characteristic write; the frames a  *)
(* sniffer captured are decoded one by one.  What tells the two kinds      *)
(* apart is a chunk length of zero.                                        *)
(*                                                                         *)
(* A frame is the sequence of its bytes.  A byte has Base values, 256 in   *)
(* the code, so that the limits of two and three bytes can be reached.     *)
(***************************************************************************)
EXTENDS Integers, Sequences, FiniteSetsExt

CONSTANTS
  Base,       \* how many values a byte has
  Lengths,    \* the payload lengths a transfer may have
  ChunkSizes, \* the chunk sizes it may be cut into
  Arguments   \* the arguments and copy counts of its commands

ASSUME BleAssumption ==
  /\ Base \in Nat /\ Base > 4
  /\ Lengths \cup ChunkSizes \cup Arguments \subseteq Nat

BleOpcode == [JOB_PARAMS |-> 0, CANCEL |-> 1, ANNOUNCE_LENGTH |-> 2, DATA_BLOCK |-> 3,
              FINALIZE |-> 4]

Selectors == {"PHOTO_START", "LENGTH_ONLY", "FIRMWARE_BLOCK", "FIRMWARE_FINALIZE"}

COMMAND_FRAME_SIZE == 10
DATA_FRAME_HEADER_SIZE == 5

MAX_UINT16 == Base * Base - 1
MAX_UINT24 == Base * Base * Base - 1

Byte(n) == n % Base

Uint16Bytes(n) == <<Byte(n \div Base), Byte(n)>>
Uint24Bytes(n) == <<Byte(n \div (Base * Base)), Byte(n \div Base), Byte(n)>>
Uint32Bytes(n) == <<Byte(n \div (Base * Base * Base))>> \o Uint24Bytes(n)

Uint16(a, b) == a * Base + b
Uint24(a, b, c) == Uint16(a, b) * Base + c
Uint32(a, b, c, d) == Uint24(a, b, c) * Base + d

-----------------------------------------------------------------------------
(* What a frame says.                                                      *)
Command(totalLength, opcode, argument) ==
  [kind |-> "command", totalLength |-> totalLength, opcode |-> opcode, argument |-> argument]

Data(offset, payload) == [kind |-> "data", offset |-> offset, payload |-> payload]

Invalid == [kind |-> "invalid"]

(* encodeBleCommand takes any length.                                      *)
CommandRefusedSlip(totalLength) == FALSE

CommandRefused(totalLength) == totalLength > MAX_UINT24

(* JOB_PARAMS has an argument of one byte.                                 *)
ArgumentBytes(opcode, argument) ==
  IF opcode = BleOpcode.JOB_PARAMS
  THEN <<Byte(argument), 0, 0, 0>>
  ELSE Uint32Bytes(argument)

EncodeCommand(c) ==
  Uint24Bytes(c.totalLength) \o <<0, 0, c.opcode>> \o ArgumentBytes(c.opcode, c.argument)

(* The longest chunk is counted one too long.                              *)
DataRefusedSlip(d) ==
  d.offset > MAX_UINT24 \/ d.payload = << >> \/ Len(d.payload) > MAX_UINT16 + 1

DataRefused(d) ==
  d.offset > MAX_UINT24 \/ d.payload = << >> \/ Len(d.payload) > MAX_UINT16

EncodeData(d) == Uint24Bytes(d.offset) \o Uint16Bytes(Len(d.payload)) \o d.payload

(* Whatever follows the header of a data frame is its payload.             *)
TooShortSlip(frame, chunkLength) ==
  chunkLength = 0 /\ Len(frame) < COMMAND_FRAME_SIZE

TooShort(frame, chunkLength) ==
  \/ chunkLength = 0 /\ Len(frame) < COMMAND_FRAME_SIZE
  \/ Len(frame) < DATA_FRAME_HEADER_SIZE + chunkLength

Smaller(m, n) == IF m < n THEN m ELSE n

DecodeCommand(frame) ==
  Command(Uint24(frame[1], frame[2], frame[3]), frame[6],
          IF frame[6] = BleOpcode.JOB_PARAMS THEN frame[7]
          ELSE Uint32(frame[7], frame[8], frame[9], frame[10]))

DecodeData(frame, chunkLength) ==
  Data(Uint24(frame[1], frame[2], frame[3]),
       SubSeq(frame, DATA_FRAME_HEADER_SIZE + 1,
              Smaller(DATA_FRAME_HEADER_SIZE + chunkLength, Len(frame))))

(* decodeBleFrame; a frame it throws at is Invalid.                        *)
Decode(frame) ==
  IF Len(frame) < DATA_FRAME_HEADER_SIZE THEN Invalid
  ELSE LET chunkLength == Uint16(frame[4], frame[5])
       IN  IF TooShort(frame, chunkLength) THEN Invalid
           ELSE IF chunkLength = 0 THEN DecodeCommand(frame)
           ELSE DecodeData(frame, chunkLength)

-----------------------------------------------------------------------------
VARIABLES
  transfer,  \* what is sent: the selector, payload length, chunk size, argument
  step,      \* where the transfer stands
  cursor,    \* the position of the next chunk
  asked,     \* what each frame was made from, oldest first
  capture    \* the frames that went out

bleVars == <<transfer, step, cursor, asked, capture>>

Transfer == [selector: Selectors, length: Lengths, chunkSize: ChunkSizes, argument: Arguments]

BleInit ==
  /\ transfer \in Transfer
  /\ step = "command"
  /\ cursor = 0
  /\ asked = << >>
  /\ capture = << >>

(* bleCommandSequence: the frames of each selector.                        *)
FirstCommands(t) ==
  CASE t.selector = "PHOTO_START" ->
         <<Command(t.length, BleOpcode.JOB_PARAMS, t.argument)>>
    [] t.selector = "LENGTH_ONLY" -> << >>
    [] t.selector = "FIRMWARE_BLOCK" -> <<Command(t.length, BleOpcode.DATA_BLOCK, 0)>>
    [] t.selector = "FIRMWARE_FINALIZE" -> <<Command(0, BleOpcode.FINALIZE, t.argument)>>

CommandSequence(t) ==
  Append(FirstCommands(t), Command(t.length, BleOpcode.ANNOUNCE_LENGTH, t.argument))

Sends(frames, encoded) ==
  /\ asked' = asked \o frames
  /\ capture' = capture \o encoded

(* Data follows the two commands that announce it.                         *)
AfterCommands(t) == IF t.selector \in {"PHOTO_START", "FIRMWARE_BLOCK"} THEN "data" ELSE "done"

SendCommands ==
  /\ step = "command"
  /\ LET commands == CommandSequence(transfer)
     IN  IF \E i \in DOMAIN commands : CommandRefused(commands[i].totalLength)
         THEN step' = "thrown" /\ UNCHANGED <<asked, capture>>
         ELSE /\ step' = AfterCommands(transfer)
              /\ Sends(commands, [i \in DOMAIN commands |-> EncodeCommand(commands[i])])
  /\ UNCHANGED <<transfer, cursor>>

(* The bytes of the payload from one position up to another.               *)
Payload(from, to) == [i \in 1 .. to - from |-> Byte(from + i)]

Chunk(t, from) == Data(from, Payload(from, Smaller(from + t.chunkSize, t.length)))

(* bleDataFrames: one turn of its loop.                                    *)
SendChunk ==
  /\ step = "data"
  /\ \/ /\ transfer.chunkSize > 0 /\ cursor >= transfer.length
        /\ step' = "done"
        /\ UNCHANGED <<cursor, asked, capture>>
     \/ /\ \/ transfer.chunkSize = 0
           \/ cursor < transfer.length /\ DataRefused(Chunk(transfer, cursor))
        /\ step' = "thrown"
        /\ UNCHANGED <<cursor, asked, capture>>
     \/ /\ transfer.chunkSize > 0 /\ cursor < transfer.length
        /\ ~DataRefused(Chunk(transfer, cursor))
        /\ Sends(<<Chunk(transfer, cursor)>>, <<EncodeData(Chunk(transfer, cursor))>>)
        /\ cursor' = cursor + transfer.chunkSize
        /\ UNCHANGED step
  /\ UNCHANGED transfer

(* bleCancelFrames, between any two writes.                                *)
SendCancel ==
  /\ step = "data"
  /\ step' = "cancelled"
  /\ LET cancel == Command(0, BleOpcode.CANCEL, 0)
     IN  Sends(<<cancel>>, <<EncodeCommand(cancel)>>)
  /\ UNCHANGED <<transfer, cursor>>

BleNext == SendCommands \/ SendChunk \/ SendCancel

-----------------------------------------------------------------------------
(* What the wire keeps of an argument: its low byte or its low four.       *)
Kept(f) ==
  IF f.kind = "data" THEN f
  ELSE [f EXCEPT !.argument = IF f.opcode = BleOpcode.JOB_PARAMS THEN Byte(@)
                              ELSE @ % (Base * Base * Base * Base)]

(* Every frame is read back as what it was made from: no length, offset or *)
(* chunk that was accepted is cut to fewer bytes, and no data frame is     *)
(* taken for a command.                                                    *)
FramesReadBack ==
  /\ Len(capture) = Len(asked)
  /\ \A i \in DOMAIN capture : Decode(capture[i]) = Kept(asked[i])

(* A capture that broke off inside a frame is refused, never misread.      *)
BrokenFramesAreRefused ==
  \A i \in DOMAIN capture : \A n \in 0 .. Len(capture[i]) - 1 :
    Decode(SubSeq(capture[i], 1, n)) = Invalid

(* The places of the data frames among some frames, and how far into the  *)
(* payload the last of them reaches.                                       *)
DataAt(frames) == {i \in DOMAIN frames : frames[i].kind = "data"}

Reached(frames) ==
  IF DataAt(frames) = {} THEN 0
  ELSE LET last == frames[Max(DataAt(frames))]
       IN  last.offset + Len(last.payload)

(* A transfer whose commands went out is never given up half way by the    *)
(* limits of the format: it throws before its first data frame or puts the *)
(* whole payload on the wire, each byte once and in place.                 *)
TransferIsWhole ==
  /\ step = "thrown" => DataAt(asked) = {}
  /\ \A i \in DataAt(asked) : asked[i].offset = Reached(SubSeq(asked, 1, i - 1))
  /\ step = "done" /\ AfterCommands(transfer) = "data" => Reached(asked) = transfer.length
=============================================================================
