-------------------------- MODULE CodecsInvariant ---------------------------
(***************************************************************************)
(* The inductive invariant of Codecs, in two parts as its behaviours are.  *)
(* BleInv: a capture holds the encodings of the frames it was asked for,   *)
(* and the data frames of a transfer are in place up to its cursor.        *)
(* DecodersInv: while a decoder is in step, what the device sent is what   *)
(* it yielded, its buffer and the words on their way, in this order, and   *)
(* the buffer holds no whole frame.                                        *)
(***************************************************************************)
EXTENDS Codecs

(* What encodeBleCommand accepts: a length of three bytes, and any         *)
(* argument.                                                               *)
Commands ==
  [kind: {"command"}, totalLength: 0 .. MAX_UINT24, opcode: 0 .. 4, argument: Nat]

(* What bleDataFrames cuts: an offset of three bytes, and a payload that   *)
(* is not empty and whose length fits into two.                            *)
Blocks ==
  {d \in [kind: {"data"}, offset: 0 .. MAX_UINT24, payload: Seq(Nat)] :
     Len(d.payload) \in 1 .. MAX_UINT16}

Encoded(f) == IF f.kind = "data" THEN EncodeData(f) ELSE EncodeCommand(f)

(* The types of the BLE part.                                              *)
BleTypeOK ==
  /\ transfer \in Transfer
  /\ step \in {"command", "data", "done", "cancelled", "thrown"}
  /\ cursor \in Nat
  /\ asked \in Seq(Commands \cup Blocks)
  /\ capture \in Seq(Seq(Nat))

(* Every frame of the capture is the encoding of the one it was asked for. *)
CaptureIsEncoded ==
  /\ Len(capture) = Len(asked)
  /\ \A i \in DOMAIN asked : capture[i] = Encoded(asked[i])

(* Every data frame starts where the one before it ends.                   *)
InPlace(frames) ==
  \A i \in DataAt(frames) : frames[i].offset = Reached(SubSeq(frames, 1, i - 1))

(* A transfer with a cursor has passed the checks its length and chunk     *)
(* size face, and its data frames reach the cursor and no further.         *)
CursorIsInStep ==
  /\ step = "command" => asked = << >> /\ cursor = 0
  /\ step # "command" /\ step # "thrown" => transfer.length <= MAX_UINT24
  /\ cursor > 0 =>
       transfer.chunkSize > 0 /\ Smaller(transfer.chunkSize, transfer.length) <= MAX_UINT16
  /\ cursor = 0 => DataAt(asked) = {}
  /\ step = "data" => Reached(asked) = Smaller(cursor, transfer.length)

-----------------------------------------------------------------------------
(* The types of the stream decoders.                                       *)
DecodersTypeOK ==
  /\ decoder \in {"frame", "adb"}
  /\ phase \in {"closed", "opening", "open"}
  /\ sent \in Seq(Frames)
  /\ stream \in Seq(Nat)
  /\ buffer \in Seq(Nat)
  /\ yielded \in Seq(Frame)
  /\ early \in BOOLEAN

(* The words of some frames are those of the first k, then front, then     *)
(* back.                                                                   *)
Splits(frames, k, front, back) ==
  Words(frames) = Words(SubSeq(frames, 1, k)) \o (front \o back)

(* What is left begins with the encoding of f.                             *)
Begins(front, back, f, after) == front \o back = Encode(f) \o after

(* The frames given out are the first ones.                                *)
Leads(given, frames) ==
  Len(given) <= Len(frames) /\ given = SubSeq(frames, 1, Len(given))

(* The decoder is in step with the device.                                 *)
Sound ==
  /\ Leads(yielded, sent)
  /\ Splits(sent, Len(yielded), buffer, stream)
  /\ Len(yielded) < Len(sent) => Len(buffer) < Len(Encode(sent[Len(yielded) + 1]))

(* A FrameDecoder is in step once the channel is open, if no word came     *)
(* early; an AdbMessageDecoder is from the start of its connection.        *)
DecodersInv ==
  /\ DecodersTypeOK
  /\ phase = "opening" /\ ~early => stream = Words(sent)
  /\ phase = "open" /\ ~early => Sound
  /\ phase # "closed" /\ decoder = "adb" => Sound

(* The BLE part of the invariant.                                          *)
BleInv == BleTypeOK /\ CaptureIsEncoded /\ CursorIsInStep /\ TransferIsWhole
=============================================================================
