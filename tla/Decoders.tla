------------------------------ MODULE Decoders ------------------------------
(***************************************************************************)
(* The two incremental decoders, FrameDecoder (src/protocol/frame.ts) and  *)
(* AdbMessageDecoder (src/transport/adb/message.ts), on a channel that     *)
(* cuts what the device sends into chunks, drops and is opened again.      *)
(* Both gather chunks in a buffer and cut whole frames off its front; they *)
(* differ in their header and in when a connection starts them afresh.     *)
(*                                                                         *)
(* A stream is the sequence of its 32-bit words: a frame header is two of  *)
(* them, an ADB header six, and lengths count words.                       *)
(***************************************************************************)
EXTENDS Integers, SequencesExt

CONSTANTS
  Frames,   \* the frames the device may send
  SignBit,  \* the least word a 32-bit signed integer reads as negative
  MaxSent   \* bound: frames of one connection

Frame == [opcode: Nat, payload: Seq(Nat)]

ASSUME DecoderAssumption ==
  /\ Frames \subseteq Frame
  /\ SignBit \in Nat \ {0}
  /\ \A f \in Frames : Len(f.payload) < SignBit
  /\ MaxSent \in Nat

VARIABLES
  decoder,  \* "frame" or "adb", chosen once
  phase,    \* the channel: "closed", "opening" or "open"
  sent,     \* the frames the device sent on this connection
  stream,   \* the words of them that have not arrived, oldest first
  buffer,   \* the decoder's buffer
  yielded,  \* the frames the decoder gave out since it was reset, or since
            \* the channel opened or closed
  early     \* words arrived while the channel was opening

vars == <<decoder, phase, sent, stream, buffer, yielded, early>>

Init ==
  /\ decoder \in {"frame", "adb"}
  /\ phase = "closed"
  /\ sent = << >>
  /\ stream = << >>
  /\ buffer = << >>
  /\ yielded = << >>
  /\ early = FALSE

-----------------------------------------------------------------------------
HeaderWords == IF decoder = "frame" THEN 2 ELSE 6
LengthWord == IF decoder = "frame" THEN 2 ELSE 4

(* encodeFrame, encodeAdbMessage: the words that are neither the opcode    *)
(* nor the length matter to no decoder.                                    *)
Encode(f) ==
  [i \in 1 .. HeaderWords |-> IF i = LengthWord THEN Len(f.payload) ELSE f.opcode]
    \o f.payload

(* A negative length of a frame counts as none; an ADB length is unsigned. *)
PayloadLength(words) ==
  IF decoder = "frame" /\ words[LengthWord] >= SignBit THEN 0 ELSE words[LengthWord]

FrameSize(words) == HeaderWords + PayloadLength(words)

(* A frame counts as complete only once a word of the next one is there.   *)
CompleteSlip(words) == Len(words) > HeaderWords /\ Len(words) > FrameSize(words)

Complete(words) == Len(words) >= HeaderWords /\ Len(words) >= FrameSize(words)

FirstFrame(words) ==
  [opcode |-> words[1], payload |-> SubSeq(words, HeaderWords + 1, FrameSize(words))]

AfterFirstFrame(words) == SubSeq(words, FrameSize(words) + 1, Len(words))

(* One turn of the loop of push, which cuts a whole frame off the front.   *)
Round(r) ==
  IF Complete(r.rest)
  THEN [frames |-> Append(r.frames, FirstFrame(r.rest)), rest |-> AfterFirstFrame(r.rest)]
  ELSE r

(* What the loop has yielded and left when it ends: it turns no more       *)
(* often than there are words.                                             *)
Rounds(words) ==
  LET round[k \in 0 .. Len(words)] ==
        IF k = 0 THEN [frames |-> << >>, rest |-> words] ELSE Round(round[k - 1])
  IN  round[Len(words)]

(* push: the chunk joins the buffer, every whole frame leaves it.          *)
Push(chunk) ==
  LET r == Rounds(buffer \o chunk)
  IN  /\ buffer' = r.rest
      /\ yielded' = yielded \o r.frames

(* connect does not reset the decoder.                                     *)
ResetSlip == UNCHANGED buffer

Reset == buffer' = << >>

-----------------------------------------------------------------------------
(* A connection begins.  Each has an AdbHost, and so an AdbMessageDecoder, *)
(* of its own.                                                             *)
BeginOpen ==
  /\ phase = "closed"
  /\ phase' = "opening"
  /\ sent' = << >>
  /\ stream' = << >>
  /\ yielded' = << >>
  /\ early' = FALSE
  /\ \/ decoder = "adb" /\ Reset
     \/ decoder = "frame" /\ UNCHANGED buffer
  /\ UNCHANGED decoder

(* Printer.connect resets its FrameDecoder once the transport is open.     *)
Opened ==
  /\ phase = "opening"
  /\ phase' = "open"
  /\ \/ decoder = "frame" /\ Reset /\ yielded' = << >>
     \/ decoder = "adb" /\ UNCHANGED <<buffer, yielded>>
  /\ UNCHANGED <<decoder, sent, stream, early>>

(* The channel is lost or closed, or never opened; what was on its way may *)
(* still arrive before the next connection begins.                         *)
Closes ==
  /\ phase # "closed"
  /\ phase' = "closed"
  /\ stream' \in {stream, << >>}
  /\ sent' = << >>
  /\ yielded' = << >>
  /\ early' = FALSE
  /\ UNCHANGED <<decoder, buffer>>

DeviceSends(f) ==
  /\ phase # "closed"
  /\ Len(sent) < MaxSent
  /\ sent' = Append(sent, f)
  /\ stream' = stream \o Encode(f)
  /\ UNCHANGED <<decoder, phase, buffer, yielded, early>>

(* The next n words arrive as one chunk.                                   *)
Arrives(n) ==
  /\ Push(SubSeq(stream, 1, n))
  /\ stream' = SubSeq(stream, n + 1, Len(stream))
  /\ early' = (early \/ phase = "opening")
  /\ UNCHANGED <<decoder, phase, sent>>

Next ==
  \/ BeginOpen \/ Opened \/ Closes
  \/ \E f \in Frames : DeviceSends(f)
  \/ \E n \in 1 .. Len(stream) : Arrives(n)

Spec == Init /\ [][Next]_vars

-----------------------------------------------------------------------------
(* The decoder started where the connection starts.  FrameDecoder is reset *)
(* only after the transport opened, so words that came before are the one  *)
(* exception.                                                              *)
InStep == phase = "open" /\ (decoder = "frame" => ~early)

(* On every connection the decoder yields the frames the device sent, in   *)
(* order and unchanged, wherever the chunks were cut and whatever part of  *)
(* a frame the connection before it broke off in.                          *)
FramesArriveIntact == InStep => IsPrefix(yielded, sent)

Words(frames) == FlattenSeq([i \in DOMAIN frames |-> Encode(frames[i])])

(* No word is lost, repeated or held back: what arrived is what was        *)
(* yielded and the buffer, and the buffer is too short for the next frame. *)
NothingIsHeldBack ==
  InStep =>
    LET next == Len(yielded) + 1
    IN  /\ Words(sent) = Words(yielded) \o buffer \o stream
        /\ next <= Len(sent) => Len(buffer) < Len(Encode(sent[next]))
=============================================================================
