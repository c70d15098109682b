------------------------------- MODULE Codecs -------------------------------
(***************************************************************************)
(* The framings a capture can be read with (the switch of the inspect      *)
(* command, src/cli/commands/inspect.ts): the two stream decoders and the  *)
(* BLE frames.  They share no state; a behaviour is about one of them.     *)
(***************************************************************************)
EXTENDS Decoders, BleFrames

VARIABLE kind  \* the framing the behaviour is about

Kinds == {"stream", "adb", "ble"}

CodecInit ==
  /\ Init
  /\ BleInit
  /\ kind \in Kinds
  /\ (decoder = "adb") = (kind = "adb")
  /\ kind # "ble" => transfer = CHOOSE t \in Transfer : TRUE

CodecNext ==
  /\ \/ kind = "ble" /\ BleNext /\ UNCHANGED vars
     \/ kind # "ble" /\ Next /\ UNCHANGED bleVars
  /\ UNCHANGED kind

CodecSpec == CodecInit /\ [][CodecNext]_<<vars, bleVars, kind>>
=============================================================================
