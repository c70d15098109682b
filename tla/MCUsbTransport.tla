--------------------------- MODULE MCUsbTransport ---------------------------
(***************************************************************************)
(* UsbTransport for TLC: connections one after the other and two calls     *)
(* of close.                                                               *)
(***************************************************************************)
EXTENDS UsbTransport, TLC

CloserSymmetry == Permutations(Closers)
=============================================================================
