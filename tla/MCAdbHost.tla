----------------------------- MODULE MCAdbHost ------------------------------
(***************************************************************************)
(* AdbHost for TLC: a write that needs two slices, a stream the host asks  *)
(* for and a stream the device opens.                                      *)
(***************************************************************************)
EXTENDS AdbHost

MCLength == [w \in Writes |-> 2]
=============================================================================
