----------------------- MODULE SerialTransportProofs ------------------------
(***************************************************************************)
(* What SerialTransport guarantees for any number of opens and closes.     *)
(***************************************************************************)
EXTENDS SerialTransport, TLAPS

(* An open that waits has the port of the object, which is opening.        *)
WaitingHasPort ==
  \A g \in Opens : opening[g] = "waiting" => port = g /\ ports[g] = "opening"

(* A port that opens was made by an open that waits or that timed out.     *)
OpeningHasCause ==
  \A g \in Opens : ports[g] = "opening" => opening[g] \in {"waiting", "timedOut"}

(* One call of close at a time has a port to wait for; the object has that *)
(* port or none, and nothing is open or opening it.                        *)
OneCloses ==
  /\ \A k, l \in Closers : closing[k] # Null /\ closing[l] # Null => k = l
  /\ \A k \in Closers : closing[k] # Null => port \in {Null, closing[k]}
  /\ CloseInProgress => ~isOpen /\ ~OpenInProgress

(* A port is held because the object has it and is open, or about to be,   *)
(* or it has one of the reasons to be lost sight of.                       *)
HeldIsKnown ==
  \A g \in Opens : Held(g) =>
    \/ g = port /\ (isOpen \/ opening[g] = "waiting")
    \/ opening[g] = "timedOut" \/ g \in crossed \cup refused \cup replaced

SerialInv ==
  /\ SerialTypeOK
  /\ SerialCloseIsTold
  /\ OpenHasItsPort
  /\ WaitingHasPort
  /\ OpeningHasCause
  /\ OneCloses
  /\ HeldIsKnown

-----------------------------------------------------------------------------
(* The numbers of the opens, and the value that is none of them.           *)
LEMMA OpensAreNumbers == Opens \subseteq Nat /\ Null \notin Opens
  BY SerialAssumption DEF Opens, Null

(* A transport that was never opened is good.                              *)
LEMMA InitInv == SerialInit => SerialInv
  BY OpensAreNumbers DEF SerialInit, SerialInv, SerialTypeOK, SerialCloseIsTold,
     OpenHasItsPort, WaitingHasPort, OpeningHasCause, OneCloses, HeldIsKnown, Held,
     CloseInProgress, OpenInProgress, OpenSteps, PortSteps

(* An open makes the port of the object and waits for it.                  *)
LEMMA BeginOpenKeeps ==
  ASSUME SerialInv, NEW g \in Opens, BeginOpen(g)
  PROVE  SerialInv'
<1>1. SerialTypeOK'
  BY OpensAreNumbers DEF SerialInv, BeginOpen, reasons, SerialTypeOK,
     OpenInProgress, CloseInProgress, OpenMoves, PortMoves, OpenSteps,
     PortSteps, OpenHasItsPort
<1>2. SerialCloseIsTold'
  BY OpensAreNumbers DEF SerialInv, BeginOpen, SerialCloseIsTold,
     SerialTypeOK, OpenInProgress, CloseInProgress, OpenMoves, PortMoves,
     OpenSteps, PortSteps
<1>3. OpenHasItsPort'
  BY OpensAreNumbers DEF SerialInv, BeginOpen, OpenHasItsPort,
     WaitingHasPort, SerialTypeOK, OpenInProgress, CloseInProgress,
     OpenMoves, PortMoves, OpenSteps, PortSteps
<1>4. WaitingHasPort'
  BY OpensAreNumbers DEF SerialInv, BeginOpen, WaitingHasPort, SerialTypeOK,
     OpenInProgress, CloseInProgress, OpenMoves, PortMoves, OpenSteps,
     PortSteps
<1>5. OpeningHasCause'
  BY OpensAreNumbers DEF SerialInv, BeginOpen, OpeningHasCause,
     SerialTypeOK, OpenInProgress, CloseInProgress, OpenMoves, PortMoves,
     OpenSteps, PortSteps
<1>6. OneCloses'
  BY OpensAreNumbers DEF SerialInv, BeginOpen, OneCloses, SerialTypeOK,
     OpenInProgress, CloseInProgress, OpenMoves, PortMoves, OpenSteps,
     PortSteps
<1>7. HeldIsKnown'
  BY OpensAreNumbers DEF SerialInv, BeginOpen, reasons, HeldIsKnown,
     OpenHasItsPort, OpeningHasCause, WaitingHasPort, OneCloses,
     SerialTypeOK, OpenInProgress, CloseInProgress, OpenMoves, PortMoves,
     Held, OpenSteps, PortSteps
<1> QED
  BY <1>1, <1>2, <1>3, <1>4, <1>5, <1>6, <1>7 DEF SerialInv

(* The port of an open opens, in time or after its timeout.                *)
LEMMA PortOpensKeeps ==
  ASSUME SerialInv, NEW g \in Opens, PortOpens(g)
  PROVE  SerialInv'
<1>1. SerialTypeOK'
  <2>1. opening' \in [Opens -> OpenSteps] /\ ports' \in [Opens -> PortSteps]
    BY DEF SerialInv, PortOpens, SerialTypeOK, PortMoves, OpenMoves, OpenSteps, PortSteps
  <2>2. \A k \in Closers : closing'[k] # Null => ports'[closing'[k]] = "closing"
    BY DEF SerialInv, PortOpens, SerialTypeOK, PortMoves
  <2> QED
    BY <2>1, <2>2 DEF SerialInv, PortOpens, reasons, SerialTypeOK
<1>2. SerialCloseIsTold'
  BY OpensAreNumbers DEF SerialInv, PortOpens, SerialCloseIsTold,
     SerialTypeOK, PortMoves, Awaited, OpenMoves, CloseInProgress,
     OpenSteps, PortSteps
<1>3. OpenHasItsPort'
  BY OpensAreNumbers DEF SerialInv, PortOpens, OpenHasItsPort,
     WaitingHasPort, SerialTypeOK, PortMoves, Awaited, OpenMoves, OpenSteps,
     PortSteps
<1>4. WaitingHasPort'
  BY OpensAreNumbers DEF SerialInv, PortOpens, WaitingHasPort, SerialTypeOK,
     PortMoves, Awaited, OpenMoves, OpenSteps, PortSteps
<1>5. OpeningHasCause'
  BY OpensAreNumbers DEF SerialInv, PortOpens, OpeningHasCause,
     SerialTypeOK, PortMoves, Awaited, OpenMoves, OpenSteps, PortSteps
<1>6. OneCloses'
  BY OpensAreNumbers DEF SerialInv, PortOpens, OneCloses, SerialTypeOK,
     PortMoves, Awaited, OpenMoves, CloseInProgress, OpenInProgress,
     OpenSteps, PortSteps
<1>7. HeldIsKnown'
  BY OpensAreNumbers DEF SerialInv, PortOpens, reasons, HeldIsKnown,
     OpenHasItsPort, OpeningHasCause, WaitingHasPort, OneCloses,
     SerialTypeOK, PortMoves, Awaited, OpenMoves, Held, CloseInProgress,
     OpenInProgress, OpenSteps, PortSteps
<1> QED
  BY <1>1, <1>2, <1>3, <1>4, <1>5, <1>6, <1>7 DEF SerialInv

(* The port of an open fails to open.                                      *)
LEMMA PortFailsKeeps ==
  ASSUME SerialInv, NEW g \in Opens, PortFails(g)
  PROVE  SerialInv'
<1>1. SerialTypeOK'
  BY OpensAreNumbers DEF SerialInv, PortFails, reasons, SerialTypeOK,
     PortMoves, Awaited, OpenMoves, OpenSteps, PortSteps
<1>2. SerialCloseIsTold'
  BY OpensAreNumbers DEF SerialInv, PortFails, SerialCloseIsTold,
     SerialTypeOK, PortMoves, Awaited, OpenMoves, CloseInProgress,
     OpenSteps, PortSteps
<1>3. OpenHasItsPort'
  BY OpensAreNumbers DEF SerialInv, PortFails, OpenHasItsPort,
     WaitingHasPort, SerialTypeOK, PortMoves, Awaited, OpenMoves, OpenSteps,
     PortSteps
<1>4. WaitingHasPort'
  BY OpensAreNumbers DEF SerialInv, PortFails, WaitingHasPort, SerialTypeOK,
     PortMoves, Awaited, OpenMoves, OpenSteps, PortSteps
<1>5. OpeningHasCause'
  BY OpensAreNumbers DEF SerialInv, PortFails, OpeningHasCause,
     SerialTypeOK, PortMoves, Awaited, OpenMoves, OpenSteps, PortSteps
<1>6. OneCloses'
  BY OpensAreNumbers DEF SerialInv, PortFails, OneCloses, SerialTypeOK,
     PortMoves, Awaited, OpenMoves, CloseInProgress, OpenInProgress,
     OpenSteps, PortSteps
<1>7. HeldIsKnown'
  BY OpensAreNumbers DEF SerialInv, PortFails, reasons, HeldIsKnown,
     OpenHasItsPort, OpeningHasCause, WaitingHasPort, OneCloses,
     SerialTypeOK, PortMoves, Awaited, OpenMoves, Held, CloseInProgress,
     OpenInProgress, OpenSteps, PortSteps
<1> QED
  BY <1>1, <1>2, <1>3, <1>4, <1>5, <1>6, <1>7 DEF SerialInv

(* The timeout of an open lets go of the port, which may open yet.         *)
LEMMA OpenTimesOutKeeps ==
  ASSUME SerialInv, NEW g \in Opens, OpenTimesOut(g)
  PROVE  SerialInv'
<1>1. SerialTypeOK'
  BY OpensAreNumbers DEF SerialInv, OpenTimesOut, reasons, SerialTypeOK,
     OpenMoves, OpenSteps, PortSteps
<1>2. SerialCloseIsTold'
  BY OpensAreNumbers DEF SerialInv, OpenTimesOut, SerialCloseIsTold,
     SerialTypeOK, OpenMoves, CloseInProgress, OpenSteps, PortSteps
<1>3. OpenHasItsPort'
  BY OpensAreNumbers DEF SerialInv, OpenTimesOut, OpenHasItsPort,
     WaitingHasPort, SerialTypeOK, OpenMoves, OpenSteps, PortSteps
<1>4. WaitingHasPort'
  BY OpensAreNumbers DEF SerialInv, OpenTimesOut, WaitingHasPort,
     SerialTypeOK, OpenMoves, OpenSteps, PortSteps
<1>5. OpeningHasCause'
  BY OpensAreNumbers DEF SerialInv, OpenTimesOut, OpeningHasCause,
     SerialTypeOK, OpenMoves, OpenSteps, PortSteps
<1>6. OneCloses'
  BY OpensAreNumbers DEF SerialInv, OpenTimesOut, OneCloses, SerialTypeOK,
     OpenMoves, CloseInProgress, OpenInProgress, OpenSteps, PortSteps
<1>7. HeldIsKnown'
  BY OpensAreNumbers DEF SerialInv, OpenTimesOut, reasons, HeldIsKnown,
     OpenHasItsPort, OpeningHasCause, WaitingHasPort, OneCloses,
     SerialTypeOK, OpenMoves, Held, CloseInProgress, OpenInProgress,
     OpenSteps, PortSteps
<1> QED
  BY <1>1, <1>2, <1>3, <1>4, <1>5, <1>6, <1>7 DEF SerialInv

(* The device of a port goes away.                                         *)
LEMMA PortLostKeeps ==
  ASSUME SerialInv, NEW g \in Opens, PortLost(g)
  PROVE  SerialInv'
<1>1. SerialTypeOK'
  BY OpensAreNumbers DEF SerialInv, PortLost, reasons, SerialTypeOK,
     PortMoves, calls, OpenSteps, PortSteps
<1>2. SerialCloseIsTold'
  BY OpensAreNumbers DEF SerialInv, PortLost, SerialCloseIsTold,
     SerialTypeOK, PortMoves, calls, CloseInProgress, OpenSteps, PortSteps
<1>3. OpenHasItsPort'
  BY OpensAreNumbers DEF SerialInv, PortLost, OpenHasItsPort,
     WaitingHasPort, SerialTypeOK, PortMoves, calls, OpenSteps, PortSteps
<1>4. WaitingHasPort'
  BY OpensAreNumbers DEF SerialInv, PortLost, WaitingHasPort, SerialTypeOK,
     PortMoves, calls, OpenSteps, PortSteps
<1>5. OpeningHasCause'
  BY OpensAreNumbers DEF SerialInv, PortLost, OpeningHasCause, SerialTypeOK,
     PortMoves, calls, OpenSteps, PortSteps
<1>6. OneCloses'
  BY OpensAreNumbers DEF SerialInv, PortLost, OneCloses, SerialTypeOK,
     PortMoves, calls, CloseInProgress, OpenInProgress, OpenSteps, PortSteps
<1>7. HeldIsKnown'
  BY OpensAreNumbers DEF SerialInv, PortLost, reasons, HeldIsKnown,
     OpenHasItsPort, OpeningHasCause, WaitingHasPort, OneCloses,
     SerialTypeOK, PortMoves, calls, Held, CloseInProgress, OpenInProgress,
     OpenSteps, PortSteps
<1> QED
  BY <1>1, <1>2, <1>3, <1>4, <1>5, <1>6, <1>7 DEF SerialInv

(* The close event of a port that was lost reaches the transport.          *)
LEMMA LossIsToldKeeps ==
  ASSUME SerialInv, NEW g \in Opens, LossIsTold(g)
  PROVE  SerialInv'
<1>1. SerialTypeOK'
  BY OpensAreNumbers DEF SerialInv, LossIsTold, reasons, SerialTypeOK,
     PortMoves, OnPortClose, calls, OpenSteps, PortSteps, EmitClose,
     OpenHasItsPort
<1>2. SerialCloseIsTold'
  BY OpensAreNumbers DEF SerialInv, LossIsTold, SerialCloseIsTold,
     SerialTypeOK, PortMoves, OnPortClose, calls, CloseInProgress,
     OpenSteps, PortSteps, EmitClose
<1>3. OpenHasItsPort'
  BY OpensAreNumbers DEF SerialInv, LossIsTold, OpenHasItsPort,
     WaitingHasPort, SerialTypeOK, PortMoves, OnPortClose, calls, OpenSteps,
     PortSteps, EmitClose
<1>4. WaitingHasPort'
  BY OpensAreNumbers DEF SerialInv, LossIsTold, WaitingHasPort,
     SerialTypeOK, PortMoves, OnPortClose, calls, OpenSteps, PortSteps,
     EmitClose
<1>5. OpeningHasCause'
  BY OpensAreNumbers DEF SerialInv, LossIsTold, OpeningHasCause,
     SerialTypeOK, PortMoves, OnPortClose, calls, OpenSteps, PortSteps,
     EmitClose
<1>6. OneCloses'
  BY OpensAreNumbers DEF SerialInv, LossIsTold, OneCloses, SerialTypeOK,
     PortMoves, OnPortClose, calls, CloseInProgress, OpenInProgress,
     OpenSteps, PortSteps, EmitClose
<1>7. HeldIsKnown'
  BY OpensAreNumbers DEF SerialInv, LossIsTold, reasons, HeldIsKnown,
     OpenHasItsPort, OpeningHasCause, WaitingHasPort, OneCloses,
     SerialTypeOK, PortMoves, OnPortClose, calls, Held, CloseInProgress,
     OpenInProgress, OpenSteps, PortSteps, EmitClose
<1> QED
  BY <1>1, <1>2, <1>3, <1>4, <1>5, <1>6, <1>7 DEF SerialInv

(* A call of close closes an open port, and lets go of any other.          *)
LEMMA BeginCloseKeeps ==
  ASSUME SerialInv, NEW k \in Closers, BeginClose(k)
  PROVE  SerialInv'
<1>1. SerialTypeOK'
  <2>1. CASE port # Null /\ ClosesPort
    <3>1. /\ ports' = [ports EXCEPT ![port] = "closing"]
          /\ closing' = [closing EXCEPT ![k] = port]
          /\ UNCHANGED <<port, opening, closed, told, crossed, refused, replaced>>
          /\ isOpen' = FALSE
      BY <2>1 DEF BeginClose, ClosesPort, PortMoves, reasons
    <3>2. \A l \in Closers : closing'[l] # Null => ports'[closing'[l]] = "closing"
      BY <2>1, <3>1 DEF SerialInv, SerialTypeOK
    <3> QED
      BY <2>1, <3>1, <3>2 DEF SerialInv, SerialTypeOK, PortSteps
  <2>2. CASE ~(port # Null /\ ClosesPort)
    BY <2>2 DEF SerialInv, BeginClose, reasons, SerialTypeOK, ClosesPort, EmitClose
  <2> QED
    BY <2>1, <2>2
<1>2. SerialCloseIsTold'
  BY OpensAreNumbers DEF SerialInv, BeginClose, SerialCloseIsTold,
     SerialTypeOK, OpenInProgress, ClosesPort, PortMoves, EmitClose,
     CloseInProgress, OpenSteps, PortSteps
<1>3. OpenHasItsPort'
  BY OpensAreNumbers DEF SerialInv, BeginClose, OpenHasItsPort,
     WaitingHasPort, SerialTypeOK, OpenInProgress, ClosesPort, PortMoves,
     EmitClose, OpenSteps, PortSteps
<1>4. WaitingHasPort'
  BY OpensAreNumbers DEF SerialInv, BeginClose, WaitingHasPort,
     SerialTypeOK, OpenInProgress, ClosesPort, PortMoves, EmitClose,
     OpenSteps, PortSteps
<1>5. OpeningHasCause'
  BY OpensAreNumbers DEF SerialInv, BeginClose, OpeningHasCause,
     SerialTypeOK, OpenInProgress, ClosesPort, PortMoves, EmitClose,
     OpenSteps, PortSteps
<1>6. OneCloses'
  BY OpensAreNumbers DEF SerialInv, BeginClose, OneCloses, SerialTypeOK,
     OpenInProgress, ClosesPort, PortMoves, EmitClose, CloseInProgress,
     OpenSteps, PortSteps
<1>7. HeldIsKnown'
  BY OpensAreNumbers DEF SerialInv, BeginClose, reasons, HeldIsKnown,
     OpenHasItsPort, OpeningHasCause, WaitingHasPort, OneCloses,
     SerialTypeOK, OpenInProgress, ClosesPort, PortMoves, EmitClose, Held,
     CloseInProgress, OpenSteps, PortSteps
<1> QED
  BY <1>1, <1>2, <1>3, <1>4, <1>5, <1>6, <1>7 DEF SerialInv

(* The port of a call of close is closed.                                  *)
LEMMA PortClosesKeeps ==
  ASSUME SerialInv, NEW k \in Closers, PortCloses(k)
  PROVE  SerialInv'
<1>1. SerialTypeOK'
  BY OpensAreNumbers DEF SerialInv, PortCloses, CloseReturns, reasons,
     SerialTypeOK, OneCloses, PortMoves, OnPortClose, OpenSteps, PortSteps,
     CloseInProgress, OpenInProgress, EmitClose
<1>2. SerialCloseIsTold'
  BY OpensAreNumbers DEF SerialInv, PortCloses, CloseReturns,
     SerialCloseIsTold, SerialTypeOK, PortMoves, OnPortClose,
     CloseInProgress, OpenSteps, PortSteps, EmitClose
<1>3. OpenHasItsPort'
  BY OpensAreNumbers DEF SerialInv, PortCloses, CloseReturns,
     OpenHasItsPort, WaitingHasPort, SerialTypeOK, PortMoves, OnPortClose,
     OpenSteps, PortSteps, EmitClose
<1>4. WaitingHasPort'
  BY OpensAreNumbers DEF SerialInv, PortCloses, CloseReturns,
     WaitingHasPort, OneCloses, SerialTypeOK, PortMoves, OnPortClose,
     CloseInProgress, OpenInProgress, OpenSteps, PortSteps, EmitClose
<1>5. OpeningHasCause'
  BY OpensAreNumbers DEF SerialInv, PortCloses, CloseReturns,
     OpeningHasCause, SerialTypeOK, PortMoves, OnPortClose, OpenSteps,
     PortSteps, EmitClose
<1>6. OneCloses'
  BY OpensAreNumbers DEF SerialInv, PortCloses, CloseReturns, OneCloses,
     SerialTypeOK, PortMoves, OnPortClose, CloseInProgress, OpenInProgress,
     OpenSteps, PortSteps, EmitClose
<1>7. HeldIsKnown'
  BY OpensAreNumbers DEF SerialInv, PortCloses, CloseReturns, reasons,
     HeldIsKnown, OpenHasItsPort, OpeningHasCause, WaitingHasPort,
     OneCloses, SerialTypeOK, PortMoves, OnPortClose, Held, CloseInProgress,
     OpenInProgress, OpenSteps, PortSteps, EmitClose
<1> QED
  BY <1>1, <1>2, <1>3, <1>4, <1>5, <1>6, <1>7 DEF SerialInv

(* The port of a call of close stays open; the call lets go of it.         *)
LEMMA PortStaysOpenKeeps ==
  ASSUME SerialInv, NEW k \in Closers, PortStaysOpen(k)
  PROVE  SerialInv'
<1>1. SerialTypeOK'
  BY OpensAreNumbers DEF SerialInv, PortStaysOpen, CloseReturns, reasons,
     SerialTypeOK, OneCloses, PortMoves, OpenSteps, PortSteps,
     CloseInProgress, OpenInProgress, EmitClose
<1>2. SerialCloseIsTold'
  BY OpensAreNumbers DEF SerialInv, PortStaysOpen, CloseReturns,
     SerialCloseIsTold, SerialTypeOK, PortMoves, CloseInProgress, OpenSteps,
     PortSteps, EmitClose
<1>3. OpenHasItsPort'
  BY OpensAreNumbers DEF SerialInv, PortStaysOpen, CloseReturns,
     OpenHasItsPort, WaitingHasPort, SerialTypeOK, PortMoves, OpenSteps,
     PortSteps, EmitClose, OneCloses, CloseInProgress
<1>4. WaitingHasPort'
  BY OpensAreNumbers DEF SerialInv, PortStaysOpen, CloseReturns,
     WaitingHasPort, OneCloses, SerialTypeOK, PortMoves, CloseInProgress,
     OpenInProgress, OpenSteps, PortSteps, EmitClose
<1>5. OpeningHasCause'
  BY OpensAreNumbers DEF SerialInv, PortStaysOpen, CloseReturns,
     OpeningHasCause, SerialTypeOK, PortMoves, OpenSteps, PortSteps,
     EmitClose
<1>6. OneCloses'
  BY OpensAreNumbers DEF SerialInv, PortStaysOpen, CloseReturns, OneCloses,
     SerialTypeOK, PortMoves, CloseInProgress, OpenInProgress, OpenSteps,
     PortSteps, EmitClose
<1>7. HeldIsKnown'
  BY OpensAreNumbers DEF SerialInv, PortStaysOpen, CloseReturns, reasons,
     HeldIsKnown, OpenHasItsPort, OpeningHasCause, WaitingHasPort,
     OneCloses, SerialTypeOK, PortMoves, Held, CloseInProgress,
     OpenInProgress, OpenSteps, PortSteps, EmitClose
<1> QED
  BY <1>1, <1>2, <1>3, <1>4, <1>5, <1>6, <1>7 DEF SerialInv

(* Every step keeps what is good.                                          *)
LEMMA StepKeeps == SerialInv /\ [SerialNext]_serialVars => SerialInv'
<1> SUFFICES ASSUME SerialInv, [SerialNext]_serialVars PROVE SerialInv'
  OBVIOUS
<1>1. CASE UNCHANGED serialVars
  BY <1>1 DEF serialVars, calls, reasons, SerialInv, SerialTypeOK, SerialCloseIsTold, OpenHasItsPort,
     WaitingHasPort, OpeningHasCause, OneCloses, HeldIsKnown, Held,
     CloseInProgress, OpenInProgress
<1>2. CASE SerialNext
  BY <1>2, BeginOpenKeeps, PortOpensKeeps, PortFailsKeeps, OpenTimesOutKeeps, PortLostKeeps,
     LossIsToldKeeps, BeginCloseKeeps, PortClosesKeeps, PortStaysOpenKeeps
     DEF SerialNext, PortStep, CloseAnswered
<1> QED
  BY <1>1, <1>2

-----------------------------------------------------------------------------
(* The inductive invariant holds of every transport.                       *)
THEOREM SerialInvariance == SerialSpec => []SerialInv
<1>1. SerialInit => SerialInv
  BY InitInv
<1>2. SerialInv /\ [SerialNext]_serialVars => SerialInv'
  BY StepKeeps
<1> QED
  BY <1>1, <1>2, PTL DEF SerialSpec

(* A close is always told, for any number of opens and of overlapping      *)
(* calls of close.                                                         *)
THEOREM CloseIsAlwaysTold == SerialSpec => []SerialCloseIsTold
<1>1. SerialInv => SerialCloseIsTold
  BY DEF SerialInv
<1> QED
  BY <1>1, SerialInvariance, PTL

(* An open transport has the port of its last open.                        *)
THEOREM OpenHasPort == SerialSpec => []OpenHasItsPort
<1>1. SerialInv => OpenHasItsPort
  BY DEF SerialInv
<1> QED
  BY <1>1, SerialInvariance, PTL

(* A port is lost sight of for one of four reasons, each its own.          *)
THEOREM StraysAreCaused == SerialSpec => []StraysHaveACause
<1>1. SerialInv => StraysHaveACause
  BY DEF SerialInv, HeldIsKnown, StraysHaveACause
<1> QED
  BY <1>1, SerialInvariance, PTL
=============================================================================
