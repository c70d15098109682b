------------------------- MODULE PrintCommandProofs -------------------------
(***************************************************************************)
(* What the print command guarantees, over the invariants of its transport. *)
(***************************************************************************)
EXTENDS PrintCommand, SerialTransportProofs

Commanded == at # "library"

(* The command opens once, with the first call of open.                    *)
OnePort == Commanded => \A g \in Opens : g # 1 => ports[g] = "none"

(* Until it disconnects nothing is being closed, and it has the port of    *)
(* that open.                                                              *)
JobHasPort ==
  /\ at \in {"preparing", "connecting", "printing"} => ~CloseInProgress
  /\ at \in {"connecting", "printing"} /\ opening[1] \in {"waiting", "opened"} => port = 1
  /\ at = "printing" => opening[1] = "opened"

(* The port is given back, or it refused to be.                            *)
LetGo == Held(1) => 1 \in refused

(* The job and what is left when the command let go of its port.           *)
JobIsOver ==
  /\ at \notin {"printing", "disconnecting", "ended"} => outcome[Photo] = "idle"
  /\ at \in {"disconnecting", "ended"} => outcome[Photo] # "running"
  /\ at = "disconnecting" => LetGo
  /\ at = "ended" /\ outcome[Photo] # "idle" => LetGo

(* Success is earned, and the exit status says it.                         *)
StatusIsTrue ==
  /\ outcome[Photo] = "resolved" => Photo \in acked
  /\ at = "ended" /\ exit = 0 => outcome[Photo] \in {"idle", "resolved"}

CommandInv ==
  /\ SerialInv
  /\ CommandTypeOK
  /\ OnePort
  /\ JobHasPort
  /\ JobIsOver
  /\ StatusIsTrue

-----------------------------------------------------------------------------
(* Every step of the command is a step of its transport or leaves it.      *)
LEMMA TransportStep == [Next]_vars => [SerialNext]_serialVars
<1> SUFFICES ASSUME [Next]_vars PROVE [SerialNext]_serialVars
  OBVIOUS
<1>0. 1 \in Opens /\ Closer \in Closers
  BY SerialAssumption, CommandAssumption DEF Opens
<1>1. CASE UNCHANGED vars
  BY <1>1 DEF vars
<1>2. CASE LibraryCalls
  BY <1>2 DEF LibraryCalls, SerialNext
<1>3. CASE TransportActs
  BY <1>3 DEF TransportActs, SerialNext
<1>4. CASE CommandStep
  BY <1>0, <1>4 DEF CommandStep, PreparationFails, DryRun, Connects, ConnectFails,
     Prints, Disconnects, Disconnected, SerialNext
<1>5. CASE JobAcknowledged \/ JobSettles
  BY <1>5 DEF JobAcknowledged, JobSettles
<1> QED
  BY <1>1, <1>2, <1>3, <1>4, <1>5 DEF Next

(* The command begins with a transport nobody has opened.                  *)
LEMMA CommandInit == Init => CommandInv
<1> SUFFICES ASSUME Init PROVE CommandInv
  OBVIOUS
<1>1. SerialInv
  BY InitInv DEF Init
<1> QED
  BY <1>1 DEF Init, SerialInit, SerialInv, CommandInv, CommandTypeOK, Steps, OnePort,
     JobHasPort, JobIsOver, StatusIsTrue, CloseInProgress, Job!Outcomes

(* One step per action; TransportActs is the one with most to disturb.     *)
LEMMA CommandKeeps ==
  ASSUME CommandInv, [Next]_vars
  PROVE  CommandInv'
<1>0. 1 \in Opens /\ Closer \in Closers
  BY SerialAssumption, CommandAssumption DEF Opens
<1>a. SerialInv'
  BY TransportStep, StepKeeps DEF CommandInv
<1>1. CASE UNCHANGED vars
  BY <1>1, <1>a DEF vars, serialVars, calls, reasons, job, CommandInv, CommandTypeOK, OnePort,
     Commanded, JobHasPort, JobIsOver, StatusIsTrue, SerialInv, CloseInProgress, Held, LetGo
<1>2. CASE LibraryCalls
  BY <1>2, <1>a DEF LibraryCalls, job, CommandInv, CommandTypeOK, OnePort, JobHasPort,
     JobIsOver, StatusIsTrue, SerialInv, Commanded
<1>3. CASE TransportActs
  <2>1. CommandTypeOK'
    BY <1>3, <1>a DEF TransportActs, job, CommandInv, CommandTypeOK, SerialInv,
       Job!Close, Job!Outcomes, Job!Settled, Job!Failures
  <2>2. OnePort'
    BY <1>3 DEF TransportActs, CommandInv, OnePort, Commanded, CommandTypeOK,
       SerialTypeOK, PortStep, OpenTimesOut, PortOpens, PortFails, PortLost, LossIsTold,
       CloseAnswered, PortCloses,
       PortStaysOpen, CloseReturns, PortMoves
  <2>3. JobHasPort'
    <3>1. at \in {"preparing", "connecting", "printing"} => UNCHANGED <<port, closing>>
      BY <1>3 DEF TransportActs, CommandInv, JobHasPort, PortStep, OpenTimesOut,
         PortOpens, PortFails, PortLost, LossIsTold, CloseAnswered,
         PortCloses, PortStaysOpen, CloseReturns, calls, CloseInProgress
    <3>2. /\ opening[1] = "opened" => opening'[1] = "opened"
          /\ opening'[1] \in {"waiting", "opened"} => opening[1] \in {"waiting", "opened"}
      BY <1>0, <1>3 DEF TransportActs, CommandInv, CommandTypeOK, SerialTypeOK,
         PortStep, OpenTimesOut, PortOpens, PortFails, PortLost, LossIsTold, CloseAnswered,
         PortCloses, PortStaysOpen, CloseReturns,
         calls, Awaited, OpenMoves
    <3> QED
      BY <1>3, <3>1, <3>2 DEF TransportActs, CommandInv, JobHasPort, CloseInProgress
  <2>4. JobIsOver'
    <3>1. LetGo => LetGo'
      BY <1>0, <1>3 DEF TransportActs, CommandInv, CommandTypeOK, SerialTypeOK,
         PortStep, OpenTimesOut, PortOpens, PortFails, PortLost, LossIsTold, CloseAnswered,
         PortCloses, PortStaysOpen, CloseReturns,
         calls, PortMoves, Held, LetGo, reasons
    <3>2. outcome[Photo] # "running" => outcome'[Photo] = outcome[Photo]
      BY <1>3 DEF TransportActs, CommandInv, CommandTypeOK, Job!Close, job
    <3>3. at' = at /\ (outcome'[Photo] = "idle" => outcome[Photo] = "idle")
      BY <1>3 DEF TransportActs, CommandInv, CommandTypeOK, Job!Close, job
    <3> QED
      BY <3>1, <3>2, <3>3 DEF CommandInv, JobIsOver
  <2>5. StatusIsTrue'
    BY <1>3 DEF TransportActs, CommandInv, StatusIsTrue, JobIsOver, CommandTypeOK, job,
       Job!Close
  <2> QED
    BY <1>a, <2>1, <2>2, <2>3, <2>4, <2>5 DEF CommandInv
<1>4. CASE PreparationFails \/ DryRun \/ ConnectFails
  BY <1>4, <1>a DEF PreparationFails, DryRun, ConnectFails, Ends, serialVars, calls, reasons, job,
     CommandInv, CommandTypeOK, Steps, OnePort, Commanded, JobHasPort, JobIsOver,
     StatusIsTrue, SerialInv, CloseInProgress, Held, LetGo
<1>5. CASE Connects
  BY <1>0, <1>5, <1>a DEF Connects, BeginOpen, PortMoves, OpenMoves, job, CommandInv,
     CommandTypeOK, Steps, SerialTypeOK, OnePort, Commanded, JobHasPort, JobIsOver,
     StatusIsTrue, SerialInv, CloseInProgress
<1>6. CASE Prints
  BY <1>6, <1>a DEF Prints, Job!Call, Job!Refusals, Job!Outcomes, Job!Settled,
     serialVars, calls, reasons, CommandInv, CommandTypeOK, Steps, OnePort, Commanded, JobHasPort,
     JobIsOver, StatusIsTrue, SerialInv, CloseInProgress, Held, LetGo
<1>7. CASE JobAcknowledged \/ JobSettles
  BY <1>7, <1>a DEF JobAcknowledged, JobSettles, Job!Acknowledge, Job!Resolve, Job!Fail,
     Job!Failures, Job!Outcomes, Job!Settled, serialVars, calls, reasons, CommandInv, CommandTypeOK,
     OnePort, Commanded, JobHasPort, JobIsOver, StatusIsTrue, SerialInv, CloseInProgress, Held, LetGo
<1>8. CASE Disconnects
  <2>1. opening[1] = "opened" /\ port = 1 /\ port # Null /\ BeginClose(Closer)
    BY <1>8 DEF Disconnects, CommandInv, JobHasPort, Null
  <2>2. /\ ports[1] # "opening"
        /\ ports[1] = "open" => ports' = [ports EXCEPT ![1] = "closing"]
        /\ ports[1] # "open" => ports' = ports
    BY <1>0, <2>1 DEF BeginClose, ClosesPort, PortMoves, CommandInv, SerialInv,
       OpeningHasCause
  <2>3. LetGo' /\ OnePort'
    BY <1>0, <1>8, <2>2 DEF Disconnects, Held, LetGo, CommandInv, OnePort, Commanded,
       CommandTypeOK, SerialTypeOK
  <2> QED
    BY <1>8, <1>a, <2>3 DEF Disconnects, Settled, job, CommandInv, CommandTypeOK, Steps,
       JobHasPort, JobIsOver, StatusIsTrue, SerialInv, Job!Settled, Job!Refusals,
       Job!Failures
<1>9. CASE Disconnected
  BY <1>9, <1>a DEF Disconnected, Ends, ExitStatus, serialVars, calls, reasons, job, CommandInv,
     CommandTypeOK, Steps, OnePort, Commanded, JobHasPort, JobIsOver, StatusIsTrue,
     SerialInv, CloseInProgress, Held, LetGo
<1> QED
  BY <1>1, <1>2, <1>3, <1>4, <1>5, <1>6, <1>7, <1>8, <1>9 DEF Next, CommandStep

-----------------------------------------------------------------------------
(* The command uses its transport as SerialTransport allows, so everything *)
(* proved of SerialSpec holds under it.                                    *)
THEOREM CommandImplementsSerial == Spec => SerialSpec
<1>1. Init => SerialInit
  BY DEF Init
<1>2. [Next]_vars => [SerialNext]_serialVars
  BY TransportStep
<1> QED
  BY <1>1, <1>2, PTL DEF Spec, SerialSpec

(* The inductive invariant of the command.                                 *)
THEOREM CommandInvariance == Spec => []CommandInv
<1>1. Init => CommandInv
  BY CommandInit
<1>2. CommandInv /\ [Next]_vars => CommandInv'
  BY CommandKeeps
<1> QED
  BY <1>1, <1>2, PTL DEF Spec

(* Every state of the command and of its transport is well-typed.          *)
THEOREM CommandTypeCorrect == Spec => []CommandTypeOK
<1>1. CommandInv => CommandTypeOK
  BY DEF CommandInv
<1> QED
  BY <1>1, CommandInvariance, PTL

(* An exit status of 0 after a job says that the printer acknowledged it.  *)
THEOREM ExitIsTrue == Spec => []ExitTellsOutcome
<1>1. CommandInv => ExitTellsOutcome
  BY DEF CommandInv, StatusIsTrue, ExitTellsOutcome
<1> QED
  BY <1>1, CommandInvariance, PTL

(* A command that called printRaw leaves no port behind that would close.  *)
THEOREM NothingIsHeld == Spec => []NothingHeldAfterPrint
<1>1. CommandInv => NothingHeldAfterPrint
  <2> SUFFICES ASSUME CommandInv, at = "ended", outcome[Photo] # "idle", NEW g \in Opens
               PROVE  Held(g) => g \in refused
    BY DEF NothingHeldAfterPrint
  <2>1. CASE g = 1
    BY <2>1 DEF CommandInv, JobIsOver, LetGo
  <2>2. CASE g # 1
    BY <2>2 DEF CommandInv, OnePort, Commanded, Held
  <2> QED
    BY <2>1, <2>2
<1> QED
  BY <1>1, CommandInvariance, PTL
=============================================================================
