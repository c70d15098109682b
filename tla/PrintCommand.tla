---------------------------- MODULE PrintCommand ----------------------------
(***************************************************************************)
(* The print command (src/cli/commands/print.ts) over the serial           *)
(* transport, its default, with printRaw as JobOutcome describes it.  The  *)
(* command prepares the image, connects, prints, and disconnects whatever  *)
(* printRaw came to; connect is outside the try.                           *)
(*                                                                         *)
(* A program that uses the library instead calls the transport as it       *)
(* likes; it is the other client of SerialTransport here.                  *)
(***************************************************************************)
EXTENDS SerialTransport

CONSTANT Closer  \* the call of close that disconnect makes

ASSUME CommandAssumption == Closer \in Closers /\ MaxOpens > 0

VARIABLES
  at,       \* where the command stands, or "library" when there is none
  exit,     \* the exit status
  acked,    \* what JobOutcome keeps of the job
  outcome

job == <<acked, outcome>>
vars == <<serialVars, at, exit, job>>

Photo == "photo"
Job == INSTANCE JobOutcome WITH Jobs <- {Photo}, up <- isOpen

Steps == {"library", "preparing", "connecting", "printing", "disconnecting", "ended"}

CommandTypeOK ==
  /\ SerialTypeOK
  /\ at \in Steps
  /\ exit \in {0, 1}
  /\ acked \subseteq {Photo}
  /\ outcome \in [{Photo} -> Job!Outcomes]

Init ==
  /\ SerialInit
  /\ at \in {"library", "preparing"}
  /\ exit = 0
  /\ acked = {}
  /\ outcome = [j \in {Photo} |-> "idle"]

-----------------------------------------------------------------------------
(* A library program makes the calls of the transport in any order.        *)
LibraryCalls ==
  /\ at = "library"
  /\ \/ \E g \in Opens : BeginOpen(g)
     \/ \E k \in Closers : BeginClose(k)
  /\ UNCHANGED <<at, exit, job>>

(* The port, its timer and the callback of close act on their own; losing  *)
(* the channel ends the job.                                               *)
TransportActs ==
  /\ \/ \E g \in Opens : OpenTimesOut(g) \/ PortStep(g)
     \/ \E k \in Closers : CloseAnswered(k)
  /\ IF isOpen /\ ~isOpen' THEN Job!Close ELSE UNCHANGED job
  /\ UNCHANGED <<at, exit>>

Ends(status) == at' = "ended" /\ exit' = status

(* An unknown model or transport, an unreadable file or a target size that *)
(* prepareImage cannot take throws before anything is opened.              *)
PreparationFails ==
  /\ at = "preparing"
  /\ Ends(1)
  /\ UNCHANGED <<serialVars, job>>

(* --dry-run writes the raster to a file instead of printing it.           *)
DryRun ==
  /\ at = "preparing"
  /\ \E status \in {0, 1} : Ends(status)
  /\ UNCHANGED <<serialVars, job>>

Connects ==
  /\ at = "preparing"
  /\ BeginOpen(1)
  /\ at' = "connecting"
  /\ UNCHANGED <<exit, job>>

(* connect throws past the finally.                                        *)
ConnectFails ==
  /\ at = "connecting"
  /\ opening[1] \in {"timedOut", "failed"}
  /\ Ends(1)
  /\ UNCHANGED <<serialVars, job>>

(* printRaw refuses an empty raster or a channel that is gone.             *)
Prints ==
  /\ at = "connecting"
  /\ opening[1] = "opened"
  /\ at' = "printing"
  /\ Job!Call(Photo)
  /\ UNCHANGED <<serialVars, exit>>

JobAcknowledged ==
  /\ at = "printing"
  /\ Job!Acknowledge(Photo)
  /\ UNCHANGED <<serialVars, at, exit>>

(* printRaw settles, by its timer if by nothing else.                      *)
JobSettles ==
  /\ at = "printing"
  /\ Job!Resolve(Photo) \/ Job!Fail(Photo)
  /\ UNCHANGED <<serialVars, at, exit>>

(* The command disconnects only after a job that resolved.                 *)
SettledSlip == outcome[Photo] = "resolved"

(* finally: however printRaw settled.                                      *)
Settled == outcome[Photo] \in Job!Settled

Disconnects ==
  /\ at = "printing"
  /\ Settled
  /\ BeginClose(Closer)
  /\ at' = "disconnecting"
  /\ UNCHANGED <<exit, job>>

(* An error of printRaw is swallowed by the cleanup.                       *)
ExitStatusSlip == 0

(* main turns what printRaw threw into the exit status.                    *)
ExitStatus == IF outcome[Photo] = "resolved" THEN 0 ELSE 1

Disconnected ==
  /\ at = "disconnecting"
  /\ Closer \in closed
  /\ Ends(ExitStatus)
  /\ UNCHANGED <<serialVars, job>>

CommandStep ==
  \/ PreparationFails \/ DryRun \/ Connects \/ ConnectFails \/ Prints
  \/ Disconnects \/ Disconnected

Next == LibraryCalls \/ TransportActs \/ CommandStep \/ JobAcknowledged \/ JobSettles

(* The command runs on as long as it can; open has a timer and so has the  *)
(* job, and the operating system answers a close, if with a refusal.       *)
Fairness ==
  /\ WF_vars(CommandStep)
  /\ \A g \in Opens : WF_vars(OpenTimesOut(g) /\ TransportActs)
  /\ WF_vars(JobSettles)
  /\ WF_vars(CloseAnswered(Closer) /\ TransportActs)

Spec == Init /\ [][Next]_vars /\ Fairness

-----------------------------------------------------------------------------
(* The exit status is true: a command that went on to print ends with 0    *)
(* only when the printer acknowledged the end of the job, whatever the     *)
(* channel did during the job and the cleanup.                             *)
ExitTellsOutcome ==
  at = "ended" /\ exit = 0 => outcome[Photo] = "idle" \/ Photo \in acked

(* A command that called printRaw ends with no port held, so that the next *)
(* command, or a phone, can have the printer, unless the port itself       *)
(* refused to close.  (A command whose connect failed does not disconnect: *)
(* its port may still open.)                                               *)
NothingHeldAfterPrint ==
  at = "ended" /\ outcome[Photo] # "idle" => \A g \in Opens : Held(g) => g \in refused

(* The command ends: none of its waits is without a timer or an answer of  *)
(* the operating system.                                                   *)
CommandEnds == at = "preparing" ~> at = "ended"
=============================================================================
