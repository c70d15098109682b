-------------------------- MODULE SerialTransport ---------------------------
(***************************************************************************)
(* SerialTransport (src/transport/serial.ts): a port of the operating      *)
(* system behind open_ and this.port.  Each call of open makes a port of   *)
(* its own, which starts opening at once; open settles on the port's       *)
(* callback or on its timer, whichever comes first, and the listeners it   *)
(* put on the port stay for the life of the port.                          *)
(*                                                                         *)
(* The operating system opens a port for one holder at a time, may refuse  *)
(* to close it, tells of a port it lost after the port is gone, and is not *)
(* in the repository.                                                      *)
(* Callers await open before they call open or close again, and close      *)
(* before they open again.  open looks at no flag: they may call it of a   *)
(* transport that says it is open.                                         *)
(***************************************************************************)
EXTENDS Integers

CONSTANTS
  MaxOpens,  \* bound: calls of open
  Closers    \* calls of close

ASSUME SerialAssumption == MaxOpens \in Nat

Opens == 1 .. MaxOpens
Null == 0

VARIABLES
  isOpen,   \* open_
  port,     \* the call of open whose port is this.port, or Null
  opening,  \* where each call of open stands
  ports,    \* where the port of each call stands
  closing,  \* the port each call of close awaits, or Null
  closed,   \* the calls of close that are over
  told,     \* a close event was emitted since the transport last opened
  crossed,  \* the ports whose flag the close event of an older one lowered
  refused,  \* the ports a call of close gave up although they stayed open
  replaced  \* the ports of open transports that an open took the place of

calls == <<opening, closing, closed>>
reasons == <<crossed, refused, replaced>>
serialVars == <<isOpen, port, calls, ports, told, reasons>>

OpenSteps == {"idle", "waiting", "opened", "timedOut", "failed"}
PortSteps == {"none", "opening", "open", "closing", "lost", "gone"}

SerialTypeOK ==
  /\ {isOpen, told} \subseteq BOOLEAN
  /\ port \in Opens \cup {Null}
  /\ opening \in [Opens -> OpenSteps]
  /\ ports \in [Opens -> PortSteps]
  /\ closing \in [Closers -> Opens \cup {Null}]
  /\ closed \subseteq Closers
  /\ crossed \cup refused \cup replaced \subseteq Opens
  /\ \A k \in Closers : closing[k] # Null => ports[closing[k]] = "closing"

SerialInit ==
  /\ isOpen = FALSE
  /\ port = Null
  /\ opening = [g \in Opens |-> "idle"]
  /\ ports = [g \in Opens |-> "none"]
  /\ closing = [k \in Closers |-> Null]
  /\ closed = {}
  /\ told = TRUE
  /\ crossed = {}
  /\ refused = {}
  /\ replaced = {}

OpenInProgress == \E g \in Opens : opening[g] = "waiting"
CloseInProgress == \E k \in Closers : closing[k] # Null

PortMoves(g, step) == ports' = [ports EXCEPT ![g] = step]
OpenMoves(g, step) == opening' = [opening EXCEPT ![g] = step]

EmitClose == told' = TRUE

-----------------------------------------------------------------------------
(* open: without the serialport module, or with no port that matches, it   *)
(* throws before it touches a field.                                       *)
BeginOpen(g) ==
  /\ opening[g] = "idle"
  /\ g > 1 => opening[g - 1] # "idle"
  /\ ~OpenInProgress /\ ~CloseInProgress
  /\ \/ OpenMoves(g, "failed") /\ UNCHANGED <<port, ports, replaced>>
     \/ /\ OpenMoves(g, "waiting") /\ PortMoves(g, "opening") /\ port' = g
        /\ replaced' = replaced \cup (IF isOpen THEN {port} ELSE {})
  /\ UNCHANGED <<isOpen, closing, closed, told, crossed, refused>>

(* A late answer opens the transport too.                                  *)
AwaitedSlip(g) == opening[g] \in {"waiting", "timedOut"}

(* The callback of the port settles open unless the timer did.             *)
Awaited(g) == opening[g] = "waiting"

(* The port opened: open resolves and raises the flag, or nobody waits.    *)
PortOpens(g) ==
  /\ ports[g] = "opening"
  /\ \A h \in Opens : ports[h] \notin {"open", "closing"}
  /\ PortMoves(g, "open")
  /\ \/ /\ Awaited(g)
        /\ OpenMoves(g, "opened")
        /\ isOpen' = TRUE
        /\ told' = FALSE
     \/ /\ ~Awaited(g)
        /\ UNCHANGED <<opening, isOpen, told>>
  /\ UNCHANGED <<port, closing, closed, reasons>>

PortFails(g) ==
  /\ ports[g] = "opening"
  /\ PortMoves(g, "gone")
  /\ IF Awaited(g) THEN OpenMoves(g, "failed") ELSE UNCHANGED opening
  /\ UNCHANGED <<isOpen, port, closing, closed, told, reasons>>

(* The timer rejects open and leaves the port as it is.                    *)
OpenTimesOut(g) ==
  /\ opening[g] = "waiting"
  /\ OpenMoves(g, "timedOut")
  /\ UNCHANGED <<isOpen, port, ports, closing, closed, told, reasons>>

(* The link to the printer broke; the event is still to come.              *)
PortLost(g) ==
  /\ ports[g] = "open"
  /\ PortMoves(g, "lost")
  /\ UNCHANGED <<isOpen, port, calls, told, reasons>>

(* The close event of a lost port lowers the flag without telling anyone.  *)
OnPortCloseSlip == isOpen' = FALSE /\ UNCHANGED told

(* The close listener, whichever port it is on.                            *)
OnPortClose == isOpen' = FALSE /\ EmitClose

LossIsTold(g) ==
  /\ ports[g] = "lost"
  /\ PortMoves(g, "gone")
  /\ OnPortClose
  /\ crossed' = crossed \cup (IF isOpen /\ g # port THEN {port} ELSE {})
  /\ UNCHANGED <<port, calls, refused, replaced>>

-----------------------------------------------------------------------------
(* close looks at the flag it has just lowered.                            *)
ClosesPortSlip == isOpen' /\ ports[port] = "open"

(* close also waits for a port another call of close is closing.           *)
ClosesTwiceSlip == ports[port] \in {"open", "closing"}

(* close asks the port, not the flag, whether there is something to close. *)
ClosesPort == ports[port] = "open"

(* close returns at once without a port, closes an open one and awaits it, *)
(* and lets go of any other, also of one that is still opening.            *)
BeginClose(k) ==
  /\ k \notin closed /\ closing[k] = Null
  /\ ~OpenInProgress
  /\ \/ /\ port = Null
        /\ closed' = closed \cup {k}
        /\ UNCHANGED <<isOpen, port, ports, closing, told>>
     \/ /\ port # Null
        /\ isOpen' = FALSE
        /\ IF ClosesPort
           THEN /\ PortMoves(port, "closing")
                /\ closing' = [closing EXCEPT ![k] = port]
                /\ UNCHANGED <<port, closed, told>>
           ELSE /\ port' = Null
                /\ EmitClose
                /\ closed' = closed \cup {k}
                /\ UNCHANGED <<ports, closing>>
  /\ UNCHANGED <<opening, reasons>>

(* The callback of the port's close, whatever it says: close lets go of    *)
(* the port and is over.                                                   *)
CloseReturns(k) ==
  /\ closing[k] # Null
  /\ port' = Null
  /\ closing' = [closing EXCEPT ![k] = Null]
  /\ closed' = closed \cup {k}

(* The port is closed: its event, then the callback.                       *)
PortCloses(k) ==
  /\ CloseReturns(k)
  /\ PortMoves(closing[k], "gone")
  /\ OnPortClose
  /\ UNCHANGED <<opening, reasons>>

(* The port could not be closed: it stays open without an event, and close *)
(* ignores the error and emits its own.                                    *)
PortStaysOpen(k) ==
  /\ CloseReturns(k)
  /\ PortMoves(closing[k], "open")
  /\ refused' = refused \cup {closing[k]}
  /\ EmitClose
  /\ UNCHANGED <<isOpen, opening, crossed, replaced>>

CloseAnswered(k) == PortCloses(k) \/ PortStaysOpen(k)

PortStep(g) == PortOpens(g) \/ PortFails(g) \/ PortLost(g) \/ LossIsTold(g)

SerialNext ==
  \/ \E g \in Opens : BeginOpen(g) \/ OpenTimesOut(g) \/ PortStep(g)
  \/ \E k \in Closers : BeginClose(k) \/ CloseAnswered(k)

SerialSpec == SerialInit /\ [][SerialNext]_serialVars

-----------------------------------------------------------------------------
(* No listener is left waiting: a transport that was open and is not any   *)
(* more emitted its close event, or a call of close that will is under way. *)
SerialCloseIsTold == ~isOpen => told \/ CloseInProgress

(* While the transport says it is open it has a port, the one of the last  *)
(* open; and if that open succeeded the port is open, or lost with its     *)
(* event to come, so that write reaches it: no late answer and no event of *)
(* an older port raises the flag again or leaves it up without a port.     *)
OpenHasItsPort ==
  isOpen =>
    /\ port # Null
    /\ opening[port] = "opened" => ports[port] \in {"open", "lost"}

Held(g) == ports[g] \in {"opening", "open"}

(* Every port that is held but lost sight of, with nothing left to close   *)
(* it, has a reason of its own: its open timed out, the late close event   *)
(* of an older port lowered its flag, it refused to close, or the program  *)
(* opened the transport again without closing it.  No reconnect after a    *)
(* loss and no second close loses one otherwise.                           *)
StraysHaveACause ==
  \A g \in Opens :
    Held(g) /\ g # port => opening[g] = "timedOut" \/ g \in crossed \cup refused \cup replaced
=============================================================================
