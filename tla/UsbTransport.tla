---------------------------- MODULE UsbTransport ----------------------------
(***************************************************************************)
(* UsbTransport (src/transport/usb.ts): opening the device, the ADB        *)
(* handshake and the wait for the print stream, the loop that reads the    *)
(* bulk endpoint, and close.  All of them are asynchronous and share the   *)
(* fields of one object; each action is the code between two awaits.       *)
(*                                                                         *)
(* A call of open has a generation: it makes an ADB host and a read loop   *)
(* of its own, while this.host, this.stream and reading belong to the      *)
(* object.  The callers modelled await open and close before they call     *)
(* open again, and open before they call close; open looks at no flag, and *)
(* they may call it again whatever came before: after a close, after an    *)
(* open that failed, after the printer went away, or of an open transport. *)
(* The device may offer or close streams, fall idle, stall, go away, come  *)
(* back and refuse to be released at any time.  No service is asked for    *)
(* (the default), so a stream comes from an OPEN of the device.            *)
(***************************************************************************)
EXTENDS Integers, FiniteSets

CONSTANTS
  MaxOpens,        \* bound: calls of open
  Closers,         \* calls of close
  MaxStallRetries  \* maxStallRetries

ASSUME UsbAssumption ==
  /\ MaxOpens \in Nat
  /\ MaxStallRetries \in Nat

Generations == 1 .. MaxOpens
Null == 0

VARIABLES
  isOpen,    \* open_
  reading,   \* the flag every read loop runs on
  device,    \* the generation of this.device, or Null
  host,      \* the generation of this.host, or Null
  stream,    \* the generation of this.stream, or Null
  opening,   \* where each call of open stands
  loop,      \* where each read loop stands, and its stalls in a row
  offered,   \* the generations whose host had a stream event
  dead,      \* the generations whose close event was emitted
  closers,   \* where each call of close stands
  told,      \* a close event was emitted since the transport last opened
  plugged,   \* the printer is attached
  held,      \* the device is open or its interface claimed
  released,  \* a close finished since the last call of open
  refused    \* the last close to give up the device could not release it

fields == <<isOpen, reading, device, host, stream>>
printer == <<plugged, held, refused>>
vars == <<fields, opening, loop, offered, dead, closers, told, printer, released>>

OpenSteps == {"idle", "claiming", "connecting", "waiting", "opened", "failed"}
LoopSteps == {"none", "header", "body", "ended"}
CloseSteps == {"idle", "waiting", "releasing", "done"}

UsbTypeOK ==
  /\ {isOpen, reading, told, plugged, held, released, refused} \subseteq BOOLEAN
  /\ {device, host, stream} \subseteq Generations \cup {Null}
  /\ opening \in [Generations -> OpenSteps]
  /\ loop \in [Generations -> [at: LoopSteps, stalls: 0 .. MaxStallRetries]]
  /\ offered \subseteq Generations
  /\ dead \subseteq Generations
  /\ closers \in [Closers -> CloseSteps]

Init ==
  /\ isOpen = FALSE
  /\ reading = FALSE
  /\ device = Null /\ host = Null /\ stream = Null
  /\ opening = [g \in Generations |-> "idle"]
  /\ loop = [g \in Generations |-> [at |-> "none", stalls |-> 0]]
  /\ offered = {}
  /\ dead = {}
  /\ closers = [k \in Closers |-> "idle"]
  /\ told = TRUE
  /\ plugged = TRUE
  /\ held = FALSE
  /\ released = FALSE
  /\ refused = FALSE

OpenInProgress ==
  \E g \in Generations : opening[g] \in {"claiming", "connecting", "waiting"}

CloseInProgress == \E k \in Closers : closers[k] \in {"waiting", "releasing"}

-----------------------------------------------------------------------------
OpenMoves(g, step) == opening' = [opening EXCEPT ![g] = step]

(* open asks for no flag.  selectDevice throws when no printer is attached, *)
(* before anything changed; otherwise the device, held or not, is the one  *)
(* of this open.                                                           *)
BeginOpen(g) ==
  /\ opening[g] = "idle"
  /\ g > 1 => opening[g - 1] # "idle"
  /\ ~OpenInProgress /\ ~CloseInProgress
  /\ \/ plugged /\ device' = g /\ OpenMoves(g, "claiming") /\ refused' = FALSE
     \/ ~plugged /\ OpenMoves(g, "failed") /\ UNCHANGED <<device, refused>>
  /\ released' = FALSE
  /\ UNCHANGED <<isOpen, reading, host, stream, loop, offered, dead, closers, told,
                 plugged, held>>

(* The device is opened and its interface claimed, or one of the steps on  *)
(* the way throws and leaves the device as far as it got.  startAdb makes  *)
(* the host and sends CNXN.                                                *)
Claims(g) ==
  /\ opening[g] = "claiming"
  /\ \/ /\ plugged
        /\ held' = TRUE
        /\ host' = g
        /\ OpenMoves(g, "connecting")
     \/ /\ held' \in {held, plugged}
        /\ OpenMoves(g, "failed")
        /\ UNCHANGED host
  /\ UNCHANGED <<isOpen, reading, device, stream, loop, offered, dead, closers, told,
                 plugged, released, refused>>

(* CNXN was written: the read loop starts and open waits for a stream.     *)
HandshakeSent(g) ==
  /\ opening[g] = "connecting"
  /\ reading' = TRUE
  /\ loop' = [loop EXCEPT ![g].at = "header"]
  /\ OpenMoves(g, "waiting")
  /\ UNCHANGED <<isOpen, device, host, stream, offered, dead, closers, told, printer, released>>

HandshakeFails(g) ==
  /\ opening[g] = "connecting"
  /\ OpenMoves(g, "failed")
  /\ UNCHANGED <<fields, loop, offered, dead, closers, told, printer, released>>

(* A stream the transport has already is kept.                             *)
TakesStreamSlip(g) == stream' = IF stream = Null THEN g ELSE stream

TakesStream(g) == stream' = g

(* The stream promise won the race: open sets the stream and the flag,     *)
(* whatever happened to the stream since its event.                        *)
Opens(g) ==
  /\ opening[g] = "waiting"
  /\ g \in offered
  /\ TakesStream(g)
  /\ isOpen' = TRUE
  /\ told' = FALSE
  /\ OpenMoves(g, "opened")
  /\ UNCHANGED <<reading, device, host, loop, offered, dead, closers, printer, released>>

(* The stream timeout won: the read loop keeps running.                    *)
OpenTimesOut(g) ==
  /\ opening[g] = "waiting"
  /\ g \notin offered
  /\ OpenMoves(g, "failed")
  /\ UNCHANGED <<fields, loop, offered, dead, closers, told, printer, released>>

-----------------------------------------------------------------------------
Ends(g) == loop' = [loop EXCEPT ![g].at = "ended"]

(* A transfer that is under way completes, also one that was under way     *)
(* when the flag fell.                                                     *)
Completes(g, step) ==
  /\ plugged /\ held
  /\ loop[g].at = step

(* Where the loop goes after a message: the flag is looked at again.       *)
AfterMessage == IF reading THEN "header" ELSE "ended"

(* A header arrived: a message without payload is complete, one with a     *)
(* payload awaits it, unless the flag fell, when nothing more is read.     *)
ReadsHeader(g) ==
  /\ Completes(g, "header")
  /\ \E at \in {AfterMessage} \cup (IF reading THEN {"body"} ELSE {}) :
       loop' = [loop EXCEPT ![g] = [at |-> at, stalls |-> 0]]
  /\ UNCHANGED <<fields, opening, offered, dead, closers, told, printer, released>>

(* The payload arrived: the message is OPEN, and offers a stream, or any   *)
(* other one with a payload.                                               *)
ReadsBody(g) ==
  /\ Completes(g, "body")
  /\ loop' = [loop EXCEPT ![g].at = AfterMessage]
  /\ offered' \in {offered, offered \cup {g}}
  /\ UNCHANGED <<fields, opening, dead, closers, told, printer, released>>

(* A read that expires before the first byte of a payload is reported as   *)
(* idle, and the header is delivered without its payload.                  *)
IdleBeforeBody(g) ==
  /\ Completes(g, "body")
  /\ loop' = [loop EXCEPT ![g].at = AfterMessage]
  /\ UNCHANGED <<fields, opening, offered, dead, closers, told, printer, released>>

(* The close event is not emitted.                                         *)
StreamCloseSlip == UNCHANGED told

StreamClose == told' = TRUE

(* CLSE arrived: streamClose of any stream closes the transport.           *)
StreamCloses(g) ==
  /\ Completes(g, "header")
  /\ g \in offered
  /\ loop' = [loop EXCEPT ![g] = [at |-> AfterMessage, stalls |-> 0]]
  /\ isOpen' = FALSE
  /\ StreamClose
  /\ dead' = dead \cup {g}
  /\ UNCHANGED <<reading, device, host, stream, opening, offered, closers, printer, released>>

(* The limit is compared as if attempts counted from zero.                 *)
StallBudgetSpentSlip(attempt) == attempt > MaxStallRetries + 1

StallBudgetSpent(attempt) == attempt > MaxStallRetries

(* recoverFromStall: the loop starts over with a header, or ends when the  *)
(* budget is spent or the halt cannot be cleared.                          *)
Stalls(g) ==
  /\ reading
  /\ loop[g].at \in {"header", "body"}
  /\ \/ /\ ~StallBudgetSpent(loop[g].stalls + 1)
        /\ loop' = [loop EXCEPT ![g] = [at |-> "header", stalls |-> @.stalls + 1]]
     \/ Ends(g)
  /\ UNCHANGED <<fields, opening, offered, dead, closers, told, printer, released>>

(* An out-of-range header or any other error: an error event, and the loop *)
(* ends with the transport as open as it was.                              *)
ReadFails(g) ==
  /\ reading
  /\ loop[g].at \in {"header", "body"}
  /\ Ends(g)
  /\ UNCHANGED <<fields, opening, offered, dead, closers, told, printer, released>>

(* The transfer fails because the printer is gone: a close event, and the  *)
(* flag stays as it is.                                                    *)
SeesDisconnect(g) ==
  /\ reading
  /\ ~plugged \/ ~held
  /\ loop[g].at \in {"header", "body"}
  /\ Ends(g)
  /\ told' = TRUE
  /\ dead' = dead \cup {g}
  /\ UNCHANGED <<fields, opening, offered, closers, printer, released>>

(* The loop finds the flag down.                                           *)
LoopStops(g) ==
  /\ ~reading
  /\ loop[g].at \in {"header", "body"}
  /\ Ends(g)
  /\ UNCHANGED <<fields, opening, offered, dead, closers, told, printer, released>>

-----------------------------------------------------------------------------
(* close looks at the flag only.                                           *)
NothingToCloseSlip == ~isOpen

(* close returns at once.                                                  *)
NothingToClose == ~isOpen /\ device = Null

CloseMoves(k, step) == closers' = [closers EXCEPT ![k] = step]

BeginClose(k) ==
  /\ closers[k] = "idle"
  /\ ~OpenInProgress
  /\ \/ /\ NothingToClose
        /\ CloseMoves(k, "done")
        /\ released' = TRUE
        /\ UNCHANGED <<isOpen, reading>>
     \/ /\ ~NothingToClose
        /\ CloseMoves(k, "waiting")
        /\ isOpen' = FALSE
        /\ reading' = FALSE
        /\ UNCHANGED released
  /\ UNCHANGED <<device, host, stream, opening, loop, offered, dead, told, printer>>

(* The read loop ended, or the two seconds it is given are over: host.close *)
(* sends CLSE for its streams and lowers the flag of the loop.             *)
ClosesHost(k) ==
  /\ closers[k] = "waiting"
  /\ CloseMoves(k, "releasing")
  /\ reading' = IF host = Null THEN reading ELSE FALSE
  /\ UNCHANGED <<isOpen, device, host, stream, opening, loop, offered, dead, told,
                 printer, released>>

(* The interface and the device are released; a release that fails, say    *)
(* because a transfer is still pending, leaves them held.                  *)
ReleasesDevice == \E free \in BOOLEAN : held' = (held /\ ~free) /\ refused' = held'

(* The device is released if it can be, the fields are reset whether or    *)
(* not it was, and close is emitted.                                       *)
Releases(k) ==
  /\ closers[k] = "releasing"
  /\ CloseMoves(k, "done")
  /\ IF device = Null THEN UNCHANGED <<held, refused>> ELSE ReleasesDevice
  /\ device' = Null /\ host' = Null /\ stream' = Null
  /\ told' = TRUE
  /\ released' = TRUE
  /\ UNCHANGED <<isOpen, reading, opening, loop, offered, dead, plugged>>

Unplug ==
  /\ plugged
  /\ plugged' = FALSE
  /\ held' = FALSE
  /\ refused' = FALSE
  /\ UNCHANGED <<fields, opening, loop, offered, dead, closers, told, released>>

Replug ==
  /\ ~plugged
  /\ plugged' = TRUE
  /\ UNCHANGED <<fields, opening, loop, offered, dead, closers, told, held, released, refused>>

OpenStep(g) ==
  \/ BeginOpen(g) \/ Claims(g) \/ HandshakeSent(g) \/ HandshakeFails(g)
  \/ Opens(g) \/ OpenTimesOut(g)

LoopStep(g) ==
  \/ ReadsHeader(g) \/ ReadsBody(g) \/ IdleBeforeBody(g) \/ StreamCloses(g)
  \/ Stalls(g) \/ ReadFails(g) \/ SeesDisconnect(g) \/ LoopStops(g)

CloseStep(k) == BeginClose(k) \/ ClosesHost(k) \/ Releases(k)

Next ==
  \/ \E g \in Generations : OpenStep(g) \/ LoopStep(g)
  \/ \E k \in Closers : CloseStep(k)
  \/ Unplug \/ Replug

Spec == Init /\ [][Next]_vars

-----------------------------------------------------------------------------
(* No listener is left waiting on a transport that closed: whenever the    *)
(* transport was open and is not any more, its close event was emitted or  *)
(* a call of close that will emit it is under way.                         *)
CloseIsTold == ~isOpen => told \/ CloseInProgress

(* write hands the host of the object the stream of the object, and the    *)
(* two change at different times.  Once an open returned they are of the   *)
(* same connection, until the next call of open makes a host: they differ  *)
(* on an open transport only between that and its end, or after it failed. *)
WritesReachTheirHost ==
  isOpen /\ host # Null /\ stream # Null => host = stream \/ opening[host] # "opened"

(* Once a call of close finished, and until open is called again, nothing  *)
(* is left to close and no loop is told to run on, however far the opens   *)
(* before it got, whichever of them failed and whatever the device did     *)
(* meanwhile; and the device is not held, unless it refused the release.   *)
ClosedHoldsNothing ==
  released /\ ~CloseInProgress =>
    /\ ~isOpen /\ ~reading
    /\ device = Null /\ host = Null /\ stream = Null
    /\ held => refused

(* What types.ts says of isOpen: true between a successful open and the    *)
(* channel closing.  So a transport that says it is open has a stream      *)
(* whose close event was not emitted, before open returned or after.       *)
OpenUntilClose == isOpen => stream \notin dead
=============================================================================
