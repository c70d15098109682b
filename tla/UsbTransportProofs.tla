------------------------- MODULE UsbTransportProofs -------------------------
(***************************************************************************)
(* What UsbTransport guarantees for any number of opens and closes.        *)
(***************************************************************************)
EXTENDS UsbTransport, TLAPS

InProgress(g) == opening[g] \in {"claiming", "connecting", "waiting"}

(* An open runs alone: nothing is closing the transport, and no close      *)
(* finished since.                                                         *)
OpensAlone == OpenInProgress => ~CloseInProgress /\ ~released

(* The open that runs owns the device, and from CNXN on the host.          *)
OpenOwns ==
  \A g \in Generations :
    /\ InProgress(g) => device = g
    /\ opening[g] \in {"connecting", "waiting"} => host = g

(* What is held can be released, unless it refused to be.                  *)
HeldHasDevice == held => device # Null \/ refused

(* Whatever a connection is made of comes after the device and goes before *)
(* it.                                                                     *)
DeviceFirst == device = Null => ~isOpen /\ ~reading /\ host = Null /\ stream = Null

(* What a close lowered stays down until it is done.                       *)
ClosingIsDown == CloseInProgress => ~isOpen /\ ~reading

UsbInv ==
  /\ UsbTypeOK
  /\ CloseIsTold
  /\ WritesReachTheirHost
  /\ ClosedHoldsNothing
  /\ OpensAlone
  /\ OpenOwns
  /\ HeldHasDevice
  /\ DeviceFirst
  /\ ClosingIsDown

-----------------------------------------------------------------------------
(* No generation is Null.                                                  *)
LEMMA GenerationsAreNumbers == Generations \subseteq Nat /\ Null \notin Generations
  BY UsbAssumption DEF Generations, Null

(* Nothing is open, held or under way.                                     *)
LEMMA InitInv == Init => UsbInv
<1> SUFFICES ASSUME Init PROVE UsbInv
  OBVIOUS
<1>1. loop \in [Generations -> [at: LoopSteps, stalls: 0 .. MaxStallRetries]]
  BY UsbAssumption DEF Init, LoopSteps
<1>2. UsbTypeOK
  BY <1>1 DEF Init, UsbTypeOK, OpenSteps, CloseSteps
<1> QED
  BY <1>2, GenerationsAreNumbers DEF Init, UsbInv, CloseIsTold, WritesReachTheirHost,
     ClosedHoldsNothing, OpensAlone, OpenOwns, HeldHasDevice, DeviceFirst, ClosingIsDown,
     InProgress, OpenInProgress, CloseInProgress

(* An open starts the look at the devices.                                 *)
LEMMA BeginOpenKeeps ==
  ASSUME UsbInv, NEW g \in Generations, BeginOpen(g)
  PROVE  UsbInv'
<1>1. UsbTypeOK'
  BY DEF UsbInv, BeginOpen, UsbTypeOK, OpenInProgress, CloseInProgress,
     OpenMoves, printer, OpenSteps, LoopSteps, CloseSteps
<1>2. ClosedHoldsNothing'
  BY GenerationsAreNumbers DEF UsbInv, BeginOpen, ClosedHoldsNothing,
     OpensAlone, HeldHasDevice, UsbTypeOK, OpenInProgress, CloseInProgress,
     OpenMoves, printer
<1>3. OpensAlone'
  BY DEF UsbInv, BeginOpen, OpensAlone, UsbTypeOK, OpenInProgress,
     CloseInProgress, OpenMoves, printer
<1>4. OpenOwns'
  BY GenerationsAreNumbers DEF UsbInv, BeginOpen, OpenOwns, OpensAlone,
     UsbTypeOK, OpenInProgress, CloseInProgress, OpenMoves, printer,
     InProgress
<1>5. HeldHasDevice'
  BY GenerationsAreNumbers DEF UsbInv, BeginOpen, HeldHasDevice, OpenOwns,
     UsbTypeOK, OpenInProgress, CloseInProgress, OpenMoves, printer,
     InProgress
<1>6. CloseIsTold' /\ WritesReachTheirHost'
  BY DEF UsbInv, UsbTypeOK, fields, printer, BeginOpen, OpenInProgress,
     CloseInProgress, OpenMoves, CloseIsTold, WritesReachTheirHost
<1>7. DeviceFirst' /\ ClosingIsDown'
  BY GenerationsAreNumbers DEF UsbInv, BeginOpen, DeviceFirst,
     ClosingIsDown, CloseInProgress, OpenMoves, fields, printer
<1> QED
  BY <1>1, <1>2, <1>3, <1>4, <1>5, <1>6, <1>7 DEF UsbInv

(* The host comes with the open that waits for it.                         *)
LEMMA ClaimsKeeps ==
  ASSUME UsbInv, NEW g \in Generations, Claims(g)
  PROVE  UsbInv'
<1>1. UsbTypeOK'
  BY DEF UsbInv, Claims, UsbTypeOK, OpenMoves, OpenSteps, LoopSteps,
     CloseSteps
<1>2. WritesReachTheirHost'
  BY GenerationsAreNumbers DEF UsbInv, Claims, WritesReachTheirHost,
     OpensAlone, OpenOwns, UsbTypeOK, OpenMoves, OpenInProgress,
     CloseInProgress, InProgress
<1>3. ClosedHoldsNothing'
  BY GenerationsAreNumbers DEF UsbInv, Claims, ClosedHoldsNothing,
     OpensAlone, HeldHasDevice, UsbTypeOK, OpenMoves, CloseInProgress,
     OpenInProgress
<1>4. OpensAlone'
  BY DEF UsbInv, Claims, OpensAlone, UsbTypeOK, OpenMoves, OpenInProgress,
     CloseInProgress
<1>5. OpenOwns'
  BY GenerationsAreNumbers DEF UsbInv, Claims, OpenOwns, OpensAlone,
     UsbTypeOK, OpenMoves, InProgress, OpenInProgress, CloseInProgress
<1>6. HeldHasDevice'
  BY GenerationsAreNumbers DEF UsbInv, Claims, HeldHasDevice, OpenOwns,
     UsbTypeOK, OpenMoves, InProgress
<1>7. CloseIsTold'
  BY DEF UsbInv, fields, printer, Claims, OpenMoves, CloseIsTold,
     CloseInProgress
<1>8. DeviceFirst' /\ ClosingIsDown'
  BY GenerationsAreNumbers DEF UsbInv, Claims, DeviceFirst, ClosingIsDown,
     CloseInProgress, OpenMoves, OpenOwns, InProgress, UsbTypeOK
<1> QED
  BY <1>1, <1>2, <1>3, <1>4, <1>5, <1>6, <1>7, <1>8 DEF UsbInv

(* The read loop starts; the flag of the transport stays down.             *)
LEMMA HandshakeSentKeeps ==
  ASSUME UsbInv, NEW g \in Generations, HandshakeSent(g)
  PROVE  UsbInv'
<1>1. UsbTypeOK'
  BY DEF UsbInv, HandshakeSent, UsbTypeOK, OpenMoves, printer, OpenSteps,
     LoopSteps, CloseSteps
<1>2. OpensAlone'
  BY DEF UsbInv, HandshakeSent, OpensAlone, UsbTypeOK, OpenMoves, printer,
     OpenInProgress, CloseInProgress
<1>3. OpenOwns'
  BY GenerationsAreNumbers DEF UsbInv, HandshakeSent, OpenOwns, OpensAlone,
     UsbTypeOK, OpenMoves, printer, InProgress, OpenInProgress,
     CloseInProgress
<1>4. CloseIsTold' /\ WritesReachTheirHost' /\ ClosedHoldsNothing' /\ HeldHasDevice'
  BY DEF UsbInv, UsbTypeOK, fields, printer, HandshakeSent, OpenMoves,
     CloseIsTold, WritesReachTheirHost, ClosedHoldsNothing, HeldHasDevice,
     OpensAlone, OpenInProgress, CloseInProgress
<1>5. DeviceFirst' /\ ClosingIsDown'
  BY GenerationsAreNumbers DEF UsbInv, HandshakeSent, DeviceFirst,
     ClosingIsDown, CloseInProgress, OpenMoves, OpensAlone, OpenOwns,
     InProgress, OpenInProgress, UsbTypeOK, printer
<1> QED
  BY <1>1, <1>2, <1>3, <1>4, <1>5 DEF UsbInv

(* The open that failed keeps what it holds.                               *)
LEMMA HandshakeFailsKeeps ==
  ASSUME UsbInv, NEW g \in Generations, HandshakeFails(g)
  PROVE  UsbInv'
<1>1. UsbTypeOK'
  BY DEF UsbInv, HandshakeFails, UsbTypeOK, OpenMoves, fields, printer,
     OpenSteps, LoopSteps, CloseSteps
<1>2. OpensAlone'
  BY DEF UsbInv, HandshakeFails, OpensAlone, UsbTypeOK, OpenMoves, fields,
     printer, OpenInProgress, CloseInProgress
<1>3. OpenOwns'
  BY GenerationsAreNumbers DEF UsbInv, HandshakeFails, OpenOwns, OpensAlone,
     UsbTypeOK, OpenMoves, fields, printer, InProgress, OpenInProgress,
     CloseInProgress
<1>4. CloseIsTold' /\ WritesReachTheirHost' /\ ClosedHoldsNothing' /\ HeldHasDevice'
  BY DEF UsbInv, fields, printer, HandshakeFails, OpenMoves, CloseIsTold,
     WritesReachTheirHost, ClosedHoldsNothing, HeldHasDevice,
     CloseInProgress
<1>5. DeviceFirst' /\ ClosingIsDown'
  BY DEF UsbInv, HandshakeFails, DeviceFirst, ClosingIsDown,
     CloseInProgress, fields, printer
<1> QED
  BY <1>1, <1>2, <1>3, <1>4, <1>5 DEF UsbInv

(* The only open there is ends, with the host of its stream.               *)
LEMMA OpensKeeps ==
  ASSUME UsbInv, NEW g \in Generations, Opens(g)
  PROVE  UsbInv'
<1>1. UsbTypeOK'
  BY DEF UsbInv, Opens, TakesStream, UsbTypeOK, OpenMoves, printer, OpenSteps, LoopSteps,
     CloseSteps
<1>2. CloseIsTold'
  BY DEF UsbInv, Opens, CloseIsTold, UsbTypeOK, OpenMoves, printer,
     CloseInProgress
<1>3. WritesReachTheirHost'
  BY GenerationsAreNumbers DEF UsbInv, Opens, TakesStream, WritesReachTheirHost,
     OpensAlone, OpenOwns, UsbTypeOK, OpenMoves, printer, OpenInProgress,
     CloseInProgress, InProgress
<1>4. OpensAlone'
  <2>1. \A h \in Generations : InProgress(h) => h = g
    BY DEF UsbInv, OpenOwns, Opens, InProgress
  <2>2. ~OpenInProgress'
    BY <2>1 DEF Opens, OpenMoves, OpenInProgress, InProgress, UsbInv, UsbTypeOK
  <2> QED
    BY <2>2 DEF OpensAlone
<1>5. OpenOwns'
  BY GenerationsAreNumbers DEF UsbInv, Opens, OpenOwns, OpensAlone,
     UsbTypeOK, OpenMoves, printer, InProgress, OpenInProgress,
     CloseInProgress
<1>6. ClosedHoldsNothing' /\ HeldHasDevice'
  BY DEF UsbInv, fields, printer, Opens, OpenMoves, ClosedHoldsNothing,
     HeldHasDevice, OpensAlone, OpenInProgress, CloseInProgress
<1>7. DeviceFirst' /\ ClosingIsDown'
  BY GenerationsAreNumbers DEF UsbInv, Opens, DeviceFirst, ClosingIsDown,
     CloseInProgress, OpenMoves, TakesStream, OpensAlone, OpenOwns,
     InProgress, OpenInProgress, UsbTypeOK, printer
<1> QED
  BY <1>1, <1>2, <1>3, <1>4, <1>5, <1>6, <1>7 DEF UsbInv

(* The read loop stays; nothing else is left of the open.                  *)
LEMMA OpenTimesOutKeeps ==
  ASSUME UsbInv, NEW g \in Generations, OpenTimesOut(g)
  PROVE  UsbInv'
<1>1. UsbTypeOK'
  BY DEF UsbInv, OpenTimesOut, UsbTypeOK, OpenMoves, fields, printer,
     OpenSteps, LoopSteps, CloseSteps
<1>2. OpensAlone'
  BY DEF UsbInv, OpenTimesOut, OpensAlone, UsbTypeOK, OpenMoves, fields,
     printer, OpenInProgress, CloseInProgress
<1>3. OpenOwns'
  BY GenerationsAreNumbers DEF UsbInv, OpenTimesOut, OpenOwns, OpensAlone,
     UsbTypeOK, OpenMoves, fields, printer, InProgress, OpenInProgress,
     CloseInProgress
<1>4. CloseIsTold' /\ WritesReachTheirHost' /\ ClosedHoldsNothing' /\ HeldHasDevice'
  BY DEF UsbInv, fields, printer, OpenTimesOut, OpenMoves, CloseIsTold,
     WritesReachTheirHost, ClosedHoldsNothing, HeldHasDevice,
     CloseInProgress
<1>5. DeviceFirst' /\ ClosingIsDown'
  BY DEF UsbInv, OpenTimesOut, DeviceFirst, ClosingIsDown, CloseInProgress,
     fields, printer
<1> QED
  BY <1>1, <1>2, <1>3, <1>4, <1>5 DEF UsbInv

(* Only the loop moves.                                                    *)
LEMMA ReadsHeaderKeeps ==
  ASSUME UsbInv, NEW g \in Generations, ReadsHeader(g)
  PROVE  UsbInv'
<1>1. UsbTypeOK'
  <2>1. PICK at \in LoopSteps : loop' = [loop EXCEPT ![g] = [at |-> at, stalls |-> 0]]
    BY DEF ReadsHeader, AfterMessage, LoopSteps
  <2>2. loop' \in [Generations -> [at: LoopSteps, stalls: 0 .. MaxStallRetries]]
    BY <2>1, UsbAssumption DEF UsbInv, UsbTypeOK
  <2> QED
    BY <2>2 DEF ReadsHeader, UsbInv, UsbTypeOK, fields, printer
<1>2. /\ CloseIsTold'
      /\ WritesReachTheirHost'
      /\ ClosedHoldsNothing'
      /\ OpensAlone'
      /\ OpenOwns'
      /\ HeldHasDevice'
  BY DEF UsbInv, fields, printer, ReadsHeader, Completes, AfterMessage,
     CloseIsTold, WritesReachTheirHost, ClosedHoldsNothing, OpensAlone,
     OpenOwns, HeldHasDevice, CloseInProgress, OpenInProgress, InProgress
<1>3. DeviceFirst' /\ ClosingIsDown'
  BY DEF UsbInv, ReadsHeader, DeviceFirst, ClosingIsDown, CloseInProgress,
     fields, printer
<1> QED
  BY <1>1, <1>2, <1>3 DEF UsbInv

(* Only the loop moves, and a stream may be offered.                       *)
LEMMA ReadsBodyKeeps ==
  ASSUME UsbInv, NEW g \in Generations, ReadsBody(g)
  PROVE  UsbInv'
<1>1. UsbTypeOK'
  BY DEF UsbInv, ReadsBody, UsbTypeOK, Completes, AfterMessage, fields,
     printer, OpenSteps, LoopSteps, CloseSteps
<1>2. /\ CloseIsTold'
      /\ WritesReachTheirHost'
      /\ ClosedHoldsNothing'
      /\ OpensAlone'
      /\ OpenOwns'
      /\ HeldHasDevice'
  BY DEF UsbInv, fields, printer, ReadsBody, Completes, AfterMessage,
     CloseIsTold, WritesReachTheirHost, ClosedHoldsNothing, OpensAlone,
     OpenOwns, HeldHasDevice, CloseInProgress, OpenInProgress, InProgress
<1>3. DeviceFirst' /\ ClosingIsDown'
  BY DEF UsbInv, ReadsBody, DeviceFirst, ClosingIsDown, CloseInProgress,
     fields, printer
<1> QED
  BY <1>1, <1>2, <1>3 DEF UsbInv

(* Only the loop moves.                                                    *)
LEMMA IdleBeforeBodyKeeps ==
  ASSUME UsbInv, NEW g \in Generations, IdleBeforeBody(g)
  PROVE  UsbInv'
<1>1. UsbTypeOK'
  BY DEF UsbInv, IdleBeforeBody, UsbTypeOK, Completes, AfterMessage, fields,
     printer, OpenSteps, LoopSteps, CloseSteps
<1>2. /\ CloseIsTold'
      /\ WritesReachTheirHost'
      /\ ClosedHoldsNothing'
      /\ OpensAlone'
      /\ OpenOwns'
      /\ HeldHasDevice'
  BY DEF UsbInv, fields, printer, IdleBeforeBody, Completes, AfterMessage,
     CloseIsTold, WritesReachTheirHost, ClosedHoldsNothing, OpensAlone,
     OpenOwns, HeldHasDevice, CloseInProgress, OpenInProgress, InProgress
<1>3. DeviceFirst' /\ ClosingIsDown'
  BY DEF UsbInv, IdleBeforeBody, DeviceFirst, ClosingIsDown,
     CloseInProgress, fields, printer
<1> QED
  BY <1>1, <1>2, <1>3 DEF UsbInv

(* The flag falls with a close event.                                      *)
LEMMA StreamClosesKeeps ==
  ASSUME UsbInv, NEW g \in Generations, StreamCloses(g)
  PROVE  UsbInv'
<1>1. UsbTypeOK'
  <2>1. PICK at \in LoopSteps : loop' = [loop EXCEPT ![g] = [at |-> at, stalls |-> 0]]
    BY DEF StreamCloses, AfterMessage, LoopSteps
  <2>2. loop' \in [Generations -> [at: LoopSteps, stalls: 0 .. MaxStallRetries]]
    BY <2>1, UsbAssumption DEF UsbInv, UsbTypeOK
  <2> QED
    BY <2>2 DEF StreamCloses, StreamClose, UsbInv, UsbTypeOK, printer
<1>2. CloseIsTold'
  BY DEF UsbInv, StreamCloses, CloseIsTold, UsbTypeOK, Completes,
     AfterMessage, StreamClose, printer, CloseInProgress
<1>3. WritesReachTheirHost'
  BY GenerationsAreNumbers DEF UsbInv, StreamCloses, WritesReachTheirHost,
     OpensAlone, OpenOwns, UsbTypeOK, Completes, AfterMessage, StreamClose,
     printer, OpenInProgress, CloseInProgress, InProgress
<1>4. OpensAlone'
  BY DEF UsbInv, StreamCloses, OpensAlone, UsbTypeOK, Completes,
     AfterMessage, StreamClose, printer, OpenInProgress, CloseInProgress
<1>5. ClosedHoldsNothing' /\ OpenOwns' /\ HeldHasDevice'
  BY DEF UsbInv, fields, printer, StreamCloses, Completes, AfterMessage,
     StreamClose, ClosedHoldsNothing, OpenOwns, HeldHasDevice,
     CloseInProgress, InProgress
<1>6. DeviceFirst' /\ ClosingIsDown'
  BY DEF UsbInv, StreamCloses, DeviceFirst, ClosingIsDown, CloseInProgress,
     printer
<1> QED
  BY <1>1, <1>2, <1>3, <1>4, <1>5, <1>6 DEF UsbInv

(* The budget bounds the stalls in a row.                                  *)
LEMMA StallsKeeps ==
  ASSUME UsbInv, NEW g \in Generations, Stalls(g)
  PROVE  UsbInv'
<1>1. UsbTypeOK'
  <2>1. loop' \in [Generations -> [at: LoopSteps, stalls: 0 .. MaxStallRetries]]
    <3>1. CASE /\ ~StallBudgetSpent(loop[g].stalls + 1)
               /\ loop' = [loop EXCEPT ![g] = [at |-> "header", stalls |-> @.stalls + 1]]
      <4>1. loop[g].stalls + 1 \in 0 .. MaxStallRetries
        BY <3>1, UsbAssumption DEF StallBudgetSpent, UsbInv, UsbTypeOK
      <4> QED
        BY <3>1, <4>1 DEF LoopSteps, UsbInv, UsbTypeOK
    <3>2. CASE Ends(g)
      BY <3>2 DEF Ends, LoopSteps, UsbInv, UsbTypeOK
    <3> QED
      BY <3>1, <3>2 DEF Stalls
  <2> QED
    BY <2>1 DEF Stalls, UsbInv, UsbTypeOK, fields, printer
<1>2. /\ CloseIsTold'
      /\ WritesReachTheirHost'
      /\ ClosedHoldsNothing'
      /\ OpensAlone'
      /\ OpenOwns'
      /\ HeldHasDevice'
  BY DEF UsbInv, fields, printer, Stalls, StallBudgetSpent, Ends,
     CloseIsTold, WritesReachTheirHost, ClosedHoldsNothing, OpensAlone,
     OpenOwns, HeldHasDevice, CloseInProgress, OpenInProgress, InProgress
<1>3. DeviceFirst' /\ ClosingIsDown'
  BY DEF UsbInv, Stalls, DeviceFirst, ClosingIsDown, CloseInProgress,
     fields, printer
<1> QED
  BY <1>1, <1>2, <1>3 DEF UsbInv

(* Only the loop moves.                                                    *)
LEMMA ReadFailsKeeps ==
  ASSUME UsbInv, NEW g \in Generations, ReadFails(g)
  PROVE  UsbInv'
<1>1. UsbTypeOK'
  BY DEF UsbInv, ReadFails, UsbTypeOK, Ends, fields, printer, OpenSteps,
     LoopSteps, CloseSteps
<1>2. /\ CloseIsTold'
      /\ WritesReachTheirHost'
      /\ ClosedHoldsNothing'
      /\ OpensAlone'
      /\ OpenOwns'
      /\ HeldHasDevice'
  BY DEF UsbInv, fields, printer, ReadFails, Ends, CloseIsTold,
     WritesReachTheirHost, ClosedHoldsNothing, OpensAlone, OpenOwns,
     HeldHasDevice, CloseInProgress, OpenInProgress, InProgress
<1>3. DeviceFirst' /\ ClosingIsDown'
  BY DEF UsbInv, ReadFails, DeviceFirst, ClosingIsDown, CloseInProgress,
     fields, printer
<1> QED
  BY <1>1, <1>2, <1>3 DEF UsbInv

(* Only the loop moves, with a close event.                                *)
LEMMA SeesDisconnectKeeps ==
  ASSUME UsbInv, NEW g \in Generations, SeesDisconnect(g)
  PROVE  UsbInv'
<1>1. UsbTypeOK'
  BY DEF UsbInv, SeesDisconnect, UsbTypeOK, Ends, fields, printer,
     OpenSteps, LoopSteps, CloseSteps
<1>2. CloseIsTold'
  BY DEF UsbInv, SeesDisconnect, CloseIsTold, UsbTypeOK, Ends, fields,
     printer, CloseInProgress
<1>3. /\ WritesReachTheirHost'
      /\ ClosedHoldsNothing'
      /\ OpensAlone'
      /\ OpenOwns'
      /\ HeldHasDevice'
  BY DEF UsbInv, fields, printer, SeesDisconnect, Ends,
     WritesReachTheirHost, ClosedHoldsNothing, OpensAlone, OpenOwns,
     HeldHasDevice, CloseInProgress, OpenInProgress, InProgress
<1>4. DeviceFirst' /\ ClosingIsDown'
  BY DEF UsbInv, SeesDisconnect, DeviceFirst, ClosingIsDown,
     CloseInProgress, fields, printer
<1> QED
  BY <1>1, <1>2, <1>3, <1>4 DEF UsbInv

(* Only the loop moves.                                                    *)
LEMMA LoopStopsKeeps ==
  ASSUME UsbInv, NEW g \in Generations, LoopStops(g)
  PROVE  UsbInv'
<1>1. UsbTypeOK'
  BY DEF UsbInv, LoopStops, UsbTypeOK, Ends, fields, printer, OpenSteps,
     LoopSteps, CloseSteps
<1>2. /\ CloseIsTold'
      /\ WritesReachTheirHost'
      /\ ClosedHoldsNothing'
      /\ OpensAlone'
      /\ OpenOwns'
      /\ HeldHasDevice'
  BY DEF UsbInv, fields, printer, LoopStops, Ends, CloseIsTold,
     WritesReachTheirHost, ClosedHoldsNothing, OpensAlone, OpenOwns,
     HeldHasDevice, CloseInProgress, OpenInProgress, InProgress
<1>3. DeviceFirst' /\ ClosingIsDown'
  BY DEF UsbInv, LoopStops, DeviceFirst, ClosingIsDown, CloseInProgress,
     fields, printer
<1> QED
  BY <1>1, <1>2, <1>3 DEF UsbInv

(* What is held has a device or refused, so close does not return at once  *)
(* with something to release.                                              *)
LEMMA BeginCloseKeeps ==
  ASSUME UsbInv, NEW k \in Closers, BeginClose(k)
  PROVE  UsbInv'
<1>1. UsbTypeOK'
  BY DEF UsbInv, BeginClose, UsbTypeOK, OpenInProgress, NothingToClose,
     CloseMoves, printer, OpenSteps, LoopSteps, CloseSteps
<1>2. CloseIsTold'
  BY DEF UsbInv, BeginClose, CloseIsTold, UsbTypeOK, OpenInProgress,
     NothingToClose, CloseMoves, printer, CloseInProgress
<1>3. WritesReachTheirHost'
  BY GenerationsAreNumbers DEF UsbInv, BeginClose, WritesReachTheirHost,
     OpensAlone, OpenOwns, UsbTypeOK, OpenInProgress, NothingToClose,
     CloseMoves, printer, CloseInProgress, InProgress
<1>4. ClosedHoldsNothing'
  BY GenerationsAreNumbers DEF UsbInv, BeginClose, ClosedHoldsNothing,
     DeviceFirst, HeldHasDevice, UsbTypeOK, OpenInProgress, NothingToClose,
     CloseMoves, printer, CloseInProgress
<1>5. OpensAlone'
  BY DEF UsbInv, BeginClose, OpensAlone, UsbTypeOK, OpenInProgress,
     NothingToClose, CloseMoves, printer, CloseInProgress
<1>6. OpenOwns' /\ HeldHasDevice'
  BY DEF UsbInv, fields, printer, BeginClose, OpenInProgress,
     NothingToClose, CloseMoves, OpenOwns, HeldHasDevice, InProgress
<1>7. DeviceFirst' /\ ClosingIsDown'
  BY DEF UsbInv, BeginClose, DeviceFirst, ClosingIsDown, CloseInProgress,
     NothingToClose, CloseMoves, UsbTypeOK, printer
<1> QED
  BY <1>1, <1>2, <1>3, <1>4, <1>5, <1>6, <1>7 DEF UsbInv

(* The flag of the loop falls.                                             *)
LEMMA ClosesHostKeeps ==
  ASSUME UsbInv, NEW k \in Closers, ClosesHost(k)
  PROVE  UsbInv'
<1>1. UsbTypeOK'
  BY DEF UsbInv, ClosesHost, UsbTypeOK, CloseMoves, printer, OpenSteps,
     LoopSteps, CloseSteps
<1>2. CloseIsTold'
  BY DEF UsbInv, ClosesHost, CloseIsTold, UsbTypeOK, CloseMoves, printer,
     CloseInProgress
<1>3. ClosedHoldsNothing'
  BY GenerationsAreNumbers DEF UsbInv, ClosesHost, ClosedHoldsNothing,
     OpensAlone, HeldHasDevice, UsbTypeOK, CloseMoves, printer,
     CloseInProgress, OpenInProgress
<1>4. OpensAlone'
  BY DEF UsbInv, ClosesHost, OpensAlone, UsbTypeOK, CloseMoves, printer,
     OpenInProgress, CloseInProgress
<1>5. WritesReachTheirHost' /\ OpenOwns' /\ HeldHasDevice'
  BY DEF UsbInv, fields, printer, ClosesHost, CloseMoves,
     WritesReachTheirHost, OpenOwns, HeldHasDevice, InProgress
<1>6. DeviceFirst' /\ ClosingIsDown'
  BY DEF UsbInv, ClosesHost, DeviceFirst, ClosingIsDown, CloseInProgress,
     CloseMoves, UsbTypeOK, printer
<1> QED
  BY <1>1, <1>2, <1>3, <1>4, <1>5, <1>6 DEF UsbInv

(* The device is given up, and what it does not give up it refused.        *)
LEMMA ReleasesKeeps ==
  ASSUME UsbInv, NEW k \in Closers, Releases(k)
  PROVE  UsbInv'
<1>1. UsbTypeOK'
  BY DEF UsbInv, Releases, ReleasesDevice, UsbTypeOK, CloseMoves, OpenSteps, LoopSteps,
     CloseSteps
<1>2. CloseIsTold'
  BY DEF UsbInv, Releases, CloseIsTold, UsbTypeOK, CloseMoves,
     CloseInProgress
<1>3. WritesReachTheirHost'
  BY GenerationsAreNumbers DEF UsbInv, Releases, WritesReachTheirHost,
     OpensAlone, OpenOwns, UsbTypeOK, CloseMoves, OpenInProgress,
     CloseInProgress, InProgress
<1>4. ClosedHoldsNothing'
  BY GenerationsAreNumbers DEF UsbInv, Releases, ReleasesDevice, ClosedHoldsNothing,
     ClosingIsDown, HeldHasDevice, UsbTypeOK, CloseMoves, CloseInProgress,
     OpenInProgress
<1>5. OpensAlone'
  BY DEF UsbInv, Releases, OpensAlone, UsbTypeOK, CloseMoves,
     OpenInProgress, CloseInProgress
<1>6. OpenOwns'
  BY GenerationsAreNumbers DEF UsbInv, Releases, OpenOwns, OpensAlone,
     UsbTypeOK, CloseMoves, InProgress, OpenInProgress, CloseInProgress
<1>7. HeldHasDevice'
  BY GenerationsAreNumbers DEF UsbInv, Releases, ReleasesDevice, HeldHasDevice, OpenOwns,
     UsbTypeOK, CloseMoves, InProgress
<1>8. DeviceFirst' /\ ClosingIsDown'
  BY DEF UsbInv, Releases, DeviceFirst, ClosingIsDown, CloseInProgress,
     CloseMoves, UsbTypeOK
<1> QED
  BY <1>1, <1>2, <1>3, <1>4, <1>5, <1>6, <1>7, <1>8 DEF UsbInv

(* A printer that is gone is not held.                                     *)
LEMMA UnplugKeeps ==
  ASSUME UsbInv, Unplug
  PROVE  UsbInv'
<1>1. UsbTypeOK'
  BY DEF UsbInv, Unplug, UsbTypeOK, fields, OpenSteps, LoopSteps, CloseSteps
<1>2. ClosedHoldsNothing'
  BY GenerationsAreNumbers DEF UsbInv, Unplug, ClosedHoldsNothing,
     OpensAlone, HeldHasDevice, UsbTypeOK, fields, CloseInProgress,
     OpenInProgress
<1>3. HeldHasDevice'
  BY GenerationsAreNumbers DEF UsbInv, Unplug, HeldHasDevice, OpenOwns,
     UsbTypeOK, fields, InProgress
<1>4. CloseIsTold' /\ WritesReachTheirHost' /\ OpensAlone' /\ OpenOwns'
  BY DEF UsbInv, fields, printer, Unplug, CloseIsTold, WritesReachTheirHost,
     OpensAlone, OpenOwns, CloseInProgress, OpenInProgress, InProgress
<1>5. DeviceFirst' /\ ClosingIsDown'
  BY DEF UsbInv, Unplug, DeviceFirst, ClosingIsDown, CloseInProgress, fields
<1> QED
  BY <1>1, <1>2, <1>3, <1>4, <1>5 DEF UsbInv

(* A printer that is back is not held.                                     *)
LEMMA ReplugKeeps ==
  ASSUME UsbInv, Replug
  PROVE  UsbInv'
<1>1. UsbTypeOK'
  BY DEF UsbInv, Replug, UsbTypeOK, fields, OpenSteps, LoopSteps, CloseSteps
<1>2. /\ CloseIsTold'
      /\ WritesReachTheirHost'
      /\ ClosedHoldsNothing'
      /\ OpensAlone'
      /\ OpenOwns'
      /\ HeldHasDevice'
  BY DEF UsbInv, fields, printer, Replug, CloseIsTold, WritesReachTheirHost,
     ClosedHoldsNothing, OpensAlone, OpenOwns, HeldHasDevice,
     CloseInProgress, OpenInProgress, InProgress
<1>3. DeviceFirst' /\ ClosingIsDown'
  BY DEF UsbInv, Replug, DeviceFirst, ClosingIsDown, CloseInProgress, fields
<1> QED
  BY <1>1, <1>2, <1>3 DEF UsbInv

(* Every step keeps the invariant.                                         *)
LEMMA StepKeeps == UsbInv /\ [Next]_vars => UsbInv'
<1> SUFFICES ASSUME UsbInv, [Next]_vars PROVE UsbInv'
  OBVIOUS
<1>1. CASE UNCHANGED vars
  BY <1>1 DEF vars, fields, printer, UsbInv, UsbTypeOK, CloseIsTold, WritesReachTheirHost,
     ClosedHoldsNothing, OpensAlone, OpenOwns, HeldHasDevice, DeviceFirst, ClosingIsDown,
     InProgress, CloseInProgress, OpenInProgress
<1>2. CASE \E g \in Generations : OpenStep(g)
  BY <1>2, BeginOpenKeeps, ClaimsKeeps, HandshakeSentKeeps,
     HandshakeFailsKeeps, OpensKeeps, OpenTimesOutKeeps DEF OpenStep
<1>3. CASE \E g \in Generations : LoopStep(g)
  BY <1>3, ReadsHeaderKeeps, ReadsBodyKeeps, IdleBeforeBodyKeeps,
     StreamClosesKeeps, StallsKeeps, ReadFailsKeeps, SeesDisconnectKeeps,
     LoopStopsKeeps DEF LoopStep
<1>4. CASE \E k \in Closers : CloseStep(k)
  BY <1>4, BeginCloseKeeps, ClosesHostKeeps, ReleasesKeeps DEF CloseStep
<1>5. CASE Unplug \/ Replug
  BY <1>5, UnplugKeeps, ReplugKeeps
<1> QED
  BY <1>1, <1>2, <1>3, <1>4, <1>5 DEF Next

-----------------------------------------------------------------------------
(* The inductive invariant holds of every transport.                       *)
THEOREM UsbInvariance == Spec => []UsbInv
<1>1. Init => UsbInv
  BY InitInv
<1>2. UsbInv /\ [Next]_vars => UsbInv'
  BY StepKeeps
<1> QED
  BY <1>1, <1>2, PTL DEF Spec

(* Every state is well-typed, so a loop never stalls more than its budget. *)
THEOREM UsbTypeCorrect == Spec => []UsbTypeOK
<1>1. UsbInv => UsbTypeOK
  BY DEF UsbInv
<1> QED
  BY <1>1, UsbInvariance, PTL

(* A close is always told, whatever the device did meanwhile.              *)
THEOREM UsbCloseIsTold == Spec => []CloseIsTold
<1>1. UsbInv => CloseIsTold
  BY DEF UsbInv
<1> QED
  BY <1>1, UsbInvariance, PTL

(* On an open transport the host and the stream are of one connection once *)
(* the open that made the host returned, and until the next one makes its. *)
THEOREM UsbWritesReachHost == Spec => []WritesReachTheirHost
<1>1. UsbInv => WritesReachTheirHost
  BY DEF UsbInv
<1> QED
  BY <1>1, UsbInvariance, PTL

(* A finished close leaves no device, no host, no stream and no flag up,   *)
(* whatever opens failed before, and the device free unless it refused.    *)
THEOREM UsbClosedHoldsNothing == Spec => []ClosedHoldsNothing
<1>1. UsbInv => ClosedHoldsNothing
  BY DEF UsbInv
<1> QED
  BY <1>1, UsbInvariance, PTL
=============================================================================
