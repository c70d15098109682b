------------------------------ MODULE Printer -------------------------------
(***************************************************************************)
(* Printer (src/printer.ts) over an open or closing channel: any number of *)
(* print jobs and device queries share one set of frame listeners, each    *)
(* job with a session of its own, a timer and a close listener.            *)
(*                                                                         *)
(* JavaScript runs a handler to completion.  The delivery of one frame to  *)
(* the listeners is split into one step per listener, and every other step *)
(* waits until the delivery is over (Idle).  The code visits a snapshot of *)
(* the listeners in registration order; the model in any order.            *)
(*                                                                         *)
(* The printer is unconstrained here: any frame may arrive at any time.    *)
(* PrintSystem replaces it by a model of the device.                       *)
(***************************************************************************)
EXTENDS PrintSession, FiniteSets, SequencesExt

CONSTANTS
  Jobs,           \* calls of printRaw, each with an image of its own
  Queries,        \* calls of requestDeviceInfo
  Caller,         \* stands for cancel() and pollStatus() as a sender
  ImageLen,       \* the length of each job's image
  PrinterFrames,  \* the frames the printer may send
  MaxWire,        \* bound: frames on their way to the printer
  MaxPending      \* bound: unsettled writes of one call

Calls == Jobs \cup Queries

ASSUME PrinterAssumption ==
  /\ Jobs \cap Queries = {}
  /\ Caller \notin Calls
  /\ ImageLen \in [Jobs -> Nat]
  /\ PrinterFrames \subseteq PrinterFrame
  /\ MaxWire \in Nat
  /\ MaxPending \in Nat

VARIABLES
  channel,         \* the transport: "closed", "open" or "closing"
  outcome,         \* what each call of printRaw came to so far
  session,         \* the PrintSession of each job
  answer,          \* what each call of requestDeviceInfo came to so far
  frameListeners,  \* the calls whose onFrame is registered
  closeListeners,  \* the jobs whose onClose is registered
  timers,          \* the calls whose timer is armed
  frame,           \* the frame being delivered, or NoFrame
  todo,            \* the listeners of the snapshot that have not seen it
  pending,         \* how many writes of each call are unsettled, by kind
  wire             \* frames handed to the transport, oldest first

vars == <<channel, outcome, session, answer, frameListeners, closeListeners,
          timers, frame, todo, pending, wire>>

registrations == <<frameListeners, closeListeners, timers>>

Refusals == {"notOpen", "emptyImage"}
Failures == {"timeout", "closed", "writeFailed", "fault"}
Settled == {"resolved"} \cup Refusals \cup Failures
Outcomes == {"idle", "running"} \cup Settled
Answers == {"idle", "waiting", "info", "null"}

(* A write is plain, or final (its landing ends the job), or dead: issued  *)
(* on a channel that is not open, so that it can only fail.                *)
Kinds == {"plain", "final", "dead"}

NoFrame == [opcode |-> 255, arg1 |-> 255, arg2 |-> 0, arg3 |-> 0, payload |-> <<>>]

Message == [by: Calls \cup {Caller}, frame: HostFrame]

TypeOK ==
  /\ channel \in {"closed", "open", "closing"}
  /\ outcome \in [Jobs -> Outcomes]
  /\ session \in [Jobs -> Session]
  /\ answer \in [Queries -> Answers]
  /\ frameListeners \subseteq Calls
  /\ closeListeners \subseteq Jobs
  /\ timers \subseteq Calls
  /\ frame \in PrinterFrame
  /\ todo \subseteq Calls
  /\ pending \in [Calls -> [Kinds -> Nat]]
  /\ wire \in Seq(Message)

Init ==
  /\ channel = "closed"
  /\ outcome = [j \in Jobs |-> "idle"]
  /\ session = [j \in Jobs |-> NewSession]
  /\ answer = [q \in Queries |-> "idle"]
  /\ frameListeners = {}
  /\ closeListeners = {}
  /\ timers = {}
  /\ frame = NoFrame
  /\ todo = {}
  /\ pending = [c \in Calls |-> [k \in Kinds |-> 0]]
  /\ wire = <<>>

-----------------------------------------------------------------------------
(* No handler is running.                                                  *)
Idle == todo = {}

(* transport.write: the frame is on its way unless the channel is not      *)
(* open; in both cases a promise is left that settles later.               *)
Write(c, f, kind) ==
  IF channel = "open"
  THEN /\ wire' = Append(wire, [by |-> c, frame |-> f])
       /\ pending' = [pending EXCEPT ![c][kind] = @ + 1]
  ELSE /\ pending' = [pending EXCEPT ![c]["dead"] = @ + 1]
       /\ UNCHANGED wire

(* A write nobody keeps the promise of.                                    *)
WriteAndForget(c, f) ==
  /\ wire' = IF channel = "open" THEN Append(wire, [by |-> c, frame |-> f]) ELSE wire
  /\ UNCHANGED pending

(* The bounds: each of the calls cs may issue one more write, and the wire *)
(* holds n more frames.                                                    *)
RoomFor(cs, n) ==
  /\ Len(wire) + n <= MaxWire
  /\ \A c \in cs :
       pending[c]["plain"] + pending[c]["final"] + pending[c]["dead"] < MaxPending

-----------------------------------------------------------------------------
(* finish without its settled guard.                                       *)
FinishAgainSlip(js, result) ==
  /\ outcome' = [j \in Jobs |-> IF j \in js THEN result ELSE outcome[j]]
  /\ frameListeners' = frameListeners \ js
  /\ closeListeners' = closeListeners \ js
  /\ timers' = timers \ js

(* finish that leaves the frame listener registered.                       *)
FinishLeakSlip(js, result) ==
  LET live == {j \in js : outcome[j] = "running"}
  IN  /\ outcome' = [j \in Jobs |-> IF j \in live THEN result ELSE outcome[j]]
      /\ closeListeners' = closeListeners \ live
      /\ timers' = timers \ live
      /\ UNCHANGED frameListeners

(* finish of each of the jobs js: it settles those that still run and      *)
(* removes what they registered.                                           *)
Finish(js, result) ==
  LET live == {j \in js : outcome[j] = "running"}
  IN  /\ outcome' = [j \in Jobs |-> IF j \in live THEN result ELSE outcome[j]]
      /\ frameListeners' = frameListeners \ live
      /\ closeListeners' = closeListeners \ live
      /\ timers' = timers \ live

(* The end of a device query that forgets its timer.                       *)
FinishQuerySlip(q, result) ==
  /\ answer' = [answer EXCEPT ![q] = IF @ = "waiting" THEN result ELSE @]
  /\ frameListeners' = frameListeners \ {q}
  /\ UNCHANGED timers

(* The end of a device query; a promise settles once.                      *)
FinishQuery(q, result) ==
  /\ answer' = [answer EXCEPT ![q] = IF @ = "waiting" THEN result ELSE @]
  /\ frameListeners' = frameListeners \ {q}
  /\ timers' = timers \ {q}

-----------------------------------------------------------------------------
(* connect: the transport opened.  A failed attempt changes nothing.       *)
Connect ==
  /\ Idle
  /\ channel = "closed"
  /\ channel' = "open"
  /\ UNCHANGED <<outcome, session, answer, registrations, frame, todo, pending, wire>>

(* disconnect: the transport refuses writes at once and closes later.      *)
Disconnect ==
  /\ Idle
  /\ channel = "open"
  /\ channel' = "closing"
  /\ UNCHANGED <<outcome, session, answer, registrations, frame, todo, pending, wire>>

(* The transport emits 'close', asked for or not: every onClose runs.      *)
ChannelCloses ==
  /\ Idle
  /\ channel # "closed"
  /\ channel' = "closed"
  /\ Finish(closeListeners, "closed")
  /\ wire' = <<>>
  /\ UNCHANGED <<session, answer, frame, todo, pending>>

(* printRaw does not look at the channel.                                  *)
IsOpenSlip == TRUE

(* transport.isOpen, as printRaw reads it.                                 *)
IsOpen == channel = "open"

(* printRaw refuses: no open channel, or PrintSession's constructor threw. *)
RefuseJob(j) ==
  /\ Idle
  /\ outcome[j] = "idle"
  /\ \/ ~IsOpen /\ outcome' = [outcome EXCEPT ![j] = "notOpen"]
     \/ /\ IsOpen
        /\ ImageLen[j] = 0
        /\ outcome' = [outcome EXCEPT ![j] = "emptyImage"]
  /\ UNCHANGED <<channel, session, answer, registrations, frame, todo, pending, wire>>

(* printRaw starts a job: it registers, then writes the start frame.       *)
StartJob(j) ==
  /\ Idle
  /\ outcome[j] = "idle"
  /\ IsOpen
  /\ ImageLen[j] > 0
  /\ RoomFor({j}, 1)
  /\ outcome' = [outcome EXCEPT ![j] = "running"]
  /\ session' = [session EXCEPT ![j] = NewSession]
  /\ frameListeners' = frameListeners \cup {j}
  /\ closeListeners' = closeListeners \cup {j}
  /\ timers' = timers \cup {j}
  /\ Write(j, StartFrame, "plain")
  /\ UNCHANGED <<channel, answer, frame, todo>>

(* onData: a decoded frame is about to visit the registered listeners.     *)
BeginDelivery(f) ==
  /\ Idle
  /\ channel # "closed"
  /\ frameListeners # {}
  /\ RoomFor(frameListeners, Cardinality(frameListeners))
  /\ frame' = f
  /\ todo' = frameListeners
  /\ UNCHANGED <<channel, outcome, session, answer, registrations, pending, wire>>

(* The listener c has seen the frame.                                      *)
Delivered(c) ==
  /\ todo' = todo \ {c}
  /\ frame' = IF todo = {c} THEN NoFrame ELSE frame

(* Every landing write ends the job.                                       *)
WriteKindSlip(action) == "final"

(* The kind of write an action of the session asks for.                    *)
WriteKind(action) == IF action.final THEN "final" ELSE "plain"

(* onFrame of a job: the session's answer is written, or ends the job.     *)
OnFrame(j) ==
  /\ j \in todo \cap Jobs
  /\ LET r == HandleFrame(session[j], ImageLen[j], frame)
     IN  /\ session' = [session EXCEPT ![j] = r.session]
         /\ \/ /\ r.action.type = "throw"
               /\ Finish({j}, "fault")
               /\ UNCHANGED <<pending, wire>>
            \/ /\ r.action.type = "done"
               /\ Finish({j}, "resolved")
               /\ UNCHANGED <<pending, wire>>
            \/ /\ r.action.type = "send"
               /\ Write(j, r.action.frame, WriteKind(r.action))
               /\ UNCHANGED <<outcome, registrations>>
            \/ /\ r.action.type = "wait"
               /\ UNCHANGED <<outcome, registrations, pending, wire>>
  /\ Delivered(j)
  /\ UNCHANGED <<channel, answer>>

(* A write of a job landed.  Only the final one matters to the job.        *)
WriteLands(j) ==
  /\ Idle
  /\ \E kind \in {"plain", "final"} :
       /\ pending[j][kind] > 0
       /\ pending' = [pending EXCEPT ![j][kind] = @ - 1]
       /\ IF kind = "final"
          THEN Finish({j}, "resolved")
          ELSE UNCHANGED <<outcome, registrations>>
  /\ UNCHANGED <<channel, session, answer, frame, todo, wire>>

(* What a failed write of c leaves on the wire: its frame may have got     *)
(* through or not.                                                         *)
WireAfterFailure(c, kind) ==
  LET isFinal(m) == m.frame.opcode = Command.END_JOB
      failed == {i \in DOMAIN wire : wire[i].by = c /\ kind # "dead"
                                     /\ (isFinal(wire[i]) <=> kind = "final")}
  IN  {wire} \cup {RemoveAt(wire, i) : i \in failed}

(* A write of a job failed, at once or after the channel took it.          *)
WriteFails(j) ==
  /\ Idle
  /\ \E kind \in Kinds :
       /\ pending[j][kind] > 0
       /\ pending' = [pending EXCEPT ![j][kind] = @ - 1]
       /\ wire' \in WireAfterFailure(j, kind)
  /\ Finish({j}, "writeFailed")
  /\ UNCHANGED <<channel, session, answer, frame, todo>>

(* The timer of a job fires.                                               *)
JobTimeout(j) ==
  /\ Idle
  /\ j \in timers
  /\ Finish({j}, "timeout")
  /\ UNCHANGED <<channel, session, answer, frame, todo, pending, wire>>

(* cancel and pollStatus only write a frame; on a channel that is not open *)
(* the caller's promise rejects and nothing else happens.                  *)
CallerWrites(f) ==
  /\ Idle
  /\ channel = "open"
  /\ RoomFor({}, 1)
  /\ WriteAndForget(Caller, f)
  /\ UNCHANGED <<channel, outcome, session, answer, registrations, frame, todo>>

Cancel == CallerWrites(EndJobFrame)
PollStatus == CallerWrites(StatusPollFrame)

-----------------------------------------------------------------------------
(* requestDeviceInfo: there is no check that the channel is open.          *)
RequestDeviceInfo(q) ==
  /\ Idle
  /\ answer[q] = "idle"
  /\ RoomFor({q}, 1)
  /\ answer' = [answer EXCEPT ![q] = "waiting"]
  /\ frameListeners' = frameListeners \cup {q}
  /\ timers' = timers \cup {q}
  /\ Write(q, DeviceInfoRequest, "plain")
  /\ UNCHANGED <<channel, outcome, session, closeListeners, frame, todo>>

(* onFrame of a query: echo a heartbeat, or take the block.  The echo's    *)
(* promise has no catch, so its rejection goes unhandled.                  *)
InfoOnFrame(q) ==
  /\ q \in todo \cap Queries
  /\ \/ /\ frame.opcode = Notification.HEARTBEAT
        /\ WriteAndForget(q, HeartbeatEcho)
        /\ UNCHANGED <<answer, frameListeners, timers>>
     \/ /\ IsDeviceInfo(frame)
        /\ FinishQuery(q, "info")
        /\ UNCHANGED <<pending, wire>>
     \/ /\ frame.opcode # Notification.HEARTBEAT
        /\ ~IsDeviceInfo(frame)
        /\ UNCHANGED <<answer, frameListeners, timers, pending, wire>>
  /\ Delivered(q)
  /\ UNCHANGED <<channel, outcome, session, closeListeners>>

(* The request of a query landed or failed; a failure answers null.        *)
RequestSettles(q) ==
  /\ Idle
  /\ \E kind \in Kinds :
       /\ pending[q][kind] > 0
       /\ pending' = [pending EXCEPT ![q][kind] = @ - 1]
       /\ \/ /\ kind = "plain"
             /\ UNCHANGED <<answer, frameListeners, timers, wire>>
          \/ /\ FinishQuery(q, "null")
             /\ wire' \in WireAfterFailure(q, kind)
  /\ UNCHANGED <<channel, outcome, session, closeListeners, frame, todo>>

InfoTimeout(q) ==
  /\ Idle
  /\ q \in timers
  /\ FinishQuery(q, "null")
  /\ UNCHANGED <<channel, outcome, session, closeListeners, frame, todo, pending, wire>>

-----------------------------------------------------------------------------
(* The transport hands the oldest frame to the printer.                    *)
PrinterTakes ==
  /\ Idle
  /\ wire # <<>>
  /\ wire' = Tail(wire)
  /\ UNCHANGED <<channel, outcome, session, answer, registrations, frame, todo, pending>>

ChannelStep == Connect \/ Disconnect \/ ChannelCloses

JobStep(j) ==
  \/ RefuseJob(j) \/ StartJob(j) \/ OnFrame(j) \/ WriteLands(j)
  \/ WriteFails(j) \/ JobTimeout(j)

QueryStep(q) ==
  RequestDeviceInfo(q) \/ InfoOnFrame(q) \/ RequestSettles(q) \/ InfoTimeout(q)

Next ==
  \/ ChannelStep
  \/ \E j \in Jobs : JobStep(j)
  \/ \E q \in Queries : QueryStep(q)
  \/ \E f \in PrinterFrames : BeginDelivery(f)
  \/ Cancel \/ PollStatus
  \/ PrinterTakes

Spec == Init /\ [][Next]_vars

-----------------------------------------------------------------------------
(* A job is registered with everything exactly while it runs: its frame    *)
(* listener, its close listener and its timer appear and go together, so a *)
(* settled job leaves nothing behind and a running one can always be ended *)
(* by a frame, a close or its timer.  The same for a query.                *)
RegisteredWhileRunning ==
  /\ \A j \in Jobs : /\ outcome[j] = "running" <=> j \in frameListeners
                     /\ outcome[j] = "running" <=> j \in closeListeners
                     /\ outcome[j] = "running" <=> j \in timers
  /\ \A q \in Queries : /\ answer[q] = "waiting" <=> q \in frameListeners
                        /\ answer[q] = "waiting" <=> q \in timers

(* printRaw resolves only after the session saw the printer end the job,   *)
(* whichever of the racing close, timeout, failure or landing came first.  *)
ResolvedOnlyIfFinished ==
  \A j \in Jobs : outcome[j] = "resolved" => session[j].finished

(* A fault the printer reported to a job always becomes the job's outcome: *)
(* no write still in flight, close or timer replaces it.                   *)
FaultIsTheOutcome ==
  \A j \in Jobs : session[j].failed <=> outcome[j] = "fault"

(* Once the channel is closed no call of printRaw is left waiting for it.  *)
ClosedChannelRunsNoJob ==
  channel = "closed" => \A j \in Jobs : outcome[j] # "running"

(* END_JOB leaves the host on behalf of a job only after the printer       *)
(* reported it finished, so no other path of a job cuts its print short.   *)
EndJobOnlyAfterFinished ==
  \A i \in DOMAIN wire :
    wire[i].by \in Jobs /\ wire[i].frame.opcode = Command.END_JOB
      => session[wire[i].by].finished

(* Whatever offset the printer names, a data frame carries a non-empty     *)
(* slice that lies inside the image of the job that sent it.               *)
SlicesInsideImage ==
  \A i \in DOMAIN wire :
    wire[i].frame.opcode \in DataOpcodes =>
      LET slice == wire[i].frame.payload
      IN  slice[1] < slice[2] /\ slice[2] <= ImageLen[wire[i].by]

(* A settled job stays as it is: its outcome and its session do not change *)
(* and it writes no further frame, although its writes may still settle    *)
(* and frames for later jobs keep arriving.                                *)
SettledJobsAreSilent ==
  [][\A j \in Jobs : outcome[j] \in Settled =>
       /\ outcome'[j] = outcome[j]
       /\ session'[j] = session[j]
       /\ Len(wire') > Len(wire) => Last(wire').by # j]_vars

(* What makes the invariants above inductive: a listener that is still to  *)
(* be visited is registered, a call that was never made has a new session, *)
(* and an END_JOB in flight belongs to a job whose end was reported.       *)
GoodMessage ==
  {m \in Message :
     /\ m.by \in Jobs /\ m.frame.opcode = Command.END_JOB => session[m.by].finished
     /\ m.frame.opcode \in DataOpcodes =>
          /\ m.by \in Jobs
          /\ Len(m.frame.payload) = 2
          /\ m.frame.payload[1] < m.frame.payload[2]
          /\ m.frame.payload[2] <= ImageLen[m.by]}

VisitsRegistered == todo \subseteq frameListeners

FreshUntilCalled ==
  \A j \in Jobs : outcome[j] = "idle" => session[j] = NewSession

FinalWritesFollowFinish ==
  \A j \in Jobs : pending[j]["final"] > 0 => session[j].finished

IInv ==
  /\ TypeOK
  /\ VisitsRegistered
  /\ RegisteredWhileRunning
  /\ ResolvedOnlyIfFinished
  /\ FaultIsTheOutcome
  /\ ClosedChannelRunsNoJob
  /\ FreshUntilCalled
  /\ FinalWritesFollowFinish
  /\ wire \in Seq(GoodMessage)

(* The printer's calls keep the promises of JobOutcome.                    *)
JobOutcomes ==
  INSTANCE JobOutcome
    WITH up <- channel # "closed",
         acked <- {j \in Jobs : session[j].finished}

JobOutcomeSpec == JobOutcomes!Spec
=============================================================================
