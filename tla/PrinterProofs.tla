--------------------------- MODULE PrinterProofs ----------------------------
(***************************************************************************)
(* The invariants of Printer for any number of jobs, queries and frames.   *)
(* IInv is inductive; the properties follow from it.  The first section    *)
(* says what the shared operators (Finish, Write) do to it, the second has *)
(* one lemma per action, the third the theorems about Spec.                *)
(***************************************************************************)
EXTENDS Printer, PrintSessionProofs, SequenceTheorems

-----------------------------------------------------------------------------
(* Dropping one frame of the wire leaves a wire of the same kind of frames. *)
LEMMA WireAfterFailureType ==
  ASSUME NEW S, wire \in Seq(S), NEW c, NEW kind,
         NEW w \in WireAfterFailure(c, kind)
  PROVE  w \in Seq(S)
<1>1. CASE w = wire
  BY <1>1
<1>2. CASE \E i \in DOMAIN wire : w = RemoveAt(wire, i)
  <2>1. PICK i \in DOMAIN wire : w = RemoveAt(wire, i)
    BY <1>2
  <2>2. i \in 1 .. Len(wire) /\ Len(wire) \in Nat
    BY LenProperties
  <2>3. SubSeq(wire, 1, i - 1) \in Seq(S)
    <3>1. \A k \in 1 .. (i - 1) : wire[k] \in S
      BY <2>2, ElementOfSeq
    <3> QED
      BY <2>2, <3>1, SubSeqProperties
  <2>4. SubSeq(wire, i + 1, Len(wire)) \in Seq(S)
    <3>1. \A k \in (i + 1) .. Len(wire) : wire[k] \in S
      BY <2>2, ElementOfSeq
    <3> QED
      BY <2>2, <3>1, SubSeqProperties
  <2> QED
    BY <2>1, <2>3, <2>4, ConcatProperties DEF RemoveAt
<1> QED
  BY <1>1, <1>2 DEF WireAfterFailure

(* finish settles the running jobs among js and takes back all they        *)
(* registered; every other job keeps what it has.                          *)
LEMMA FinishEffect ==
  ASSUME TypeOK, RegisteredWhileRunning,
         NEW js \in SUBSET Jobs, NEW result \in Settled,
         Finish(js, result), UNCHANGED answer
  PROVE  /\ outcome' \in [Jobs -> Outcomes]
         /\ \A k \in Jobs :
              outcome'[k] = IF k \in js /\ outcome[k] = "running" THEN result ELSE outcome[k]
         /\ frameListeners' \subseteq Calls
         /\ \A c \in frameListeners : c \notin js => c \in frameListeners'
         /\ closeListeners' \subseteq Jobs
         /\ timers' \subseteq Calls
         /\ RegisteredWhileRunning'
<1> DEFINE live == {k \in js : outcome[k] = "running"}
<1>1. /\ outcome' = [k \in Jobs |-> IF k \in live THEN result ELSE outcome[k]]
      /\ frameListeners' = frameListeners \ live
      /\ closeListeners' = closeListeners \ live
      /\ timers' = timers \ live
  BY DEF Finish
<1>2. result \in Outcomes /\ result # "running"
  BY DEF Outcomes, Settled, Refusals, Failures
<1>3. \A q \in Queries : q \notin live
  BY PrinterAssumption
<1>4. outcome' \in [Jobs -> Outcomes]
  BY <1>1, <1>2 DEF TypeOK
<1>5. RegisteredWhileRunning'
  BY <1>1, <1>2, <1>3 DEF RegisteredWhileRunning, TypeOK
<1> QED
  BY <1>1, <1>2, <1>4, <1>5 DEF TypeOK

(* Sessions only ever become finished, so a frame in flight stays good.    *)
LEMMA GoodMessageMonotone ==
  ASSUME \A j \in Jobs : session[j].finished => session'[j].finished,
         wire \in Seq(GoodMessage)
  PROVE  wire \in Seq(GoodMessage')
<1>1. GoodMessage \subseteq GoodMessage'
  BY DEF GoodMessage, Message
<1> QED
  BY <1>1, SeqMonotonic

(* write counts one more unsettled promise, of the kind asked for or dead, *)
(* and puts the frame on the wire only of an open channel.                 *)
LEMMA WriteEffect ==
  ASSUME TypeOK, wire \in Seq(GoodMessage'),
         NEW c \in Calls, NEW f, [by |-> c, frame |-> f] \in GoodMessage',
         NEW kind \in {"plain", "final"}, Write(c, f, kind)
  PROVE  /\ pending' \in [Calls -> [Kinds -> Nat]]
         /\ \A d \in Calls :
              pending'[d]["final"] > 0
                => pending[d]["final"] > 0 \/ (d = c /\ kind = "final")
         /\ wire' \in Seq(GoodMessage')
<1>1. kind \in Kinds /\ "dead" \in Kinds /\ "final" \in Kinds
  BY DEF Kinds
<1>2. CASE channel = "open"
  <2>1. wire' = Append(wire, [by |-> c, frame |-> f])
        /\ pending' = [pending EXCEPT ![c][kind] = @ + 1]
    BY <1>2 DEF Write
  <2>2. wire' \in Seq(GoodMessage')
    BY <2>1, AppendProperties
  <2> QED
    BY <1>1, <2>1, <2>2 DEF TypeOK
<1>3. CASE channel # "open"
  <2>1. wire' = wire /\ pending' = [pending EXCEPT ![c]["dead"] = @ + 1]
    BY <1>3 DEF Write
  <2> QED
    BY <1>1, <2>1 DEF TypeOK
<1> QED
  BY <1>2, <1>3
-----------------------------------------------------------------------------
(* Nothing is registered, nothing is in flight at the start.               *)
LEMMA InitEstablishes == Init => IInv
<1> SUFFICES ASSUME Init PROVE IInv
  OBVIOUS
<1>1. NoFrame \in PrinterFrame
  BY DEF NoFrame, PrinterFrame, Byte
<1>2. NewSession \in Session /\ ~NewSession.failed /\ ~NewSession.finished
  BY DEF NewSession, Session
<1>3. TypeOK
  BY <1>1, <1>2 DEF Init, TypeOK, Outcomes, Answers, Kinds
<1>4. RegisteredWhileRunning /\ VisitsRegistered /\ ResolvedOnlyIfFinished
      /\ FaultIsTheOutcome /\ ClosedChannelRunsNoJob
  BY <1>2 DEF Init, RegisteredWhileRunning, VisitsRegistered,
     ResolvedOnlyIfFinished, FaultIsTheOutcome, ClosedChannelRunsNoJob
<1>5. FreshUntilCalled /\ FinalWritesFollowFinish
  BY DEF Init, FreshUntilCalled, FinalWritesFollowFinish, Calls, Kinds
<1>6. wire \in Seq(GoodMessage)
  BY EmptySeq DEF Init
<1> QED
  BY <1>3, <1>4, <1>5, <1>6 DEF IInv

(* The invariant speaks of nothing that a stuttering step changes.         *)
LEMMA StutterPreserves ==
  ASSUME IInv, UNCHANGED vars
  PROVE  IInv'
<1>1. GoodMessage' = GoodMessage
  BY DEF vars, GoodMessage
<1> QED
  BY <1>1 DEF IInv, vars, registrations, TypeOK, VisitsRegistered,
     RegisteredWhileRunning, ResolvedOnlyIfFinished, FaultIsTheOutcome,
     ClosedChannelRunsNoJob, FreshUntilCalled, FinalWritesFollowFinish

(* Opening the channel, or starting to close it, touches no call.          *)
LEMMA ChannelMovePreserves ==
  ASSUME IInv, Connect \/ Disconnect
  PROVE  IInv'
<1>1. GoodMessage' = GoodMessage
  BY DEF Connect, Disconnect, GoodMessage
<1> QED
  BY <1>1 DEF IInv, Connect, Disconnect, registrations, TypeOK, VisitsRegistered,
     RegisteredWhileRunning, ResolvedOnlyIfFinished, FaultIsTheOutcome,
     ClosedChannelRunsNoJob, FreshUntilCalled, FinalWritesFollowFinish

(* A close rejects every job that runs, since each has its close listener. *)
LEMMA ChannelClosesPreserves ==
  ASSUME IInv, ChannelCloses
  PROVE  IInv'
<1> USE DEF IInv
<1>1. Finish(closeListeners, "closed") /\ closeListeners \in SUBSET Jobs
      /\ "closed" \in Settled /\ UNCHANGED <<session, answer, frame, todo, pending>>
      /\ channel' = "closed" /\ wire' = <<>> /\ todo = {}
  BY DEF ChannelCloses, Idle, TypeOK, Settled, Failures
<1>2. /\ outcome' \in [Jobs -> Outcomes]
      /\ \A k \in Jobs :
           outcome'[k] = IF k \in closeListeners /\ outcome[k] = "running"
                         THEN "closed" ELSE outcome[k]
      /\ frameListeners' \subseteq Calls
      /\ closeListeners' \subseteq Jobs
      /\ timers' \subseteq Calls
      /\ RegisteredWhileRunning'
  BY <1>1, FinishEffect
<1>3. TypeOK'
  BY <1>1, <1>2 DEF TypeOK
<1>4. \A k \in Jobs : outcome'[k] # "running"
  BY <1>2 DEF RegisteredWhileRunning
<1>5. wire' \in Seq(GoodMessage')
  BY <1>1, EmptySeq
<1> QED
  BY <1>1, <1>2, <1>3, <1>4, <1>5
     DEF VisitsRegistered, ResolvedOnlyIfFinished, FaultIsTheOutcome,
         ClosedChannelRunsNoJob, FreshUntilCalled, FinalWritesFollowFinish

(* A refused call settles without ever having run.                         *)
LEMMA RefuseJobPreserves ==
  ASSUME IInv, NEW j \in Jobs, RefuseJob(j)
  PROVE  IInv'
<1> USE DEF IInv
<1>1. PICK why \in Refusals : outcome' = [outcome EXCEPT ![j] = why]
  BY DEF RefuseJob, Refusals
<1>2. outcome[j] = "idle" /\ why \in Outcomes
      /\ why \notin {"idle", "running", "resolved", "fault"}
  BY DEF RefuseJob, Outcomes, Settled, Refusals
<1>3. UNCHANGED <<channel, session, answer, registrations, frame, todo, pending, wire>>
  BY DEF RefuseJob
<1>4. GoodMessage' = GoodMessage
  BY <1>3 DEF GoodMessage
<1>5. TypeOK'
  BY <1>1, <1>2, <1>3 DEF TypeOK, registrations
<1>6. RegisteredWhileRunning'
  BY <1>1, <1>2, <1>3 DEF RegisteredWhileRunning, TypeOK, registrations
<1> QED
  BY <1>1, <1>2, <1>3, <1>4, <1>5, <1>6
     DEF TypeOK, registrations, VisitsRegistered, ResolvedOnlyIfFinished,
         FaultIsTheOutcome, ClosedChannelRunsNoJob, FreshUntilCalled,
         FinalWritesFollowFinish

(* A job starts with everything registered and with a session that is new. *)
LEMMA StartJobPreserves ==
  ASSUME IInv, NEW j \in Jobs, StartJob(j)
  PROVE  IInv'
<1> USE DEF IInv
<1>1. /\ outcome[j] = "idle" /\ channel = "open"
      /\ outcome' = [outcome EXCEPT ![j] = "running"]
      /\ session' = [session EXCEPT ![j] = NewSession]
      /\ frameListeners' = frameListeners \cup {j}
      /\ closeListeners' = closeListeners \cup {j}
      /\ timers' = timers \cup {j}
      /\ Write(j, StartFrame, "plain")
      /\ UNCHANGED <<channel, answer, frame, todo>>
  BY DEF StartJob, IsOpen
<1>2. session' = session
  BY <1>1 DEF FreshUntilCalled, TypeOK
<1>3. wire \in Seq(GoodMessage')
  BY <1>2, GoodMessageMonotone
<1>4. [by |-> j, frame |-> StartFrame] \in GoodMessage'
  <2>1. StartFrame \in HostFrame /\ StartFrame.opcode = Command.SESSION_START
    BY FixedFrames DEF StartFrame, HostFrameOf
  <2> QED
    BY <2>1 DEF GoodMessage, Message, Calls, Command, DataOpcodes
<1>5. /\ pending' \in [Calls -> [Kinds -> Nat]]
      /\ \A d \in Calls : pending'[d]["final"] > 0 => pending[d]["final"] > 0
      /\ wire' \in Seq(GoodMessage')
  BY <1>1, <1>3, <1>4, WriteEffect DEF Calls
<1>6. TypeOK'
  <2>1. wire' \in Seq(Message)
    BY <1>5, SeqMonotonic DEF GoodMessage
  <2> QED
    BY <1>1, <1>2, <1>5, <2>1 DEF TypeOK, Outcomes, Calls
<1>7. RegisteredWhileRunning'
  BY <1>1, PrinterAssumption DEF RegisteredWhileRunning, TypeOK
<1>8. VisitsRegistered' /\ ClosedChannelRunsNoJob'
  BY <1>1 DEF VisitsRegistered, ClosedChannelRunsNoJob
<1>9. ResolvedOnlyIfFinished' /\ FaultIsTheOutcome' /\ FreshUntilCalled'
  BY <1>1, <1>2 DEF ResolvedOnlyIfFinished, FaultIsTheOutcome, FreshUntilCalled,
     TypeOK, NewSession
<1>10. FinalWritesFollowFinish'
  BY <1>2, <1>5 DEF FinalWritesFollowFinish, Calls
<1> QED
  BY <1>5, <1>6, <1>7, <1>8, <1>9, <1>10

(* A delivery visits the calls that are registered at that moment.         *)
LEMMA BeginDeliveryPreserves ==
  ASSUME IInv, NEW f \in PrinterFrame, BeginDelivery(f)
  PROVE  IInv'
<1>1. GoodMessage' = GoodMessage
  BY DEF BeginDelivery, GoodMessage
<1> QED
  BY <1>1
     DEF IInv, BeginDelivery, registrations, TypeOK, VisitsRegistered,
     RegisteredWhileRunning, ResolvedOnlyIfFinished, FaultIsTheOutcome,
     ClosedChannelRunsNoJob, FreshUntilCalled, FinalWritesFollowFinish

(* onFrame of a job: by HandleFrameCorrect the session is failed exactly   *)
(* when it threw, and finished before anything can end the job well.       *)
LEMMA OnFramePreserves ==
  ASSUME IInv, NEW j \in Jobs, OnFrame(j)
  PROVE  IInv'
<1> USE DEF IInv
<1> DEFINE r == HandleFrame(session[j], ImageLen[j], frame)
<1>1. /\ session[j] \in Session /\ ImageLen[j] \in Nat /\ frame \in PrinterFrame
      /\ j \in todo /\ j \in frameListeners /\ outcome[j] = "running"
      /\ ~session[j].failed
  BY PrinterAssumption DEF OnFrame, TypeOK, VisitsRegistered, RegisteredWhileRunning,
     FaultIsTheOutcome
<1>2. /\ r.session \in Session
      /\ r.action \in Action
      /\ r.session.failed = (r.action.type = "throw")
      /\ session[j].finished => r.session.finished
      /\ r.action.type = "done" => r.session.finished
      /\ r.action.type = "send" =>
           /\ r.action.final => r.session.finished
           /\ r.action.frame.opcode = Command.END_JOB => r.session.finished
           /\ r.action.frame.opcode \in DataOpcodes =>
                /\ Len(r.action.frame.payload) = 2
                /\ r.action.frame.payload[1] < r.action.frame.payload[2]
                /\ r.action.frame.payload[2] <= ImageLen[j]
  BY <1>1, HandleFrameCorrect
<1> HIDE DEF r
<1>3. /\ session' = [session EXCEPT ![j] = r.session]
      /\ todo' = todo \ {j}
      /\ frame' = IF todo = {j} THEN NoFrame ELSE frame
      /\ UNCHANGED <<channel, answer>>
  BY DEF OnFrame, Delivered, r
<1>4. /\ session' \in [Jobs -> Session]
      /\ session'[j] = r.session
      /\ \A k \in Jobs \ {j} : session'[k] = session[k]
      /\ \A k \in Jobs : session[k].finished => session'[k].finished
  BY <1>1, <1>2, <1>3 DEF TypeOK
<1>5. wire \in Seq(GoodMessage')
  BY <1>4, GoodMessageMonotone
<1>6. frame' \in PrinterFrame /\ todo' \subseteq Calls
  BY <1>3 DEF TypeOK, NoFrame, PrinterFrame, Byte
<1>7. CASE \/ r.action.type = "throw" /\ Finish({j}, "fault") /\ UNCHANGED <<pending, wire>>
           \/ r.action.type = "done" /\ Finish({j}, "resolved") /\ UNCHANGED <<pending, wire>>
  <2>1. PICK result \in {"fault", "resolved"} :
             /\ Finish({j}, result)
             /\ result = "fault" <=> r.action.type = "throw"
             /\ result = "resolved" => r.session.finished
             /\ UNCHANGED <<pending, wire>>
    BY <1>2, <1>7
  <2>2. {j} \in SUBSET Jobs /\ result \in Settled
    BY DEF Settled, Failures
  <2>3. /\ outcome' \in [Jobs -> Outcomes]
        /\ \A k \in Jobs :
             outcome'[k] = IF k \in {j} /\ outcome[k] = "running" THEN result ELSE outcome[k]
        /\ frameListeners' \subseteq Calls
        /\ \A c \in frameListeners : c \notin {j} => c \in frameListeners'
        /\ closeListeners' \subseteq Jobs
        /\ timers' \subseteq Calls
        /\ RegisteredWhileRunning'
    BY <1>3, <2>1, <2>2, FinishEffect
  <2>4. outcome'[j] = result /\ \A k \in Jobs \ {j} : outcome'[k] = outcome[k]
    BY <1>1, <2>3
  <2>5. TypeOK'
    BY <1>3, <1>4, <1>6, <2>1, <2>3 DEF TypeOK
  <2>6. VisitsRegistered'
    BY <1>3, <2>3 DEF VisitsRegistered
  <2>7. ResolvedOnlyIfFinished' /\ FinalWritesFollowFinish'
    BY <1>4, <2>1, <2>4 DEF ResolvedOnlyIfFinished, FinalWritesFollowFinish
  <2>8. FaultIsTheOutcome'
    BY <1>2, <1>4, <2>1, <2>4 DEF FaultIsTheOutcome
  <2>9. ClosedChannelRunsNoJob' /\ FreshUntilCalled'
    BY <1>3, <1>4, <2>2, <2>4 DEF ClosedChannelRunsNoJob, FreshUntilCalled, Settled
  <2>10. wire' \in Seq(GoodMessage')
    BY <1>5, <2>1
  <2> QED
    BY <2>3, <2>5, <2>6, <2>7, <2>8, <2>9, <2>10
<1>8. CASE /\ r.action.type = "send"
           /\ Write(j, r.action.frame, WriteKind(r.action))
           /\ UNCHANGED <<outcome, registrations>>
  <2>1. r.action.frame \in HostFrame /\ r.action.final \in BOOLEAN
    BY <1>2, <1>8 DEF Action
  <2>2. [by |-> j, frame |-> r.action.frame] \in GoodMessage'
    BY <1>2, <1>4, <1>8, <2>1 DEF GoodMessage, Message, Calls
  <2>3. WriteKind(r.action) \in {"plain", "final"}
        /\ (WriteKind(r.action) = "final" => r.action.final)
    BY DEF WriteKind
  <2>4. /\ pending' \in [Calls -> [Kinds -> Nat]]
        /\ \A d \in Calls :
             pending'[d]["final"] > 0
               => pending[d]["final"] > 0 \/ (d = j /\ WriteKind(r.action) = "final")
        /\ wire' \in Seq(GoodMessage')
    BY <1>5, <1>8, <2>2, <2>3, WriteEffect DEF Calls
  <2>5. TypeOK'
    <3>1. wire' \in Seq(Message)
      BY <2>4, SeqMonotonic DEF GoodMessage
    <3> QED
      BY <1>3, <1>4, <1>6, <1>8, <2>4, <3>1 DEF TypeOK, registrations
  <2>6. VisitsRegistered' /\ RegisteredWhileRunning'
    BY <1>3, <1>8 DEF VisitsRegistered, RegisteredWhileRunning, registrations
  <2>7. FinalWritesFollowFinish'
    BY <1>2, <1>4, <1>8, <2>3, <2>4 DEF FinalWritesFollowFinish, Calls
  <2>8. ResolvedOnlyIfFinished'
    BY <1>4, <1>8 DEF ResolvedOnlyIfFinished
  <2>9. FaultIsTheOutcome'
    BY <1>1, <1>2, <1>4, <1>8 DEF FaultIsTheOutcome
  <2>10. ClosedChannelRunsNoJob' /\ FreshUntilCalled'
    BY <1>1, <1>3, <1>4, <1>8 DEF ClosedChannelRunsNoJob, FreshUntilCalled
  <2> QED
    BY <2>4, <2>5, <2>6, <2>7, <2>8, <2>9, <2>10
<1>9. CASE /\ r.action.type = "wait"
           /\ UNCHANGED <<outcome, registrations, pending, wire>>
  <2>1. TypeOK'
    BY <1>3, <1>4, <1>6, <1>9 DEF TypeOK, registrations
  <2>2. VisitsRegistered' /\ RegisteredWhileRunning'
    BY <1>3, <1>9 DEF VisitsRegistered, RegisteredWhileRunning, registrations
  <2>3. ResolvedOnlyIfFinished' /\ FinalWritesFollowFinish'
    BY <1>4, <1>9 DEF ResolvedOnlyIfFinished, FinalWritesFollowFinish
  <2>4. FaultIsTheOutcome'
    BY <1>1, <1>2, <1>4, <1>9 DEF FaultIsTheOutcome
  <2>5. ClosedChannelRunsNoJob' /\ FreshUntilCalled'
    BY <1>1, <1>3, <1>4, <1>9 DEF ClosedChannelRunsNoJob, FreshUntilCalled
  <2> QED
    BY <1>5, <1>9, <2>1, <2>2, <2>3, <2>4, <2>5
<1> QED
  BY <1>7, <1>8, <1>9 DEF OnFrame, r

(* A landed write ends a job only if it was the final one, which was       *)
(* issued after the printer reported the end.                              *)
LEMMA WriteLandsPreserves ==
  ASSUME IInv, NEW j \in Jobs, WriteLands(j)
  PROVE  IInv'
<1> USE DEF IInv
<1>1. PICK kind \in {"plain", "final"} :
           /\ pending[j][kind] > 0
           /\ pending' = [pending EXCEPT ![j][kind] = @ - 1]
           /\ IF kind = "final" THEN Finish({j}, "resolved")
                                ELSE UNCHANGED <<outcome, registrations>>
  BY DEF WriteLands
<1>2. todo = {} /\ UNCHANGED <<channel, session, answer, frame, todo, wire>>
  BY DEF WriteLands, Idle
<1>3. GoodMessage' = GoodMessage
  BY <1>2 DEF GoodMessage
<1>4. /\ pending' \in [Calls -> [Kinds -> Nat]]
      /\ \A d \in Calls : pending'[d]["final"] > 0 => pending[d]["final"] > 0
  BY <1>1 DEF TypeOK, Calls, Kinds
<1>5. FinalWritesFollowFinish'
  BY <1>2, <1>4 DEF FinalWritesFollowFinish, Calls
<1>6. CASE kind = "final"
  <2>1. {j} \in SUBSET Jobs /\ "resolved" \in Settled
    BY DEF Settled
  <2>2. /\ outcome' \in [Jobs -> Outcomes]
        /\ \A k \in Jobs :
             outcome'[k] = IF k \in {j} /\ outcome[k] = "running"
                           THEN "resolved" ELSE outcome[k]
        /\ frameListeners' \subseteq Calls
        /\ closeListeners' \subseteq Jobs
        /\ timers' \subseteq Calls
        /\ RegisteredWhileRunning'
    BY <1>1, <1>2, <1>6, <2>1, FinishEffect
  <2>3. session[j].finished
    BY <1>1, <1>6 DEF FinalWritesFollowFinish
  <2>4. TypeOK'
    BY <1>2, <1>4, <2>2 DEF TypeOK
  <2>5. ResolvedOnlyIfFinished' /\ FaultIsTheOutcome'
    BY <1>2, <2>2, <2>3 DEF ResolvedOnlyIfFinished, FaultIsTheOutcome
  <2>6. VisitsRegistered' /\ ClosedChannelRunsNoJob' /\ FreshUntilCalled'
    BY <1>2, <2>2 DEF VisitsRegistered, ClosedChannelRunsNoJob, FreshUntilCalled
  <2> QED
    BY <1>2, <1>3, <1>5, <2>2, <2>4, <2>5, <2>6
<1>7. CASE kind = "plain"
  BY <1>1, <1>2, <1>3, <1>4, <1>5, <1>7
     DEF TypeOK, registrations, VisitsRegistered, RegisteredWhileRunning,
         ResolvedOnlyIfFinished, FaultIsTheOutcome, ClosedChannelRunsNoJob,
         FreshUntilCalled
<1> QED
  BY <1>6, <1>7

(* A failure of a running job that leaves sessions alone: a failed write   *)
(* or the timer.                                                           *)
LEMMA FailurePreserves ==
  ASSUME IInv, NEW j \in Jobs, NEW result \in Failures \ {"fault"},
         Finish({j}, result), todo = {},
         UNCHANGED <<channel, session, answer, frame, todo>>,
         pending' \in [Calls -> [Kinds -> Nat]],
         \A d \in Calls : pending'[d]["final"] > 0 => pending[d]["final"] > 0,
         wire' \in Seq(GoodMessage)
  PROVE  IInv'
<1> USE DEF IInv
<1>1. {j} \in SUBSET Jobs /\ result \in Settled
      /\ result \notin {"idle", "running", "resolved", "fault"}
  BY DEF Settled, Failures
<1>2. /\ outcome' \in [Jobs -> Outcomes]
      /\ \A k \in Jobs :
           outcome'[k] = IF k \in {j} /\ outcome[k] = "running" THEN result ELSE outcome[k]
      /\ frameListeners' \subseteq Calls
      /\ closeListeners' \subseteq Jobs
      /\ timers' \subseteq Calls
      /\ RegisteredWhileRunning'
  BY <1>1, FinishEffect
<1>3. GoodMessage' = GoodMessage
  BY DEF GoodMessage
<1>4. TypeOK'
  <2>1. wire' \in Seq(Message)
    BY SeqMonotonic DEF GoodMessage
  <2> QED
    BY <1>2, <2>1 DEF TypeOK
<1>5. ResolvedOnlyIfFinished' /\ FaultIsTheOutcome'
  BY <1>1, <1>2 DEF ResolvedOnlyIfFinished, FaultIsTheOutcome
<1>6. VisitsRegistered' /\ ClosedChannelRunsNoJob' /\ FreshUntilCalled'
  BY <1>1, <1>2 DEF VisitsRegistered, ClosedChannelRunsNoJob, FreshUntilCalled
<1>7. FinalWritesFollowFinish'
  BY DEF FinalWritesFollowFinish, Calls
<1> QED
  BY <1>2, <1>3, <1>4, <1>5, <1>6, <1>7

LEMMA WriteFailsPreserves ==
  ASSUME IInv, NEW j \in Jobs, WriteFails(j)
  PROVE  IInv'
<1>1. PICK kind \in Kinds :
           /\ pending[j][kind] > 0
           /\ pending' = [pending EXCEPT ![j][kind] = @ - 1]
           /\ wire' \in WireAfterFailure(j, kind)
  BY DEF WriteFails
<1>2. /\ pending' \in [Calls -> [Kinds -> Nat]]
      /\ \A d \in Calls : pending'[d]["final"] > 0 => pending[d]["final"] > 0
  BY <1>1 DEF IInv, TypeOK, Calls, Kinds
<1>3. wire' \in Seq(GoodMessage)
  BY <1>1, WireAfterFailureType DEF IInv
<1>4. "writeFailed" \in Failures \ {"fault"}
  BY DEF Failures
<1> QED
  BY <1>2, <1>3, <1>4, FailurePreserves DEF WriteFails, Idle

LEMMA JobTimeoutPreserves ==
  ASSUME IInv, NEW j \in Jobs, JobTimeout(j)
  PROVE  IInv'
<1>1. "timeout" \in Failures \ {"fault"}
  BY DEF Failures
<1> QED
  BY <1>1, FailurePreserves DEF JobTimeout, Idle, IInv, TypeOK

-----------------------------------------------------------------------------
(* The parts of IInv about jobs hold after a step that keeps their state.  *)
LEMMA JobsUntouched ==
  ASSUME IInv, UNCHANGED <<channel, outcome, session, closeListeners>>,
         \A d \in Calls : pending'[d]["final"] > 0 => pending[d]["final"] > 0
  PROVE  /\ ResolvedOnlyIfFinished' /\ FaultIsTheOutcome' /\ ClosedChannelRunsNoJob'
         /\ FreshUntilCalled' /\ FinalWritesFollowFinish'
         /\ GoodMessage' = GoodMessage
  BY DEF IInv, ResolvedOnlyIfFinished, FaultIsTheOutcome, ClosedChannelRunsNoJob,
     FreshUntilCalled, FinalWritesFollowFinish, Calls, GoodMessage

(* cancel and pollStatus send a frame in nobody's name.                    *)
LEMMA CallerWritesPreserves ==
  ASSUME IInv, NEW f \in HostFrame, f.opcode \notin DataOpcodes, CallerWrites(f)
  PROVE  IInv'
<1> USE DEF IInv
<1>1. UNCHANGED <<channel, outcome, session, answer, registrations, frame, todo, pending>>
      /\ wire' = Append(wire, [by |-> Caller, frame |-> f])
  BY DEF CallerWrites, WriteAndForget
<1>2. /\ ResolvedOnlyIfFinished' /\ FaultIsTheOutcome' /\ ClosedChannelRunsNoJob'
      /\ FreshUntilCalled' /\ FinalWritesFollowFinish' /\ GoodMessage' = GoodMessage
  BY <1>1, JobsUntouched DEF registrations
<1>3. [by |-> Caller, frame |-> f] \in GoodMessage
  BY PrinterAssumption DEF GoodMessage, Message, Calls
<1>4. wire' \in Seq(GoodMessage)
  BY <1>1, <1>3, AppendProperties
<1>5. TypeOK'
  <2>1. wire' \in Seq(Message)
    BY <1>4, SeqMonotonic DEF GoodMessage
  <2> QED
    BY <1>1, <2>1 DEF TypeOK, registrations
<1> QED
  BY <1>1, <1>2, <1>4, <1>5 DEF VisitsRegistered, RegisteredWhileRunning, registrations

(* The printer takes the oldest frame.                                     *)
LEMMA PrinterTakesPreserves ==
  ASSUME IInv, PrinterTakes
  PROVE  IInv'
<1> USE DEF IInv
<1>1. UNCHANGED <<channel, outcome, session, answer, registrations, frame, todo, pending>>
      /\ wire' \in Seq(GoodMessage)
  BY HeadTailProperties DEF PrinterTakes
<1>2. /\ ResolvedOnlyIfFinished' /\ FaultIsTheOutcome' /\ ClosedChannelRunsNoJob'
      /\ FreshUntilCalled' /\ FinalWritesFollowFinish' /\ GoodMessage' = GoodMessage
  BY <1>1, JobsUntouched DEF registrations
<1>3. TypeOK'
  <2>1. wire' \in Seq(Message)
    BY <1>1, SeqMonotonic DEF GoodMessage
  <2> QED
    BY <1>1, <2>1 DEF TypeOK, registrations
<1> QED
  BY <1>1, <1>2, <1>3 DEF VisitsRegistered, RegisteredWhileRunning, registrations

(* The end of a query takes back its registrations and no one else's.      *)
LEMMA FinishQueryEffect ==
  ASSUME TypeOK, RegisteredWhileRunning, NEW q \in Queries,
         NEW result \in {"info", "null"}, FinishQuery(q, result),
         UNCHANGED <<outcome, closeListeners>>
  PROVE  /\ answer' \in [Queries -> Answers]
         /\ frameListeners' = frameListeners \ {q}
         /\ timers' = timers \ {q}
         /\ RegisteredWhileRunning'
<1>1. \A j \in Jobs : j # q
  BY PrinterAssumption
<1>2. answer' = [answer EXCEPT ![q] = IF @ = "waiting" THEN result ELSE @]
      /\ frameListeners' = frameListeners \ {q} /\ timers' = timers \ {q}
  BY DEF FinishQuery
<1>3. answer' \in [Queries -> Answers]
  BY <1>2 DEF TypeOK, Answers
<1>4. \A p \in Queries : (answer'[p] = "waiting") <=> (answer[p] = "waiting" /\ p # q)
  BY <1>2 DEF TypeOK
<1> QED
  BY <1>1, <1>2, <1>3, <1>4 DEF RegisteredWhileRunning

LEMMA RequestDeviceInfoPreserves ==
  ASSUME IInv, NEW q \in Queries, RequestDeviceInfo(q)
  PROVE  IInv'
<1> USE DEF IInv
<1>1. /\ answer' = [answer EXCEPT ![q] = "waiting"]
      /\ frameListeners' = frameListeners \cup {q}
      /\ timers' = timers \cup {q}
      /\ Write(q, DeviceInfoRequest, "plain")
      /\ UNCHANGED <<channel, outcome, session, closeListeners, frame, todo>>
  BY DEF RequestDeviceInfo
<1>2. GoodMessage' = GoodMessage
  BY <1>1 DEF GoodMessage
<1>3. [by |-> q, frame |-> DeviceInfoRequest] \in GoodMessage
  <2>1. DeviceInfoRequest \in HostFrame /\ DeviceInfoRequest.opcode = Command.DEVICE_INFO
    BY FixedFrames DEF DeviceInfoRequest, HostFrameOf
  <2> QED
    BY <2>1 DEF GoodMessage, Message, Calls, Command, DataOpcodes
<1>4. /\ pending' \in [Calls -> [Kinds -> Nat]]
      /\ \A d \in Calls : pending'[d]["final"] > 0 => pending[d]["final"] > 0
      /\ wire' \in Seq(GoodMessage)
  BY <1>1, <1>2, <1>3, WriteEffect DEF Calls
<1>5. /\ ResolvedOnlyIfFinished' /\ FaultIsTheOutcome' /\ ClosedChannelRunsNoJob'
      /\ FreshUntilCalled' /\ FinalWritesFollowFinish'
  BY <1>1, <1>4, JobsUntouched
<1>6. TypeOK'
  <2>1. wire' \in Seq(Message)
    BY <1>4, SeqMonotonic DEF GoodMessage
  <2> QED
    BY <1>1, <1>4, <2>1 DEF TypeOK, Answers, Calls
<1>7. RegisteredWhileRunning' /\ VisitsRegistered'
  BY <1>1, PrinterAssumption DEF RegisteredWhileRunning, VisitsRegistered, TypeOK
<1> QED
  BY <1>2, <1>4, <1>5, <1>6, <1>7

LEMMA InfoOnFramePreserves ==
  ASSUME IInv, NEW q \in Queries, InfoOnFrame(q)
  PROVE  IInv'
<1> USE DEF IInv
<1>1. /\ q \in todo /\ todo' = todo \ {q}
      /\ frame' = IF todo = {q} THEN NoFrame ELSE frame
      /\ UNCHANGED <<channel, outcome, session, closeListeners, pending>>
  BY DEF InfoOnFrame, Delivered, WriteAndForget
<1>2. frame' \in PrinterFrame /\ todo' \subseteq Calls
  BY <1>1 DEF TypeOK, NoFrame, PrinterFrame, Byte
<1>3. /\ ResolvedOnlyIfFinished' /\ FaultIsTheOutcome' /\ ClosedChannelRunsNoJob'
      /\ FreshUntilCalled' /\ FinalWritesFollowFinish' /\ GoodMessage' = GoodMessage
  BY <1>1, JobsUntouched
<1>4. [by |-> q, frame |-> HeartbeatEcho] \in GoodMessage
  <2>1. HeartbeatEcho \in HostFrame /\ HeartbeatEcho.opcode = Command.HEARTBEAT
    BY FixedFrames DEF HeartbeatEcho, HostFrameOf
  <2> QED
    BY <2>1 DEF GoodMessage, Message, Calls, Command, DataOpcodes
<1>5. wire' \in Seq(GoodMessage)
  BY <1>4, AppendProperties DEF InfoOnFrame, WriteAndForget
<1>6. /\ answer' \in [Queries -> Answers] /\ RegisteredWhileRunning'
      /\ frameListeners' \in {frameListeners, frameListeners \ {q}}
      /\ timers' \in {timers, timers \ {q}}
  <2>1. CASE FinishQuery(q, "info")
    BY <1>1, <2>1, FinishQueryEffect
  <2>2. CASE UNCHANGED <<answer, frameListeners, timers>>
    BY <1>1, <2>2 DEF RegisteredWhileRunning, TypeOK
  <2> QED
    BY <2>1, <2>2 DEF InfoOnFrame
<1>7. TypeOK'
  <2>1. wire' \in Seq(Message)
    BY <1>5, SeqMonotonic DEF GoodMessage
  <2> QED
    BY <1>1, <1>2, <1>6, <2>1 DEF TypeOK
<1>8. VisitsRegistered'
  BY <1>1, <1>6 DEF VisitsRegistered
<1> QED
  BY <1>3, <1>5, <1>6, <1>7, <1>8

LEMMA RequestSettlesPreserves ==
  ASSUME IInv, NEW q \in Queries, RequestSettles(q)
  PROVE  IInv'
<1> USE DEF IInv
<1>1. todo = {} /\ UNCHANGED <<channel, outcome, session, closeListeners, frame, todo>>
  BY DEF RequestSettles, Idle
<1>2. PICK kind \in Kinds :
           /\ pending[q][kind] > 0
           /\ pending' = [pending EXCEPT ![q][kind] = @ - 1]
           /\ \/ UNCHANGED <<answer, frameListeners, timers, wire>>
              \/ FinishQuery(q, "null") /\ wire' \in WireAfterFailure(q, kind)
  BY DEF RequestSettles
<1>3. /\ pending' \in [Calls -> [Kinds -> Nat]]
      /\ \A d \in Calls : pending'[d]["final"] > 0 => pending[d]["final"] > 0
  BY <1>2 DEF TypeOK, Calls, Kinds
<1>4. /\ ResolvedOnlyIfFinished' /\ FaultIsTheOutcome' /\ ClosedChannelRunsNoJob'
      /\ FreshUntilCalled' /\ FinalWritesFollowFinish' /\ GoodMessage' = GoodMessage
  BY <1>1, <1>3, JobsUntouched
<1>5. wire' \in Seq(GoodMessage)
  BY <1>2, WireAfterFailureType
<1>6. /\ answer' \in [Queries -> Answers] /\ RegisteredWhileRunning'
      /\ frameListeners' \subseteq Calls /\ timers' \subseteq Calls
  <2>1. CASE FinishQuery(q, "null")
    BY <1>1, <2>1, FinishQueryEffect DEF TypeOK
  <2>2. CASE UNCHANGED <<answer, frameListeners, timers>>
    BY <1>1, <2>2 DEF RegisteredWhileRunning, TypeOK
  <2> QED
    BY <1>2, <2>1, <2>2
<1>7. TypeOK'
  <2>1. wire' \in Seq(Message)
    BY <1>5, SeqMonotonic DEF GoodMessage
  <2> QED
    BY <1>1, <1>3, <1>6, <2>1 DEF TypeOK
<1> QED
  BY <1>1, <1>4, <1>5, <1>6, <1>7 DEF VisitsRegistered

LEMMA InfoTimeoutPreserves ==
  ASSUME IInv, NEW q \in Queries, InfoTimeout(q)
  PROVE  IInv'
<1> USE DEF IInv
<1>1. todo = {} /\ FinishQuery(q, "null")
      /\ UNCHANGED <<channel, outcome, session, closeListeners, frame, todo, pending, wire>>
  BY DEF InfoTimeout, Idle
<1>2. /\ ResolvedOnlyIfFinished' /\ FaultIsTheOutcome' /\ ClosedChannelRunsNoJob'
      /\ FreshUntilCalled' /\ FinalWritesFollowFinish' /\ GoodMessage' = GoodMessage
  BY <1>1, JobsUntouched
<1>3. /\ answer' \in [Queries -> Answers] /\ RegisteredWhileRunning'
      /\ frameListeners' = frameListeners \ {q} /\ timers' = timers \ {q}
  BY <1>1, FinishQueryEffect
<1> QED
  BY <1>1, <1>2, <1>3 DEF TypeOK, VisitsRegistered

-----------------------------------------------------------------------------
(* IInv is inductive.                                                      *)
LEMMA StepPreserves == IInv /\ [Next]_vars => IInv'
<1> SUFFICES ASSUME IInv, [Next]_vars PROVE IInv'
  OBVIOUS
<1>1. CASE UNCHANGED vars
  BY <1>1, StutterPreserves
<1>2. CASE ChannelStep
  BY <1>2, ChannelMovePreserves, ChannelClosesPreserves DEF ChannelStep
<1>3. ASSUME NEW j \in Jobs, JobStep(j) PROVE IInv'
  BY <1>3, RefuseJobPreserves, StartJobPreserves, OnFramePreserves,
     WriteLandsPreserves, WriteFailsPreserves, JobTimeoutPreserves DEF JobStep
<1>4. ASSUME NEW q \in Queries, QueryStep(q) PROVE IInv'
  BY <1>4, RequestDeviceInfoPreserves, InfoOnFramePreserves,
     RequestSettlesPreserves, InfoTimeoutPreserves DEF QueryStep
<1>5. ASSUME NEW f \in PrinterFrames, BeginDelivery(f) PROVE IInv'
  BY <1>5, BeginDeliveryPreserves, PrinterAssumption
<1>6. CASE Cancel \/ PollStatus
  <2>1. EndJobFrame \in HostFrame /\ EndJobFrame.opcode \notin DataOpcodes
    BY FixedFrames DEF EndJobFrame, HostFrameOf, DataOpcodes, Command
  <2>2. StatusPollFrame \in HostFrame /\ StatusPollFrame.opcode \notin DataOpcodes
    BY FixedFrames DEF StatusPollFrame, HostFrameOf, DataOpcodes, Command
  <2> QED
    BY <1>6, <2>1, <2>2, CallerWritesPreserves DEF Cancel, PollStatus
<1>7. CASE PrinterTakes
  BY <1>7, PrinterTakesPreserves
<1> QED
  BY <1>1, <1>2, <1>3, <1>4, <1>5, <1>6, <1>7 DEF Next

THEOREM Invariance == Spec => []IInv
  BY InitEstablishes, StepPreserves, PTL DEF Spec

(* Type correctness of Printer.                                            *)
THEOREM TypeCorrect == Spec => []TypeOK
<1>1. IInv => TypeOK
  BY DEF IInv
<1> QED
  BY <1>1, Invariance, PTL

(* A call is registered with everything exactly while it runs, however     *)
(* many calls share the listeners.                                         *)
THEOREM NothingLeaks == Spec => []RegisteredWhileRunning
<1>1. IInv => RegisteredWhileRunning
  BY DEF IInv
<1> QED
  BY <1>1, Invariance, PTL

(* printRaw resolves only after its printer reported the end of the job.   *)
THEOREM ResolutionIsEarned == Spec => []ResolvedOnlyIfFinished
<1>1. IInv => ResolvedOnlyIfFinished
  BY DEF IInv
<1> QED
  BY <1>1, Invariance, PTL

(* A reported fault is always the outcome.                                 *)
THEOREM FaultsAreKept == Spec => []FaultIsTheOutcome
<1>1. IInv => FaultIsTheOutcome
  BY DEF IInv
<1> QED
  BY <1>1, Invariance, PTL

(* No job waits for a channel that is gone.                                *)
THEOREM CloseEndsJobs == Spec => []ClosedChannelRunsNoJob
<1>1. IInv => ClosedChannelRunsNoJob
  BY DEF IInv
<1> QED
  BY <1>1, Invariance, PTL

(* Every frame in flight is good, so END_JOB follows a reported end.       *)
THEOREM EndJobIsEarned == Spec => []EndJobOnlyAfterFinished
<1>1. IInv => EndJobOnlyAfterFinished
  <2> SUFFICES ASSUME IInv, NEW i \in DOMAIN wire PROVE wire[i] \in GoodMessage
    BY DEF EndJobOnlyAfterFinished, GoodMessage
  <2> QED
    BY LenProperties, ElementOfSeq DEF IInv
<1> QED
  BY <1>1, Invariance, PTL

(* Every slice in flight lies inside the image of its job.                 *)
THEOREM SlicesAreInside == Spec => []SlicesInsideImage
<1>1. IInv => SlicesInsideImage
  <2> SUFFICES ASSUME IInv, NEW i \in DOMAIN wire PROVE wire[i] \in GoodMessage
    BY DEF SlicesInsideImage, GoodMessage
  <2> QED
    BY LenProperties, ElementOfSeq DEF IInv
<1> QED
  BY <1>1, Invariance, PTL

-----------------------------------------------------------------------------
(* Only the call a step belongs to can write, and it is about to run or    *)
(* runs; so a settled job writes nothing and keeps its outcome.            *)
LEMMA WriteIsByCaller ==
  ASSUME wire \in Seq(Message), NEW c, NEW f, NEW kind, Write(c, f, kind)
  PROVE  Len(wire') > Len(wire) => Last(wire').by = c
<1>1. CASE wire' = wire
  BY <1>1, LenProperties
<1>2. CASE wire' = Append(wire, [by |-> c, frame |-> f])
  BY <1>2 DEF Last
<1> QED
  BY <1>1, <1>2 DEF Write

LEMMA ForgottenWriteIsByCaller ==
  ASSUME wire \in Seq(Message), NEW c, NEW f, WriteAndForget(c, f)
  PROVE  Len(wire') > Len(wire) => Last(wire').by = c
<1>1. CASE wire' = wire
  BY <1>1, LenProperties
<1>2. CASE wire' = Append(wire, [by |-> c, frame |-> f])
  BY <1>2 DEF Last
<1> QED
  BY <1>1, <1>2 DEF WriteAndForget

LEMMA FailureDoesNotLengthen ==
  ASSUME wire \in Seq(Message), NEW c, NEW kind, wire' \in WireAfterFailure(c, kind)
  PROVE  ~(Len(wire') > Len(wire))
<1>1. CASE wire' = wire
  BY <1>1, LenProperties
<1>2. CASE \E i \in DOMAIN wire : wire' = RemoveAt(wire, i)
  <2>1. PICK i \in DOMAIN wire : wire' = RemoveAt(wire, i)
    BY <1>2
  <2>2. i \in 1 .. Len(wire) /\ Len(wire) \in Nat
    BY LenProperties
  <2>3. SubSeq(wire, 1, i - 1) \in Seq(Message) /\ Len(SubSeq(wire, 1, i - 1)) = i - 1
    <3>1. \A k \in 1 .. (i - 1) : wire[k] \in Message
      BY <2>2, ElementOfSeq
    <3> QED
      BY <2>2, <3>1, SubSeqProperties
  <2>4. SubSeq(wire, i + 1, Len(wire)) \in Seq(Message)
        /\ Len(SubSeq(wire, i + 1, Len(wire))) = Len(wire) - i
    <3>1. \A k \in (i + 1) .. Len(wire) : wire[k] \in Message
      BY <2>2, ElementOfSeq
    <3> QED
      BY <2>2, <3>1, SubSeqProperties
  <2> QED
    BY <2>1, <2>2, <2>3, <2>4, ConcatProperties DEF RemoveAt
<1> QED
  BY <1>1, <1>2 DEF WireAfterFailure

SilentStep ==
  \A j \in Jobs : outcome[j] \in Settled =>
    /\ outcome'[j] = outcome[j]
    /\ session'[j] = session[j]
    /\ Len(wire') > Len(wire) => Last(wire').by # j

LEMMA StepsAreSilent == IInv /\ [Next]_vars => SilentStep
<1> SUFFICES ASSUME IInv, [Next]_vars, NEW j \in Jobs, outcome[j] \in Settled
             PROVE  /\ outcome'[j] = outcome[j]
                    /\ session'[j] = session[j]
                    /\ Len(wire') > Len(wire) => Last(wire').by # j
  BY DEF SilentStep
<1>1. /\ outcome[j] \notin {"idle", "running"} /\ TypeOK /\ wire \in Seq(Message)
      /\ j \notin todo /\ j # Caller /\ j \notin Queries
  BY PrinterAssumption
     DEF IInv, TypeOK, VisitsRegistered, RegisteredWhileRunning, Settled, Refusals,
         Failures, Calls
<1>2. ASSUME NEW js, NEW result, Finish(js, result) PROVE outcome'[j] = outcome[j]
  BY <1>1, <1>2 DEF Finish
<1>3. Len(wire) \in Nat
  BY <1>1, LenProperties
<1>4. CASE UNCHANGED vars
  BY <1>3, <1>4 DEF vars
<1>5. CASE ChannelStep
  <2>1. CASE Connect \/ Disconnect
    BY <1>3, <2>1 DEF Connect, Disconnect
  <2>2. CASE ChannelCloses
    BY <1>2, <1>3, <2>2 DEF ChannelCloses
  <2> QED
    BY <1>5, <2>1, <2>2 DEF ChannelStep
<1>6. ASSUME NEW k \in Jobs, JobStep(k)
      PROVE  /\ outcome'[j] = outcome[j]
             /\ session'[j] = session[j]
             /\ Len(wire') > Len(wire) => Last(wire').by # j
  <2>1. CASE RefuseJob(k)
    BY <1>1, <1>3, <2>1 DEF RefuseJob, TypeOK
  <2>2. CASE StartJob(k)
    <3>1. k # j
      BY <1>1, <2>2 DEF StartJob
    <3> QED
      BY <1>1, <2>2, <3>1, WriteIsByCaller DEF StartJob, TypeOK
  <2>3. CASE OnFrame(k)
    <3>1. k # j
      BY <1>1, <2>3 DEF OnFrame
    <3>2. session'[j] = session[j]
      BY <2>3, <3>1 DEF OnFrame, TypeOK, IInv
    <3>3. CASE wire' = wire
      BY <1>2, <1>3, <2>3, <3>2, <3>3 DEF OnFrame
    <3>4. CASE \E f, kind : Write(k, f, kind)
      BY <1>1, <1>2, <2>3, <3>1, <3>2, <3>4, WriteIsByCaller DEF OnFrame
    <3> QED
      BY <2>3, <3>3, <3>4 DEF OnFrame
  <2>4. CASE WriteLands(k)
    BY <1>2, <1>3, <2>4 DEF WriteLands
  <2>5. CASE WriteFails(k)
    BY <1>1, <1>2, <2>5, FailureDoesNotLengthen DEF WriteFails
  <2>6. CASE JobTimeout(k)
    BY <1>2, <1>3, <2>6 DEF JobTimeout
  <2> QED
    BY <1>6, <2>1, <2>2, <2>3, <2>4, <2>5, <2>6 DEF JobStep
<1>7. ASSUME NEW q \in Queries, QueryStep(q)
      PROVE  /\ outcome'[j] = outcome[j]
             /\ session'[j] = session[j]
             /\ Len(wire') > Len(wire) => Last(wire').by # j
  <2>1. UNCHANGED <<outcome, session>>
    BY <1>7 DEF QueryStep, RequestDeviceInfo, InfoOnFrame, RequestSettles, InfoTimeout
  <2>2. q # j
    BY <1>1
  <2>3. CASE RequestDeviceInfo(q)
    BY <1>1, <2>1, <2>2, <2>3, WriteIsByCaller DEF RequestDeviceInfo
  <2>4. CASE InfoOnFrame(q)
    BY <1>1, <1>3, <2>1, <2>2, <2>4, ForgottenWriteIsByCaller DEF InfoOnFrame
  <2>5. CASE RequestSettles(q)
    BY <1>1, <1>3, <2>1, <2>5, FailureDoesNotLengthen DEF RequestSettles
  <2>6. CASE InfoTimeout(q)
    BY <1>3, <2>1, <2>6 DEF InfoTimeout
  <2> QED
    BY <1>7, <2>3, <2>4, <2>5, <2>6 DEF QueryStep
<1>8. ASSUME NEW f \in PrinterFrames, BeginDelivery(f)
      PROVE  UNCHANGED <<outcome, session, wire>>
  BY <1>8 DEF BeginDelivery
<1>9. CASE Cancel \/ PollStatus
  BY <1>1, <1>9, ForgottenWriteIsByCaller DEF Cancel, PollStatus, CallerWrites
<1>10. CASE PrinterTakes
  BY <1>1, <1>10, HeadTailProperties DEF PrinterTakes
<1> QED
  BY <1>3, <1>4, <1>5, <1>6, <1>7, <1>8, <1>9, <1>10 DEF Next

(* A settled call of printRaw stays settled and silent.                    *)
THEOREM SettledStaysSettled == Spec => SettledJobsAreSilent
<1>1. IInv /\ [Next]_vars => [SilentStep]_vars
  BY StepsAreSilent
<1>2. SettledJobsAreSilent <=> [][SilentStep]_vars
  BY DEF SettledJobsAreSilent, SilentStep
<1> QED
  BY <1>1, <1>2, Invariance, PTL DEF Spec

-----------------------------------------------------------------------------
(* Printer implements JobOutcome.                                          *)
Acked == {j \in Jobs : session[j].finished}

LEMMA InitRefines == Init => JobOutcomes!Init
  BY DEF Init, JobOutcomes!Init, NewSession

(* finish of a job that runs fails it, and is no step for one that settled. *)
LEMMA FinishRefinesFail ==
  ASSUME IInv, NEW j \in Jobs, NEW why \in Failures, Finish({j}, why),
         UNCHANGED channel, Acked' = Acked
  PROVE  JobOutcomes!Fail(j) \/ UNCHANGED outcome
<1>1. CASE outcome[j] = "running"
  <2>1. outcome' = [outcome EXCEPT ![j] = why]
    BY <1>1 DEF Finish, IInv, TypeOK
  <2> QED
    BY <1>1, <2>1 DEF JobOutcomes!Fail, JobOutcomes!Failures, Failures, Acked
<1>2. CASE outcome[j] # "running"
  BY <1>2 DEF Finish, IInv, TypeOK
<1> QED
  BY <1>1, <1>2

LEMMA OnFrameRefines ==
  ASSUME IInv, NEW j \in Jobs, OnFrame(j)
  PROVE  [JobOutcomes!Next]_<<channel # "closed", Acked, outcome>>
<1> DEFINE r == HandleFrame(session[j], ImageLen[j], frame)
<1>1. /\ session[j] \in Session /\ ImageLen[j] \in Nat /\ frame \in PrinterFrame
      /\ outcome[j] = "running"
  BY PrinterAssumption DEF IInv, OnFrame, TypeOK, VisitsRegistered, RegisteredWhileRunning
<1>2. /\ session[j].finished => r.session.finished
      /\ r.session.finished \in BOOLEAN
      /\ r.action.type = "done" => r.session.finished
      /\ r.action.type = "throw" => r.session.finished = session[j].finished
  BY <1>1, HandleFrameCorrect DEF Session
<1> HIDE DEF r
<1>3. session' = [session EXCEPT ![j] = r.session] /\ UNCHANGED channel
  BY DEF OnFrame, r
<1>4. Acked' = IF r.session.finished THEN Acked \cup {j} ELSE Acked
  BY <1>2, <1>3 DEF Acked, IInv, TypeOK
<1>5. CASE r.action.type = "throw" /\ Finish({j}, "fault")
  <2>1. Acked' = Acked
    BY <1>2, <1>4, <1>5 DEF Acked
  <2>2. "fault" \in Failures
    BY DEF Failures
  <2>3. JobOutcomes!Fail(j) \/ UNCHANGED outcome
    BY <1>3, <1>5, <2>1, <2>2, FinishRefinesFail
  <2> QED
    BY <1>3, <2>1, <2>3 DEF JobOutcomes!Next
<1>6. CASE r.action.type = "done" /\ Finish({j}, "resolved")
  <2>1. outcome' = [outcome EXCEPT ![j] = "resolved"]
    BY <1>1, <1>6 DEF Finish, IInv, TypeOK
  <2>2. JobOutcomes!Resolve(j)
    BY <1>1, <1>2, <1>3, <1>4, <1>6, <2>1 DEF JobOutcomes!Resolve, Acked
  <2> QED
    BY <2>2 DEF JobOutcomes!Next
<1>7. CASE UNCHANGED outcome
  <2>1. CASE Acked' = Acked
    BY <1>3, <1>7, <2>1
  <2>2. CASE Acked' = Acked \cup {j}
    <3>1. JobOutcomes!Acknowledge(j)
      BY <1>1, <1>3, <1>7, <2>2 DEF JobOutcomes!Acknowledge, Acked
    <3> QED
      BY <3>1 DEF JobOutcomes!Next
  <2> QED
    BY <1>4, <2>1, <2>2
<1> QED
  BY <1>5, <1>6, <1>7 DEF OnFrame, r

LEMMA WriteLandsRefines ==
  ASSUME IInv, NEW j \in Jobs, WriteLands(j)
  PROVE  [JobOutcomes!Next]_<<channel # "closed", Acked, outcome>>
<1>1. UNCHANGED <<channel, session>> /\ Acked' = Acked
  BY DEF WriteLands, Acked
<1>2. CASE UNCHANGED outcome
  BY <1>1, <1>2
<1>3. CASE pending[j]["final"] > 0 /\ Finish({j}, "resolved")
  <2>1. j \in Acked
    BY <1>3 DEF IInv, FinalWritesFollowFinish, Acked
  <2>2. CASE outcome[j] = "running"
    <3>1. outcome' = [outcome EXCEPT ![j] = "resolved"]
      BY <1>3, <2>2 DEF Finish, IInv, TypeOK
    <3>2. JobOutcomes!Resolve(j)
      BY <1>1, <2>1, <2>2, <3>1 DEF JobOutcomes!Resolve, Acked
    <3> QED
      BY <3>2 DEF JobOutcomes!Next
  <2>3. CASE outcome[j] # "running"
    BY <1>1, <1>3, <2>3 DEF Finish, IInv, TypeOK
  <2> QED
    BY <2>2, <2>3
<1> QED
  BY <1>2, <1>3 DEF WriteLands

LEMMA StepRefines ==
  IInv /\ [Next]_vars => [JobOutcomes!Next]_<<channel # "closed", Acked, outcome>>
<1> SUFFICES ASSUME IInv, [Next]_vars
             PROVE  [JobOutcomes!Next]_<<channel # "closed", Acked, outcome>>
  OBVIOUS
<1>1. CASE UNCHANGED vars
  BY <1>1 DEF vars, Acked
<1>2. CASE ChannelStep
  <2>1. CASE Connect
    <3>1. JobOutcomes!Open
      BY <2>1 DEF Connect, JobOutcomes!Open, Acked
    <3> QED
      BY <3>1 DEF JobOutcomes!Next
  <2>2. CASE Disconnect
    BY <2>2 DEF Disconnect, Acked
  <2>3. CASE ChannelCloses
    <3>1. outcome' = [j \in Jobs |-> IF outcome[j] = "running" THEN "closed" ELSE outcome[j]]
      BY <2>3 DEF ChannelCloses, Finish, IInv, RegisteredWhileRunning, TypeOK
    <3>2. JobOutcomes!Close
      BY <2>3, <3>1 DEF ChannelCloses, JobOutcomes!Close, Acked
    <3> QED
      BY <3>2 DEF JobOutcomes!Next
  <2> QED
    BY <1>2, <2>1, <2>2, <2>3 DEF ChannelStep
<1>3. ASSUME NEW j \in Jobs, JobStep(j)
      PROVE  [JobOutcomes!Next]_<<channel # "closed", Acked, outcome>>
  <2>1. CASE RefuseJob(j)
    <3>1. JobOutcomes!Call(j)
      BY <2>1 DEF RefuseJob, JobOutcomes!Call, JobOutcomes!Refusals, registrations, Acked
    <3> QED
      BY <3>1 DEF JobOutcomes!Next
  <2>2. CASE StartJob(j)
    <3>1. session' = session
      BY <2>2 DEF StartJob, IInv, FreshUntilCalled, TypeOK
    <3>2. JobOutcomes!Call(j)
      BY <2>2, <3>1 DEF StartJob, IsOpen, JobOutcomes!Call, Acked
    <3> QED
      BY <3>2 DEF JobOutcomes!Next
  <2>3. CASE OnFrame(j)
    BY <2>3, OnFrameRefines
  <2>4. CASE WriteLands(j)
    BY <2>4, WriteLandsRefines
  <2>5. CASE WriteFails(j)
    <3>1. JobOutcomes!Fail(j) \/ UNCHANGED outcome
      BY <2>5, FinishRefinesFail DEF WriteFails, Failures, Acked
    <3> QED
      BY <2>5, <3>1 DEF WriteFails, Acked, JobOutcomes!Next
  <2>6. CASE JobTimeout(j)
    <3>1. JobOutcomes!Fail(j) \/ UNCHANGED outcome
      BY <2>6, FinishRefinesFail DEF JobTimeout, Failures, Acked
    <3> QED
      BY <2>6, <3>1 DEF JobTimeout, Acked, JobOutcomes!Next
  <2> QED
    BY <1>3, <2>1, <2>2, <2>3, <2>4, <2>5, <2>6 DEF JobStep
<1>4. ASSUME NEW q \in Queries, QueryStep(q) PROVE UNCHANGED <<channel, outcome, session>>
  BY <1>4 DEF QueryStep, RequestDeviceInfo, InfoOnFrame, RequestSettles, InfoTimeout
<1>5. ASSUME NEW f \in PrinterFrames, BeginDelivery(f)
      PROVE  UNCHANGED <<channel, outcome, session>>
  BY <1>5 DEF BeginDelivery
<1>6. CASE Cancel \/ PollStatus \/ PrinterTakes
  BY <1>6 DEF Cancel, PollStatus, CallerWrites, PrinterTakes, Acked
<1> QED
  BY <1>1, <1>2, <1>3, <1>4, <1>5, <1>6 DEF Next, Acked

(* Every behaviour of Printer is one JobOutcome allows: printRaw settles   *)
(* once, resolves only what was acknowledged, and a lost channel rejects   *)
(* all that runs.                                                          *)
THEOREM ImplementsJobOutcome == Spec => JobOutcomeSpec
<1>1. IInv /\ [Next]_vars => [JobOutcomes!Next]_JobOutcomes!vars
  BY StepRefines DEF JobOutcomes!vars, Acked
<1> QED
  BY <1>1, InitRefines, Invariance, PTL DEF Spec, JobOutcomeSpec, JobOutcomes!Spec
=============================================================================
