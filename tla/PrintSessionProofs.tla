------------------------ MODULE PrintSessionProofs --------------------------
(***************************************************************************)
(* What one call of PrintSession.handleFrame guarantees, for every session,*)
(* every image length and every frame a printer can send.                  *)
(***************************************************************************)
EXTENDS PrintSession, TLAPS

(* The slice of a data response lies inside the image and is not empty,    *)
(* whatever offset the frame names (buildDataResponse).                    *)
LEMMA DataResponseCorrect ==
  ASSUME NEW s \in Session, NEW len \in Nat, NEW f \in PrinterFrame
  PROVE  LET r == DataResponse(s, len, f)
         IN  /\ r.session \in Session
             /\ r.session.failed = s.failed
             /\ r.session.finished = s.finished
             /\ r.action \in Action
             /\ \/ r.action = WaitAction
                \/ /\ r.action.type = "send"
                   /\ ~r.action.final
                   /\ r.action.frame.opcode \in DataOpcodes
                   /\ Len(r.action.frame.payload) = 2
                   /\ r.action.frame.payload[1] < r.action.frame.payload[2]
                   /\ r.action.frame.payload[2] <= len
<1> DEFINE offset == RequestedOffset(s, f)
           end    == SliceEnd(offset, len)
           opcode == IF UsesModernOpcodes THEN Command.DATA ELSE Command.DATA_LEGACY
           sent   == HostFrameOf(opcode, f.arg1, f.arg2, <<offset, end>>)
<1>1. offset \in Nat
  BY DEF RequestedOffset, Session, PrinterFrame
<1>2. CASE offset >= len
  <2>1. DataResponse(s, len, f) = Result(s, WaitAction)
    BY <1>2 DEF DataResponse, PastEnd
  <2> QED
    BY <2>1 DEF Result, WaitAction, Action
<1>3. CASE ~(offset >= len)
  <2>1. end \in Nat /\ offset < end /\ end <= len
    BY <1>1, <1>3, SessionAssumption DEF SliceEnd
  <2>2. opcode \in DataOpcodes /\ opcode \in Byte
    BY DEF DataOpcodes, Command, Byte
  <2>3. sent \in HostFrame
    <3>1. <<offset, end>> \in Seq(Nat)
      BY <1>1, <2>1
    <3>2. f.arg1 \in Byte /\ f.arg2 \in Byte
      BY DEF PrinterFrame
    <3> QED
      BY <2>2, <3>1, <3>2 DEF HostFrameOf, HostFrame
  <2>4. DataResponse(s, len, f) = Result(Advance(s, end), SendAction(sent))
    BY <1>3 DEF DataResponse, PastEnd
  <2>5. Advance(s, end) \in Session /\ Advance(s, end).failed = s.failed
                                    /\ Advance(s, end).finished = s.finished
    BY <2>1 DEF Advance, Session
  <2>6. SendAction(sent) \in Action
    BY <2>3 DEF SendAction, Action
  <2>7. sent.payload = <<offset, end>> /\ sent.opcode = opcode
    BY DEF HostFrameOf
  <2> QED
    BY <2>1, <2>2, <2>4, <2>5, <2>6, <2>7 DEF Result, SendAction
<1> QED
  BY <1>2, <1>3

(* The frames a session sends are frames of the protocol.                  *)
LEMMA FixedFrames ==
  /\ StartFrame \in HostFrame
  /\ HeartbeatEcho \in HostFrame
  /\ EndJobFrame \in HostFrame
  /\ StatusPollFrame \in HostFrame
  /\ DeviceInfoRequest \in HostFrame
  /\ \A len \in Nat : JobStart(len) \in HostFrame
  /\ \A b \in Byte : HostFrameOf(Command.ACK, b, 0, <<>>) \in HostFrame
<1>1. \A op, a1, a2 \in Byte, p \in Seq(Nat) : HostFrameOf(op, a1, a2, p) \in HostFrame
  BY DEF HostFrameOf, HostFrame
<1>2. \A n \in Nat : n % 256 \in Byte /\ (n \div 256) % 256 \in Byte
  BY DEF Byte
<1>3. <<>> \in Seq(Nat) /\ \A m, n \in Nat : <<m>> \in Seq(Nat) /\ <<m, n>> \in Seq(Nat)
  OBVIOUS
<1>4. \A name \in DOMAIN Command : Command[name] \in Byte
  BY DEF Command, Byte
<1>5. 0 \in Byte /\ 1 \in Byte /\ 37 \in Byte
  BY DEF Byte
<1>6. /\ StartFrame \in HostFrame /\ HeartbeatEcho \in HostFrame
      /\ EndJobFrame \in HostFrame /\ StatusPollFrame \in HostFrame
      /\ DeviceInfoRequest \in HostFrame
  BY <1>1, <1>3, <1>4, <1>5
     DEF StartFrame, HeartbeatEcho, EndJobFrame, StatusPollFrame,
         DeviceInfoRequest, Command, SESSION_PROTOCOL_REVISION
<1>7. ASSUME NEW len \in Nat PROVE JobStart(len) \in HostFrame
  BY <1>1, <1>2, <1>3, <1>4, <1>5, SessionAssumption DEF JobStart, Command
<1>8. ASSUME NEW b \in Byte PROVE HostFrameOf(Command.ACK, b, 0, <<>>) \in HostFrame
  BY <1>1, <1>3, <1>4, <1>5 DEF Command
<1> QED
  BY <1>6, <1>7, <1>8

(* handleFrame: a fault is thrown and recorded together; a finished        *)
(* session stays finished; an end of the job that it announces (done, or   *)
(* the final END_JOB) is one the printer reported; nothing but that final  *)
(* frame is an END_JOB; and a slice lies inside the image.                 *)
THEOREM HandleFrameCorrect ==
  ASSUME NEW s \in Session, NEW len \in Nat, NEW f \in PrinterFrame
  PROVE  LET r == HandleFrame(s, len, f)
         IN  /\ r.session \in Session
             /\ r.action \in Action
             /\ r.session.failed = (s.failed \/ r.action.type = "throw")
             /\ r.action.type = "throw" => r.session.finished = s.finished
             /\ s.finished => r.session.finished
             /\ r.action.type = "done" => r.session.finished
             /\ r.action.type = "send" =>
                  /\ r.action.final => r.session.finished
                  /\ r.action.frame.opcode = Command.END_JOB => r.session.finished
                  /\ r.action.frame.opcode \in DataOpcodes =>
                       /\ Len(r.action.frame.payload) = 2
                       /\ r.action.frame.payload[1] < r.action.frame.payload[2]
                       /\ r.action.frame.payload[2] <= len
<1> DEFINE Good(r) ==
             /\ r.session \in Session
             /\ r.action \in Action
             /\ r.session.failed = (s.failed \/ r.action.type = "throw")
             /\ r.action.type = "throw" => r.session.finished = s.finished
             /\ s.finished => r.session.finished
             /\ r.action.type = "done" => r.session.finished
             /\ r.action.type = "send" =>
                  /\ r.action.final => r.session.finished
                  /\ r.action.frame.opcode = Command.END_JOB => r.session.finished
                  /\ r.action.frame.opcode \in DataOpcodes =>
                       /\ Len(r.action.frame.payload) = 2
                       /\ r.action.frame.payload[1] < r.action.frame.payload[2]
                       /\ r.action.frame.payload[2] <= len
<1>1. ASSUME NEW h \in HostFrame,
             h.opcode \notin {Command.END_JOB} \cup DataOpcodes
      PROVE  Good(Result(s, SendAction(h)))
  BY <1>1 DEF Result, SendAction, Action, Session
<1>2. Good(Result(s, WaitAction))
  BY DEF Result, WaitAction, Action, Session
<1>3. Good(Result([s EXCEPT !.finished = TRUE], DoneAction))
  BY DEF Result, DoneAction, Action, Session
<1>4. Good(FinishedResponse(s))
  <2>1. EndJobFrame \in HostFrame /\ EndJobFrame.opcode \notin DataOpcodes
    BY FixedFrames DEF EndJobFrame, HostFrameOf, DataOpcodes, Command
  <2> QED
    BY <2>1 DEF FinishedResponse, Result, FinalAction, Action, Session
<1>5. Good(Result([s EXCEPT !.failed = TRUE], ThrowAction))
  BY DEF Result, ThrowAction, Action, Session
<1>6. Good(DataResponse(s, len, f))
  BY DataResponseCorrect DEF WaitAction, Session, DataOpcodes, Command
<1>7. Good(HeartbeatResponse(s))
  <2>1. HeartbeatEcho \in HostFrame
        /\ HeartbeatEcho.opcode \notin {Command.END_JOB} \cup DataOpcodes
    BY FixedFrames DEF HeartbeatEcho, HostFrameOf, DataOpcodes, Command
  <2> QED
    BY <1>1, <2>1 DEF HeartbeatResponse
<1>8. Good(Result(s, SendAction(JobStart(len))))
  <2>1. JobStart(len) \in HostFrame
        /\ JobStart(len).opcode \notin {Command.END_JOB} \cup DataOpcodes
    BY FixedFrames DEF JobStart, HostFrameOf, DataOpcodes, Command
  <2> QED
    BY <1>1, <2>1
<1>9. Good(Result(s, SendAction(HostFrameOf(Command.ACK, f.arg3, 0, <<>>))))
  <2>1. f.arg3 \in Byte
    BY DEF PrinterFrame
  <2>2. HostFrameOf(Command.ACK, f.arg3, 0, <<>>) \in HostFrame
        /\ HostFrameOf(Command.ACK, f.arg3, 0, <<>>).opcode
             \notin {Command.END_JOB} \cup DataOpcodes
    BY <2>1, FixedFrames DEF HostFrameOf, DataOpcodes, Command
  <2> QED
    BY <1>1, <2>2
<1>10. Good(HandlePrintState(s, len, f))
  <2> HIDE DEF Good
  <2> QED
    BY <1>2, <1>4, <1>5, <1>6, <1>8, <1>9 DEF HandlePrintState, PrintState
<1>11. Good(HandleFrame(s, len, f))
  <2> HIDE DEF Good
  <2> QED
    BY <1>2, <1>3, <1>7, <1>10
       DEF HandleFrame, EndOpcodes, IgnoredOpcodes, Notification, Command,
           ReachesPrintState
<1> QED
  BY <1>11
=============================================================================
