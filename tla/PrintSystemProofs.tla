------------------------- MODULE PrintSystemProofs --------------------------
(***************************************************************************)
(* Proofs about PrintSystem, for every set of jobs and queries, every image*)
(* and slice size, and every device of the model.  The invariants are those*)
(* of PrintSystemInvariant.  The steps of SysNext are first sorted by what *)
(* they do to the conversation: a job fails or nothing is said (Receding), *)
(* a frame nobody waits for is said (Murmuring), a job starts, a frame is  *)
(* handed to its listeners, a job answers it, the device takes a message or*)
(* announces something, the channel closes.  Each layer of the invariant   *)
(* has one lemma per kind of step.                                         *)
(***************************************************************************)
EXTENDS PrintSystemInvariant, PrinterProofs

-----------------------------------------------------------------------------
(* The elements of a queue after one of its ends moved.                    *)
LEMMA SetOfSeq ==
  ASSUME NEW S, NEW s \in Seq(S)
  PROVE  /\ ToSet(s) \subseteq S
         /\ \A m : m \in ToSet(s) <=> \E i \in 1 .. Len(s) : s[i] = m
  BY LenProperties DEF ToSet

(* An empty queue holds nothing.                                           *)
LEMMA SetOfEmpty == ToSet(<<>>) = {}
  BY DEF ToSet

(* What is appended joins the elements of the queue.                       *)
LEMMA SetOfAppend ==
  ASSUME NEW S, NEW s \in Seq(S), NEW e \in S
  PROVE  /\ ToSet(Append(s, e)) = ToSet(s) \cup {e}
         /\ Append(s, e) \in Seq(S)
<1>1. Append(s, e) \in Seq(S) /\ Len(s) \in Nat /\ Len(Append(s, e)) = Len(s) + 1
      /\ (\A i \in 1 .. Len(s) : Append(s, e)[i] = s[i])
      /\ Append(s, e)[Len(s) + 1] = e
  BY AppendProperties, LenProperties
<1>2. ASSUME NEW m PROVE m \in ToSet(Append(s, e)) <=> m \in ToSet(s) \cup {e}
  <2> DEFINE t == Append(s, e)
  <2>0. DOMAIN t = 1 .. Len(s) + 1
    BY <1>1, LenProperties
  <2>1. m \in ToSet(t) <=> \E i \in 1 .. Len(s) + 1 : t[i] = m
    BY <2>0 DEF ToSet
  <2>2. m \in ToSet(s) <=> \E i \in 1 .. Len(s) : s[i] = m
    BY SetOfSeq
  <2>3. \A i : i \in 1 .. Len(s) + 1 <=> i \in 1 .. Len(s) \/ i = Len(s) + 1
    BY <1>1
  <2> QED
    BY <1>1, <2>1, <2>2, <2>3
<1> QED
  BY <1>1, <1>2

(* The head and the rest are the elements of a queue that is not empty.    *)
LEMMA SetOfTail ==
  ASSUME NEW S, NEW s \in Seq(S), s # <<>>
  PROVE  /\ ToSet(s) = {Head(s)} \cup ToSet(Tail(s))
         /\ Head(s) \in S
         /\ Tail(s) \in Seq(S)
<1>1. Head(s) \in S /\ Tail(s) \in Seq(S) /\ Len(s) \in Nat \ {0} /\ Head(s) = s[1]
      /\ Len(Tail(s)) = Len(s) - 1 /\ (\A i \in 1 .. Len(Tail(s)) : Tail(s)[i] = s[i + 1])
  BY HeadTailProperties, EmptySeq
<1>2. ASSUME NEW m PROVE m \in ToSet(s) <=> m \in {Head(s)} \cup ToSet(Tail(s))
  <2> DEFINE t == Tail(s)
  <2>0. DOMAIN t = 1 .. Len(s) - 1
    BY <1>1, LenProperties
  <2>1. m \in ToSet(s) <=> \E i \in 1 .. Len(s) : s[i] = m
    BY SetOfSeq
  <2>2. m \in ToSet(t) <=> \E i \in 1 .. Len(s) - 1 : t[i] = m
    BY <2>0 DEF ToSet
  <2>3. ASSUME NEW i \in 1 .. Len(s), i # 1
        PROVE  i - 1 \in 1 .. Len(s) - 1 /\ Tail(s)[i - 1] = s[i]
    BY <1>1, <2>3
  <2>4. ASSUME NEW i \in 1 .. Len(s) - 1
        PROVE  i + 1 \in 1 .. Len(s) /\ Tail(s)[i] = s[i + 1]
    BY <1>1
  <2>5. 1 \in 1 .. Len(s)
    BY <1>1
  <2> QED
    BY <1>1, <2>1, <2>2, <2>3, <2>4, <2>5
<1> QED
  BY <1>1, <1>2

(* RemoveAt takes one element out and keeps the order of the others.       *)
LEMMA RemovedAt ==
  ASSUME NEW S, NEW s \in Seq(S), NEW i \in 1 .. Len(s)
  PROVE  /\ Len(RemoveAt(s, i)) = Len(s) - 1
         /\ RemoveAt(s, i) \in Seq(S)
         /\ \A k \in 1 .. Len(s) - 1 : RemoveAt(s, i)[k] = IF k < i THEN s[k] ELSE s[k + 1]
<1>1. Len(s) \in Nat /\ i \in Nat /\ i >= 1 /\ i <= Len(s)
  BY LenProperties
<1> DEFINE a == SubSeq(s, 1, i - 1)
           b == SubSeq(s, i + 1, Len(s))
<1>2. a \in Seq(S) /\ Len(a) = i - 1 /\ \A k \in 1 .. i - 1 : a[k] = s[k]
  <2>1. \A k \in 1 .. (i - 1) : s[k] \in S
    BY <1>1, ElementOfSeq
  <2> QED
    BY <1>1, <2>1, SubSeqProperties
<1>3. b \in Seq(S) /\ Len(b) = Len(s) - i /\ \A k \in 1 .. Len(s) - i : b[k] = s[i + k]
  <2>1. \A k \in (i + 1) .. Len(s) : s[k] \in S
    BY <1>1, ElementOfSeq
  <2>2. /\ b \in Seq(S)
        /\ Len(b) = IF i + 1 <= Len(s) THEN Len(s) - (i + 1) + 1 ELSE 0
        /\ \A k \in 1 .. Len(s) - (i + 1) + 1 : b[k] = s[(i + 1) + k - 1]
    BY <1>1, <2>1, SubSeqProperties
  <2> QED
    BY <1>1, <2>2
<1>4. RemoveAt(s, i) = a \o b
  BY DEF RemoveAt
<1> HIDE DEF a, b
<1>5. /\ a \o b \in Seq(S)
      /\ Len(a \o b) = Len(a) + Len(b)
      /\ \A k \in 1 .. Len(a) + Len(b) :
           (a \o b)[k] = IF k <= Len(a) THEN a[k] ELSE b[k - Len(a)]
  BY <1>2, <1>3, ConcatProperties
<1>6. ASSUME NEW k \in 1 .. Len(s) - 1
      PROVE  (a \o b)[k] = IF k < i THEN s[k] ELSE s[k + 1]
  <2>1. (a \o b)[k] = IF k <= i - 1 THEN a[k] ELSE b[k - (i - 1)]
    BY <1>1, <1>2, <1>3, <1>5
  <2>2. CASE k < i
    BY <1>1, <1>2, <2>1, <2>2
  <2>3. CASE ~(k < i)
    <3>1. k - (i - 1) \in 1 .. Len(s) - i /\ i + (k - (i - 1)) = k + 1 /\ ~(k <= i - 1)
      BY <1>1, <2>3
    <3> QED
      BY <1>3, <2>1, <2>3, <3>1
  <2> QED
    BY <2>2, <2>3
<1> QED
  BY <1>1, <1>2, <1>3, <1>4, <1>5, <1>6

-----------------------------------------------------------------------------
(* What one end of a queue does to the order of its elements.              *)
LEMMA OrderOfEmpty == \A A, B : NoneAfter(<<>>, A, B)
  BY DEF NoneAfter

(* Appending keeps an order unless the new element breaks it.              *)
LEMMA OrderOfAppend ==
  ASSUME NEW S, NEW s \in Seq(S), NEW e \in S, NEW A, NEW B,
         NoneAfter(s, A, B), e \notin B \/ ToSet(s) \cap A = {}
  PROVE  NoneAfter(Append(s, e), A, B)
<1>1. Append(s, e) \in Seq(S) /\ Len(s) \in Nat /\ Len(Append(s, e)) = Len(s) + 1
      /\ (\A i \in 1 .. Len(s) : Append(s, e)[i] = s[i])
      /\ Append(s, e)[Len(s) + 1] = e
  BY AppendProperties, LenProperties
<1>2. DOMAIN s = 1 .. Len(s) /\ DOMAIN Append(s, e) = 1 .. Len(s) + 1
  BY <1>1, LenProperties
<1>3. \A i \in 1 .. Len(s) : s[i] \in ToSet(s)
  BY <1>2 DEF ToSet
<1> SUFFICES ASSUME NEW i \in 1 .. Len(s) + 1, NEW k \in 1 .. Len(s) + 1, i < k,
                    Append(s, e)[i] \in A, Append(s, e)[k] \in B
             PROVE  FALSE
  BY <1>2 DEF NoneAfter
<1>4. i \in 1 .. Len(s) /\ s[i] \in A
  BY <1>1
<1>5. CASE k \in 1 .. Len(s)
  BY <1>1, <1>2, <1>4, <1>5 DEF NoneAfter
<1>6. CASE k = Len(s) + 1
  BY <1>1, <1>3, <1>4, <1>6
<1> QED
  BY <1>1, <1>5, <1>6

(* Taking the head keeps every order, and a head that forbids others       *)
(* after it leaves none of them behind.                                    *)
LEMMA OrderOfTail ==
  ASSUME NEW S, NEW s \in Seq(S), s # <<>>, NEW A, NEW B, NoneAfter(s, A, B)
  PROVE  /\ NoneAfter(Tail(s), A, B)
         /\ Head(s) \in A => ToSet(Tail(s)) \cap B = {}
<1>1. Tail(s) \in Seq(S) /\ Len(s) \in Nat \ {0} /\ Head(s) = s[1]
      /\ Len(Tail(s)) = Len(s) - 1 /\ (\A i \in 1 .. Len(Tail(s)) : Tail(s)[i] = s[i + 1])
  BY HeadTailProperties, EmptySeq
<1>2. DOMAIN s = 1 .. Len(s) /\ DOMAIN Tail(s) = 1 .. Len(s) - 1
  BY <1>1, LenProperties
<1>3. NoneAfter(Tail(s), A, B)
  <2> SUFFICES ASSUME NEW i \in 1 .. Len(s) - 1, NEW k \in 1 .. Len(s) - 1, i < k,
                      Tail(s)[i] \in A, Tail(s)[k] \in B
               PROVE  FALSE
    BY <1>2 DEF NoneAfter
  <2>1. i + 1 \in DOMAIN s /\ k + 1 \in DOMAIN s /\ i + 1 < k + 1
        /\ s[i + 1] \in A /\ s[k + 1] \in B
    BY <1>1, <1>2
  <2> QED
    BY <2>1 DEF NoneAfter
<1>4. ASSUME Head(s) \in A, NEW m \in ToSet(Tail(s)), m \in B PROVE FALSE
  <2>1. PICK k \in 1 .. Len(s) - 1 : Tail(s)[k] = m
    BY <1>1, <1>2, <1>4 DEF ToSet
  <2>2. k + 1 \in DOMAIN s /\ 1 \in DOMAIN s /\ 1 < k + 1 /\ s[k + 1] = m
    BY <1>1, <1>2, <2>1
  <2> QED
    BY <1>1, <1>4, <2>2 DEF NoneAfter
<1> QED
  BY <1>3, <1>4

(* A failed write at worst takes one frame of its sender off the wire.     *)
LEMMA WireAfterFailureEffect ==
  ASSUME NEW S, wire \in Seq(S), NEW c, NEW kind, NEW w \in WireAfterFailure(c, kind)
  PROVE  /\ ToSet(w) \subseteq ToSet(wire)
         /\ \A m \in ToSet(wire) : m.by # c => m \in ToSet(w)
         /\ \A A, B : NoneAfter(wire, A, B) => NoneAfter(w, A, B)
<1>1. CASE w = wire
  BY <1>1
<1>2. CASE \E i \in DOMAIN wire : wire[i].by = c /\ w = RemoveAt(wire, i)
  <2>1. PICK i \in DOMAIN wire : wire[i].by = c /\ w = RemoveAt(wire, i)
    BY <1>2
  <2>2. i \in 1 .. Len(wire) /\ Len(wire) \in Nat /\ DOMAIN wire = 1 .. Len(wire)
    BY LenProperties
  <2>3. /\ Len(w) = Len(wire) - 1 /\ w \in Seq(S)
        /\ \A k \in 1 .. Len(wire) - 1 : w[k] = IF k < i THEN wire[k] ELSE wire[k + 1]
    BY <2>1, <2>2, RemovedAt
  <2>4. DOMAIN w = 1 .. Len(wire) - 1
    BY <2>2, <2>3, LenProperties
  <2> DEFINE from(k) == IF k < i THEN k ELSE k + 1
  <2>5. \A k \in DOMAIN w : from(k) \in DOMAIN wire /\ w[k] = wire[from(k)]
    BY <2>2, <2>3, <2>4
  <2>6. \A k, l \in DOMAIN w : k < l => from(k) < from(l)
    BY <2>2, <2>4
  <2>7. ToSet(w) \subseteq ToSet(wire)
    BY <2>5 DEF ToSet
  <2>8. ASSUME NEW m \in ToSet(wire), m.by # c PROVE m \in ToSet(w)
    <3>1. PICK k \in DOMAIN wire : wire[k] = m
      BY DEF ToSet
    <3>2. k # i
      BY <2>1, <2>8, <3>1
    <3>3. CASE k < i
      <4>1. k \in DOMAIN w /\ w[k] = m
        BY <2>2, <2>3, <2>4, <3>1, <3>3
      <4> QED
        BY <4>1 DEF ToSet
    <3>4. CASE k > i
      <4>1. k - 1 \in DOMAIN w /\ ~(k - 1 < i) /\ (k - 1) + 1 = k
        BY <2>2, <2>4, <3>1, <3>4
      <4>2. w[k - 1] = m
        BY <2>3, <2>4, <3>1, <4>1
      <4> QED
        BY <4>1, <4>2 DEF ToSet
    <3> QED
      BY <2>2, <3>2, <3>3, <3>4
  <2> HIDE DEF from
  <2>9. ASSUME NEW A, NEW B, NoneAfter(wire, A, B) PROVE NoneAfter(w, A, B)
    BY <2>5, <2>6, <2>9 DEF NoneAfter
  <2> QED
    BY <2>7, <2>8, <2>9
<1> QED
  BY <1>1, <1>2 DEF WireAfterFailure

-----------------------------------------------------------------------------
(* The device sends frames of the protocol.                                *)
LEMMA DeviceFrames ==
  /\ {NeedsAck, ReadyFrame, MediaInfo, FinishedFrame, FaultFrame, Heartbeat,
      InfoBlock} \subseteq DeviceFrame
  /\ \A n \in Nat : RequestFrame(n) \in DeviceFrame /\ IsRequest(RequestFrame(n))
                    /\ RequestFrame(n).payload = <<n>>
  /\ MayTearDown => TearDown \in DeviceFrame
  /\ DeviceFrame \subseteq PrinterFrame
<1>1. \A s, d \in Byte, p \in Seq(Nat) : StateFrame(s, d, p) \in PrinterFrame
  BY DEF StateFrame, PrinterFrame, Notification, Byte
<1>2. \A op \in Byte, p \in Seq(Nat) : NotificationFrame(op, p) \in PrinterFrame
  BY DEF NotificationFrame, PrinterFrame, Byte
<1>3. <<>> \in Seq(Nat) /\ <<0, 7>> \in Seq(Nat) /\ \A n \in Nat : <<n>> \in Seq(Nat)
  OBVIOUS
<1>4. /\ \A name \in DOMAIN PrintState : PrintState[name] \in Byte
      /\ \A name \in DOMAIN Notification : Notification[name] \in Byte
      /\ 0 \in Byte /\ 1 \in Byte /\ 4 \in Byte /\ 28 \in Byte /\ 53 \in Byte
  BY DEF PrintState, Notification, Byte
<1>5. /\ NeedsAck \in PrinterFrame /\ ReadyFrame \in PrinterFrame
      /\ MediaInfo \in PrinterFrame /\ FinishedFrame \in PrinterFrame
      /\ FaultFrame \in PrinterFrame
  BY <1>1, <1>3, <1>4
     DEF NeedsAck, ReadyFrame, MediaInfo, FinishedFrame, FaultFrame, PrintState
<1>6. Heartbeat \in PrinterFrame /\ InfoBlock \in PrinterFrame /\ TearDown \in PrinterFrame
  BY <1>2, <1>3, <1>4 DEF Heartbeat, InfoBlock, TearDown, Notification
<1>7. ASSUME NEW n \in Nat
      PROVE  /\ RequestFrame(n) \in PrinterFrame
             /\ RequestFrame(n).payload = <<n>>
             /\ IsRequest(RequestFrame(n))
  <2>1. RequestFrame(n) \in PrinterFrame
    BY <1>1, <1>3, <1>4 DEF RequestFrame, PrintState
  <2>2. RequestFrame(n).payload = <<n>>
    BY DEF RequestFrame, StateFrame
  <2> QED
    BY <2>1, <2>2 DEF IsRequest
<1> QED
  BY <1>5, <1>6, <1>7 DEF DeviceFrame

(* No two kinds of its frames are confused with each other.                *)
LEMMA DeviceFramesDiffer ==
  /\ NeedsAck \notin {ReadyFrame, MediaInfo, FinishedFrame, FaultFrame, Heartbeat,
                      InfoBlock, TearDown}
  /\ ReadyFrame \notin {MediaInfo, FinishedFrame, FaultFrame, Heartbeat, InfoBlock, TearDown}
  /\ MediaInfo \notin {FinishedFrame, FaultFrame, Heartbeat, InfoBlock, TearDown}
  /\ FinishedFrame \notin {FaultFrame, Heartbeat, InfoBlock, TearDown}
  /\ FaultFrame \notin {Heartbeat, InfoBlock, TearDown}
  /\ Heartbeat \notin {InfoBlock, TearDown}
  /\ InfoBlock # TearDown
  /\ \A n : RequestFrame(n) \notin {NeedsAck, ReadyFrame, MediaInfo, FinishedFrame,
                                    FaultFrame, Heartbeat, InfoBlock, TearDown}
  /\ \A m, n : RequestFrame(m) = RequestFrame(n) => m = n
<1>1. \A s, t, d, e, p, q : StateFrame(s, d, p) = StateFrame(t, e, q)
                              => s = t /\ d = e /\ p = q
  BY DEF StateFrame
<1>2. \A s, d, p, o, q : o # 0 => StateFrame(s, d, p) # NotificationFrame(o, q)
  BY DEF StateFrame, NotificationFrame, Notification
<1>3. \A o, p, q, r : NotificationFrame(o, q) = NotificationFrame(p, r) => o = p
  BY DEF NotificationFrame
<1>4. \A m, n : <<m>> = <<n>> => m = n
  OBVIOUS
<1> QED
  BY <1>1, <1>2, <1>3, <1>4
     DEF NeedsAck, ReadyFrame, RequestFrame, MediaInfo, FinishedFrame, FaultFrame,
         Heartbeat, InfoBlock, TearDown, PrintState, Notification

(* What a job makes of each of them (handleFrame).                         *)
LEMMA AnswersToDevice ==
  ASSUME NEW s \in Session, NEW len \in Nat
  PROVE  /\ HandleFrame(s, len, NeedsAck) = Result(s, SendAction(AckFrame))
         /\ HandleFrame(s, len, ReadyFrame) = Result(s, SendAction(JobStart(len)))
         /\ HandleFrame(s, len, MediaInfo) = Result(s, WaitAction)
         /\ HandleFrame(s, len, FinishedFrame) = FinishedResponse(s)
         /\ HandleFrame(s, len, FaultFrame) = Result([s EXCEPT !.failed = TRUE], ThrowAction)
         /\ HandleFrame(s, len, Heartbeat) = HeartbeatResponse(s)
         /\ HandleFrame(s, len, InfoBlock) = DataResponse(s, len, InfoBlock)
         /\ HandleFrame(s, len, TearDown)
              = Result([s EXCEPT !.finished = TRUE], DoneAction)
         /\ \A n : HandleFrame(s, len, RequestFrame(n)) = DataResponse(s, len, RequestFrame(n))
<1>1. ASSUME NEW st, NEW d, NEW p
      PROVE  HandleFrame(s, len, StateFrame(st, d, p))
               = HandlePrintState(s, len, StateFrame(st, d, p))
  BY DEF HandleFrame, StateFrame, Notification, EndOpcodes, IgnoredOpcodes, Command,
         ReachesPrintState
<1>2. HandleFrame(s, len, NeedsAck) = Result(s, SendAction(AckFrame))
  <2>1. NeedsAck.arg1 = 5 /\ NeedsAck.arg3 = 53
    BY DEF NeedsAck, StateFrame, PrintState
  <2> QED
    BY <1>1, <2>1 DEF NeedsAck, HandlePrintState, IsFault, PrintState, AckFrame
<1>3. HandleFrame(s, len, ReadyFrame) = Result(s, SendAction(JobStart(len)))
  BY <1>1 DEF ReadyFrame, HandlePrintState, StateFrame, IsFault, PrintState
<1>4. HandleFrame(s, len, MediaInfo) = Result(s, WaitAction)
  BY <1>1 DEF MediaInfo, HandlePrintState, StateFrame, IsFault, PrintState
<1>5. HandleFrame(s, len, FinishedFrame) = FinishedResponse(s)
  BY <1>1 DEF FinishedFrame, HandlePrintState, StateFrame, IsFault, PrintState
<1>6. HandleFrame(s, len, FaultFrame) = Result([s EXCEPT !.failed = TRUE], ThrowAction)
  <2>1. FaultFrame.arg1 = 0 /\ FaultFrame.arg3 = 4 /\ IsFault(FaultFrame)
    BY DEF FaultFrame, StateFrame, PrintState, IsFault
  <2>2. HandlePrintState(s, len, FaultFrame) = Result([s EXCEPT !.failed = TRUE], ThrowAction)
    BY <2>1 DEF HandlePrintState, PrintState
  <2> QED
    BY <1>1, <2>2 DEF FaultFrame
<1>7. HandleFrame(s, len, Heartbeat) = HeartbeatResponse(s)
  BY DEF Heartbeat, NotificationFrame, HandleFrame, Notification, EndOpcodes,
     IgnoredOpcodes, Command, ReachesPrintState
<1>8. HandleFrame(s, len, InfoBlock) = DataResponse(s, len, InfoBlock)
  BY DEF InfoBlock, NotificationFrame, HandleFrame, Notification, EndOpcodes, Command,
         IgnoredOpcodes, ReachesPrintState, HandlePrintState, IsFault, PrintState
<1>9. HandleFrame(s, len, TearDown) = Result([s EXCEPT !.finished = TRUE], DoneAction)
  BY DEF TearDown, NotificationFrame, HandleFrame, Notification, EndOpcodes,
     IgnoredOpcodes, Command, ReachesPrintState
<1>10. ASSUME NEW n
       PROVE  HandleFrame(s, len, RequestFrame(n)) = DataResponse(s, len, RequestFrame(n))
  BY <1>1 DEF RequestFrame, HandlePrintState, StateFrame, IsFault, PrintState
<1> QED
  BY <1>2, <1>3, <1>4, <1>5, <1>6, <1>7, <1>8, <1>9, <1>10

(* A slice answers the offset it was asked for and is counted as sent.     *)
LEMMA SliceAnswersOffset ==
  ASSUME NEW s \in Session, NEW len \in Nat, NEW f,
         f.arg1 = 0, f.arg2 = 0, f.payload # <<>>, f.payload[1] \in Nat,
         NEW r, r = DataResponse(s, len, f)
  PROVE  \/ r = Result(s, WaitAction)
         \/ \E end \in Nat, op \in DataOpcodes :
              /\ r.session = [s EXCEPT !.bytesSent = end]
              /\ r.action = SendAction(HostFrameOf(op, 0, 0, <<f.payload[1], end>>))
              /\ f.payload[1] < end
<1> DEFINE n   == f.payload[1]
           end == SliceEnd(n, len)
           op  == IF UsesModernOpcodes THEN Command.DATA ELSE Command.DATA_LEGACY
<1>1. RequestedOffset(s, f) = n
  BY DEF RequestedOffset
<1>2. CASE PastEnd(n, len)
  BY <1>1, <1>2 DEF DataResponse
<1>3. CASE ~PastEnd(n, len)
  <2>1. DataResponse(s, len, f)
          = Result(Advance(s, end), SendAction(HostFrameOf(op, 0, 0, <<n, end>>)))
    BY <1>1, <1>3 DEF DataResponse
  <2>2. op \in DataOpcodes
    BY DEF DataOpcodes
  <2>3. end \in Nat /\ n < end
    BY <1>3, SessionAssumption DEF PastEnd, SliceEnd
  <2> QED
    BY <2>1, <2>2, <2>3 DEF Result, Advance
<1> QED
  BY <1>2, <1>3

-----------------------------------------------------------------------------
(* Every step of the system is one of Printer, or delivers a frame of      *)
(* the device to the listeners.                                            *)
LEMMA SystemStepIsPrinterStep ==
  ASSUME [SysNext]_sysVars
  PROVE  [Next]_vars \/ (toHost # <<>> /\ BeginDelivery(Head(toHost)))
<1>1. CASE SysConnect \/ SysDisconnect \/ SysCloses \/ SysCancel
  BY <1>1 DEF SysConnect, SysDisconnect, SysCloses, SysCancel, Next, ChannelStep
<1>2. ASSUME NEW j \in Jobs, SysStartJob(j) \/ JobWriteSettles(j) \/ SysTimeout(j)
      PROVE  Next
  BY <1>2 DEF SysStartJob, JobWriteSettles, SysTimeout, Next, JobStep
<1>3. ASSUME NEW q \in Queries, SysQuery(q) PROVE Next
  BY <1>3 DEF SysQuery, Next, QueryStep
<1>4. CASE HandleDelivered
  BY <1>4 DEF HandleDelivered, Next, JobStep, QueryStep
<1>5. CASE Deliver
  BY <1>5 DEF Deliver
<1>6. CASE DeviceTakes
  BY <1>6 DEF DeviceTakes, Next
<1>7. CASE DeviceFinishes \/ DeviceReportsMedia \/ DeviceBeats \/ DeviceFaults
           \/ DeviceTearsDown
  BY <1>7 DEF DeviceFinishes, DeviceReportsMedia, DeviceBeats, DeviceFaults,
     DeviceTearsDown, DeviceSends
<1>8. CASE UNCHANGED sysVars
  BY <1>8 DEF sysVars
<1> QED
  BY <1>1, <1>2, <1>3, <1>4, <1>5, <1>6, <1>7, <1>8 DEF SysNext, HandlerStep

(* So Printer's invariant is kept in it: what is proved of printRaw for    *)
(* any frame holds for the frames of the device.                           *)
LEMMA SystemKeepsPrinter ==
  ASSUME IInv, toHost \in Seq(DeviceFrame), [SysNext]_sysVars
  PROVE  IInv'
<1>1. ASSUME [Next]_vars PROVE IInv'
  BY <1>1, StepPreserves
<1>2. ASSUME toHost # <<>>, BeginDelivery(Head(toHost)) PROVE IInv'
  <2>1. Head(toHost) \in PrinterFrame
    BY <1>2, HeadTailProperties, DeviceFrames
  <2> QED
    BY <1>2, <2>1, BeginDeliveryPreserves
<1> QED
  BY <1>1, <1>2, SystemStepIsPrinterStep

(* The jobs that run are the ones that hear the device.                    *)
LEMMA RunningIsListening ==
  ASSUME IInv
  PROVE  /\ Running = frameListeners \cap Jobs
         /\ todo \cap Jobs \subseteq Running
         /\ Running \subseteq Jobs
         /\ channel = "closed" => Running = {}
  BY DEF IInv, Running, RegisteredWhileRunning, VisitsRegistered, ClosedChannelRunsNoJob

-----------------------------------------------------------------------------
(* The steps of the system by what they do to the conversation.  In the    *)
(* first kind the host takes something back: calls settle, frames of their *)
(* failed writes disappear.                                                *)
Recedes ==
  /\ UNCHANGED <<session, frame, todo, toHost, device, printed>>
  /\ Running' \subseteq Running
  /\ \A j \in Jobs : outcome[j] # "idle" => outcome'[j] # "idle"
  /\ \A j \in Running \ Running' :
       outcome'[j] \in Failures \/ (outcome'[j] = "resolved" /\ session[j].finished)
  /\ ToSet(wire') \subseteq ToSet(wire)
  /\ \A m \in ToSet(wire) : m.by \in Running' => m \in ToSet(wire')
  /\ \A A, B : NoneAfter(wire, A, B) => NoneAfter(wire', A, B)
  /\ wire = <<>> => wire' = <<>>
  /\ channel' = "open" => channel \in {"open", "closed"}
  /\ channel' = "closed" => channel = "closed"

(* A call that settles leaves the jobs that run, and the others as they    *)
(* were.                                                                   *)
LEMMA FinishRecedes ==
  ASSUME IInv, NEW j \in Jobs, NEW why \in Failures \cup {"resolved"}, Finish({j}, why),
         why = "resolved" => session[j].finished
  PROVE  /\ Running' = Running \ {j}
         /\ \A k \in Jobs : outcome[k] # "idle" => outcome'[k] # "idle"
         /\ \A k \in Running \ Running' :
              outcome'[k] \in Failures \/ (outcome'[k] = "resolved" /\ session[k].finished)
<1>1. why \notin {"idle", "running"}
  BY DEF Failures
<1>2. outcome' = [k \in Jobs |-> IF k = j /\ outcome[j] = "running" THEN why ELSE outcome[k]]
  BY DEF Finish, IInv, TypeOK
<1> QED
  BY <1>1, <1>2 DEF Running

(* A failed write takes nothing from an empty wire.                        *)
LEMMA WireEmpty ==
  ASSUME wire = <<>>, NEW c, NEW kind
  PROVE  WireAfterFailure(c, kind) = {wire}
  BY DEF WireAfterFailure

(* A failed write of a call that does not run takes messages of that       *)
(* call alone, and keeps the order of the others.                          *)
LEMMA FailureRecedes ==
  ASSUME IInv, NEW c, NEW kind, wire' \in WireAfterFailure(c, kind), c \notin Running'
  PROVE  /\ ToSet(wire') \subseteq ToSet(wire)
         /\ \A m \in ToSet(wire) : m.by \in Running' => m \in ToSet(wire')
         /\ \A A, B : NoneAfter(wire, A, B) => NoneAfter(wire', A, B)
         /\ wire = <<>> => wire' = <<>>
<1>1. /\ ToSet(wire') \subseteq ToSet(wire)
      /\ \A m \in ToSet(wire) : m.by # c => m \in ToSet(wire')
      /\ \A A, B : NoneAfter(wire, A, B) => NoneAfter(wire', A, B)
  BY WireAfterFailureEffect DEF IInv
<1> QED
  BY <1>1, WireEmpty

(* Opening and closing the transport, refused calls, settled writes and    *)
(* timers recede.                                                          *)
LEMMA RecedingSteps ==
  ASSUME IInv
  PROVE  /\ UNCHANGED sysVars => Recedes
         /\ SysConnect \/ SysDisconnect => Recedes
         /\ \A j \in Jobs : RefuseJob(j) /\ HostOnly => Recedes
         /\ \A j \in Jobs : JobWriteSettles(j) \/ SysTimeout(j) => Recedes
         /\ \A q \in Queries : (RequestSettles(q) \/ InfoTimeout(q)) /\ HostOnly => Recedes
<1>1. ASSUME UNCHANGED sysVars PROVE Recedes
  BY <1>1 DEF sysVars, vars, Recedes, Running
<1>2. ASSUME SysConnect \/ SysDisconnect PROVE Recedes
  BY <1>2 DEF SysConnect, SysDisconnect, Connect, Disconnect, HostOnly, Recedes, Running
<1>3. ASSUME NEW j \in Jobs, RefuseJob(j), HostOnly PROVE Recedes
  <2>1. PICK why \in Refusals : outcome' = [outcome EXCEPT ![j] = why]
    BY <1>3 DEF RefuseJob, Refusals
  <2>2. outcome[j] = "idle" /\ why \notin {"idle", "running"} /\ outcome \in [Jobs -> Outcomes]
    BY <1>3 DEF RefuseJob, Refusals, IInv, TypeOK
  <2>3. Running' = Running
    BY <2>1, <2>2 DEF Running
  <2>4. UNCHANGED <<channel, session, frame, todo, wire>>
    BY <1>3 DEF RefuseJob
  <2> QED
    BY <1>3, <2>1, <2>2, <2>3, <2>4 DEF HostOnly, Recedes
<1>4. ASSUME NEW j \in Jobs, WriteLands(j), HostOnly PROVE Recedes
  <2>1. UNCHANGED <<channel, session, frame, todo, wire>>
    BY <1>4 DEF WriteLands
  <2>2. CASE UNCHANGED outcome
    BY <1>4, <2>1, <2>2 DEF HostOnly, Recedes, Running
  <2>3. CASE pending[j]["final"] > 0 /\ Finish({j}, "resolved")
    <3>1. session[j].finished
      BY <2>3 DEF IInv, FinalWritesFollowFinish
    <3>2. /\ Running' = Running \ {j}
          /\ \A k \in Jobs : outcome[k] # "idle" => outcome'[k] # "idle"
          /\ \A k \in Running \ Running' :
               outcome'[k] \in Failures \/ (outcome'[k] = "resolved" /\ session[k].finished)
      BY <2>3, <3>1, FinishRecedes
    <3> QED
      BY <1>4, <2>1, <3>2 DEF HostOnly, Recedes
  <2> QED
    BY <1>4, <2>2, <2>3 DEF WriteLands
<1>5. ASSUME NEW j \in Jobs, WriteFails(j), HostOnly PROVE Recedes
  <2>1. Finish({j}, "writeFailed") /\ UNCHANGED <<channel, session, frame, todo>>
    BY <1>5 DEF WriteFails
  <2>2. PICK kind \in Kinds : wire' \in WireAfterFailure(j, kind)
    BY <1>5 DEF WriteFails
  <2>3. /\ Running' = Running \ {j}
        /\ \A k \in Jobs : outcome[k] # "idle" => outcome'[k] # "idle"
        /\ \A k \in Running \ Running' :
             outcome'[k] \in Failures \/ (outcome'[k] = "resolved" /\ session[k].finished)
    BY <2>1, FinishRecedes DEF Failures
  <2>4. /\ ToSet(wire') \subseteq ToSet(wire)
        /\ \A m \in ToSet(wire) : m.by \in Running' => m \in ToSet(wire')
        /\ \A A, B : NoneAfter(wire, A, B) => NoneAfter(wire', A, B)
        /\ wire = <<>> => wire' = <<>>
    BY <2>2, <2>3, FailureRecedes
  <2> QED
    BY <1>5, <2>1, <2>3, <2>4 DEF HostOnly, Recedes
<1>6. ASSUME NEW j \in Jobs, JobTimeout(j), HostOnly PROVE Recedes
  <2>1. Finish({j}, "timeout") /\ UNCHANGED <<channel, session, frame, todo, wire>>
    BY <1>6 DEF JobTimeout
  <2>2. /\ Running' = Running \ {j}
        /\ \A k \in Jobs : outcome[k] # "idle" => outcome'[k] # "idle"
        /\ \A k \in Running \ Running' :
             outcome'[k] \in Failures \/ (outcome'[k] = "resolved" /\ session[k].finished)
    BY <2>1, FinishRecedes DEF Failures
  <2> QED
    BY <1>6, <2>1, <2>2 DEF HostOnly, Recedes
<1>7. ASSUME NEW q \in Queries, RequestSettles(q) \/ InfoTimeout(q), HostOnly PROVE Recedes
  <2>1. UNCHANGED <<channel, outcome, session, frame, todo>> /\ Running' = Running
    BY <1>7 DEF RequestSettles, InfoTimeout, Running
  <2>2. q \notin Running
    BY PrinterAssumption DEF Running
  <2>3. CASE wire' = wire
    BY <1>7, <2>1, <2>3 DEF HostOnly, Recedes
  <2>4. CASE \E kind \in Kinds : wire' \in WireAfterFailure(q, kind)
    <3>1. /\ ToSet(wire') \subseteq ToSet(wire)
          /\ \A m \in ToSet(wire) : m.by \in Running' => m \in ToSet(wire')
          /\ \A A, B : NoneAfter(wire, A, B) => NoneAfter(wire', A, B)
          /\ wire = <<>> => wire' = <<>>
      BY <2>1, <2>2, <2>4, FailureRecedes
    <3> QED
      BY <1>7, <2>1, <3>1 DEF HostOnly, Recedes
  <2> QED
    BY <1>7, <2>3, <2>4 DEF RequestSettles, InfoTimeout
<1> QED
  BY <1>1, <1>2, <1>3, <1>4, <1>5, <1>6, <1>7 DEF JobWriteSettles, SysTimeout

-----------------------------------------------------------------------------
(* The frames the host sends carry the opcodes they are named for.         *)
LEMMA HostFrames ==
  /\ StartFrame \in HostFrame /\ StartFrame.opcode = Command.SESSION_START
  /\ HeartbeatEcho \in HostFrame /\ HeartbeatEcho.opcode = Command.HEARTBEAT
  /\ EndJobFrame \in HostFrame /\ EndJobFrame.opcode = Command.END_JOB
  /\ DeviceInfoRequest \in HostFrame /\ DeviceInfoRequest.opcode = Command.DEVICE_INFO
  /\ AckFrame \in HostFrame /\ AckFrame.opcode = Command.ACK /\ AckFrame.arg1 = 53
  /\ \A len \in Nat : /\ JobStart(len) \in HostFrame
                      /\ JobStart(len).opcode \in PrintStarts
                      /\ JobStart(len).payload # <<>>
<1>1. 53 \in Byte
  BY DEF Byte
<1>2. \A op, a1, a2, p : /\ HostFrameOf(op, a1, a2, p).opcode = op
                         /\ HostFrameOf(op, a1, a2, p).arg1 = a1
                         /\ HostFrameOf(op, a1, a2, p).payload = p
  BY DEF HostFrameOf
<1>3. ASSUME NEW len \in Nat
      PROVE  JobStart(len).opcode \in PrintStarts /\ JobStart(len).payload # <<>>
  BY <1>2 DEF JobStart, PrintStarts
<1> QED
  BY <1>1, <1>2, <1>3, FixedFrames
     DEF StartFrame, HeartbeatEcho, EndJobFrame, DeviceInfoRequest, AckFrame

(* In the second kind of step someone other than a job sends a frame, and  *)
(* a query may see the one being delivered.                                *)
Murmurs ==
  /\ UNCHANGED <<channel, outcome, session, toHost, device, printed>>
  /\ todo' \subseteq todo
  /\ todo' \cap Jobs = todo \cap Jobs
  /\ todo' # {} => frame' = frame
  /\ channel = "closed" => wire' = wire
  /\ \/ wire' = wire
     \/ \E m \in Message :
          /\ wire' = Append(wire, m)
          /\ \/ m.by = Caller /\ m.frame = EndJobFrame
             \/ m.by \in Queries /\ m.frame.opcode \in {Command.HEARTBEAT, Command.DEVICE_INFO}

(* Cancels and the requests and echoes of device queries murmur.           *)
LEMMA MurmuringSteps ==
  ASSUME IInv
  PROVE  /\ SysCancel => Murmurs
         /\ \A q \in Queries : (RequestDeviceInfo(q) \/ InfoOnFrame(q)) /\ HostOnly => Murmurs
<1>1. ASSUME SysCancel PROVE Murmurs
  <2>1. [by |-> Caller, frame |-> EndJobFrame] \in Message
    BY HostFrames DEF Message
  <2>2. /\ UNCHANGED <<channel, outcome, session, frame, todo>>
        /\ channel = "open"
        /\ wire' = Append(wire, [by |-> Caller, frame |-> EndJobFrame])
    BY <1>1 DEF SysCancel, Cancel, CallerWrites, WriteAndForget
  <2> QED
    BY <1>1, <2>1, <2>2 DEF SysCancel, HostOnly, Murmurs
<1>2. ASSUME NEW q \in Queries, NEW f \in {HeartbeatEcho, DeviceInfoRequest}
      PROVE  /\ [by |-> q, frame |-> f] \in Message
             /\ f.opcode \in {Command.HEARTBEAT, Command.DEVICE_INFO}
  BY HostFrames DEF Message, Calls
<1>3. ASSUME NEW q \in Queries, RequestDeviceInfo(q), HostOnly PROVE Murmurs
  <2>1. /\ UNCHANGED <<channel, outcome, session, frame, todo>>
        /\ wire' = IF channel = "open"
                   THEN Append(wire, [by |-> q, frame |-> DeviceInfoRequest]) ELSE wire
    BY <1>3 DEF RequestDeviceInfo, Write
  <2> QED
    BY <1>2, <1>3, <2>1 DEF HostOnly, Murmurs
<1>4. ASSUME NEW q \in Queries, InfoOnFrame(q), HostOnly PROVE Murmurs
  <2>1. /\ UNCHANGED <<channel, outcome, session>>
        /\ todo' = todo \ {q}
        /\ frame' = IF todo = {q} THEN NoFrame ELSE frame
        /\ \/ wire' = wire
           \/ wire' = IF channel = "open"
                      THEN Append(wire, [by |-> q, frame |-> HeartbeatEcho]) ELSE wire
    BY <1>4 DEF InfoOnFrame, Delivered, WriteAndForget
  <2>2. q \notin Jobs
    BY PrinterAssumption
  <2> QED
    BY <1>2, <1>4, <2>1, <2>2 DEF HostOnly, Murmurs
<1> QED
  BY <1>1, <1>3, <1>4

(* A job starts.                                                           *)
LEMMA StartingStep ==
  ASSUME IInv, NEW j \in Jobs, StartJob(j), HostOnly
  PROVE  /\ UNCHANGED <<channel, session, frame, todo, toHost, device, printed>>
         /\ channel = "open"
         /\ outcome[j] = "idle" /\ ~session[j].finished
         /\ outcome' = [outcome EXCEPT ![j] = "running"]
         /\ Running' = Running \cup {j}
         /\ [by |-> j, frame |-> StartFrame] \in StartMessage
         /\ wire' = Append(wire, [by |-> j, frame |-> StartFrame])
<1>1. session' = session /\ ~session[j].finished
  BY DEF StartJob, IInv, FreshUntilCalled, TypeOK, NewSession
<1>2. Running' = Running \cup {j}
  BY DEF StartJob, IInv, TypeOK, Running
<1>3. [by |-> j, frame |-> StartFrame] \in StartMessage
  BY HostFrames DEF StartMessage, Message, Calls
<1> QED
  BY <1>1, <1>2, <1>3 DEF StartJob, IsOpen, Write, HostOnly

(* A frame leaves the queue of the host: it is being delivered to all that *)
(* listen, or is lost since nobody does.                                   *)
LEMMA DeliveringStep ==
  ASSUME IInv, Deliver
  PROVE  /\ UNCHANGED <<channel, outcome, session, wire, device, printed>>
         /\ channel # "closed"
         /\ toHost # <<>> /\ toHost' = Tail(toHost)
         /\ todo = {}
         /\ todo' = frameListeners
         /\ todo' # {} => frame' = Head(toHost)
         /\ todo' \cap Jobs = Running
<1>1. Running = frameListeners \cap Jobs
  BY RunningIsListening
<1> QED
  BY <1>1 DEF Deliver, BeginDelivery, Idle, vars

-----------------------------------------------------------------------------
(* A job sees a frame of the device.                                       *)
JobWrites(j, h) ==
  wire' = IF channel = "open" THEN Append(wire, [by |-> j, frame |-> h]) ELSE wire

HostAnswers(j) ==
  \/ frame = NeedsAck /\ UNCHANGED <<session, outcome>> /\ JobWrites(j, AckFrame)
  \/ frame = ReadyFrame /\ UNCHANGED <<session, outcome>> /\ JobWrites(j, JobStart(ImageLen[j]))
  \/ frame = Heartbeat /\ UNCHANGED <<session, outcome>> /\ JobWrites(j, HeartbeatEcho)
  \/ frame \notin Enders \cup {Heartbeat} /\ UNCHANGED <<session, outcome, wire>>
  \/ /\ frame = FinishedFrame
     /\ session' = [session EXCEPT ![j].finished = TRUE]
     /\ UNCHANGED outcome
     /\ JobWrites(j, EndJobFrame)
  \/ /\ frame = FaultFrame
     /\ session' = [session EXCEPT ![j].failed = TRUE]
     /\ outcome' = [outcome EXCEPT ![j] = "fault"]
     /\ UNCHANGED wire
  \/ /\ frame = TearDown
     /\ session' = [session EXCEPT ![j].finished = TRUE]
     /\ outcome' = [outcome EXCEPT ![j] = "resolved"]
     /\ UNCHANGED wire
  \/ /\ frame = InfoBlock \/ IsRequest(frame)
     /\ \E end \in Nat, op \in DataOpcodes :
          /\ frame.payload[1] < end
          /\ session' = [session EXCEPT ![j].bytesSent = end]
          /\ JobWrites(j, HostFrameOf(op, 0, 0, <<frame.payload[1], end>>))
     /\ UNCHANGED outcome

(* A job that runs answers the frame it sees as HandleFrame and OnFrame    *)
(* say.                                                                    *)
LEMMA AnsweringStep ==
  ASSUME IInv, todo # {} => frame \in DeviceFrame, NEW j \in Jobs, OnFrame(j)
  PROVE  /\ j \in todo /\ j \in Running
         /\ frame \in DeviceFrame
         /\ UNCHANGED channel
         /\ todo' = todo \ {j}
         /\ todo' # {} => frame' = frame
         /\ HostAnswers(j)
<1> DEFINE r == HandleFrame(session[j], ImageLen[j], frame)
<1>1. /\ j \in todo /\ j \in Running /\ frame \in DeviceFrame
      /\ session[j] \in Session /\ ImageLen[j] \in Nat /\ outcome[j] = "running"
      /\ session \in [Jobs -> Session] /\ outcome \in [Jobs -> Outcomes]
  BY RunningIsListening, PrinterAssumption DEF OnFrame, IInv, TypeOK, Running
<1>2. /\ session' = [session EXCEPT ![j] = r.session]
      /\ \/ r.action.type = "throw" /\ Finish({j}, "fault") /\ UNCHANGED wire
         \/ r.action.type = "done" /\ Finish({j}, "resolved") /\ UNCHANGED wire
         \/ /\ r.action.type = "send"
            /\ Write(j, r.action.frame, WriteKind(r.action))
            /\ UNCHANGED outcome
         \/ r.action.type = "wait" /\ UNCHANGED <<outcome, wire>>
  BY DEF OnFrame
<1>0. /\ frame = NeedsAck => r = Result(session[j], SendAction(AckFrame))
      /\ frame = ReadyFrame => r = Result(session[j], SendAction(JobStart(ImageLen[j])))
      /\ frame = Heartbeat => r = Result(session[j], SendAction(HeartbeatEcho))
      /\ frame = MediaInfo => r = Result(session[j], WaitAction)
      /\ frame = FinishedFrame
           => r = Result([session[j] EXCEPT !.finished = TRUE], FinalAction(EndJobFrame))
      /\ frame = FaultFrame => r = Result([session[j] EXCEPT !.failed = TRUE], ThrowAction)
      /\ frame = TearDown => r = Result([session[j] EXCEPT !.finished = TRUE], DoneAction)
      /\ frame = InfoBlock \/ IsRequest(frame)
           => r = DataResponse(session[j], ImageLen[j], frame)
  BY <1>1, AnswersToDevice DEF HeartbeatResponse, FinishedResponse, IsRequest
<1> HIDE DEF r
<1>3. UNCHANGED channel /\ todo' = todo \ {j} /\ (todo' # {} => frame' = frame)
  BY DEF OnFrame, Delivered
<1> SUFFICES HostAnswers(j)
  BY <1>1, <1>3
<1>4. ASSUME NEW why, Finish({j}, why) PROVE outcome' = [outcome EXCEPT ![j] = why]
  BY <1>1, <1>4 DEF Finish
<1>5. ASSUME NEW s \in Session, NEW h, s = session[j],
             r = Result(s, SendAction(h)) \/ r = Result(s, FinalAction(h))
      PROVE  UNCHANGED <<session, outcome>> /\ JobWrites(j, h)
  <2>1. r.session = session[j] /\ r.action.type = "send" /\ r.action.frame = h
    BY <1>5 DEF Result, SendAction, FinalAction
  <2> QED
    BY <1>1, <1>2, <2>1 DEF Write, JobWrites
<1>6. ASSUME r = Result(session[j], WaitAction) PROVE UNCHANGED <<session, outcome, wire>>
  <2>1. r.session = session[j] /\ r.action.type = "wait"
    BY <1>6 DEF Result, WaitAction
  <2> QED
    BY <1>1, <1>2, <2>1
<1>7. CASE frame = NeedsAck
  BY <1>0, <1>1, <1>5, <1>7 DEF HostAnswers
<1>8. CASE frame = ReadyFrame
  BY <1>0, <1>1, <1>5, <1>8 DEF HostAnswers
<1>9. CASE frame = Heartbeat
  BY <1>0, <1>1, <1>5, <1>9 DEF HostAnswers
<1>10. CASE frame = MediaInfo
  BY <1>0, <1>6, <1>10, DeviceFramesDiffer DEF HostAnswers, Enders
<1>11. CASE frame = FinishedFrame
  <2>1. r = Result([session[j] EXCEPT !.finished = TRUE], FinalAction(EndJobFrame))
    BY <1>0, <1>11
  <2>2. /\ r.session = [session[j] EXCEPT !.finished = TRUE]
        /\ r.action.type = "send" /\ r.action.frame = EndJobFrame
    BY <2>1 DEF Result, FinalAction
  <2>3. session' = [session EXCEPT ![j].finished = TRUE]
    BY <1>1, <1>2, <2>2
  <2> QED
    BY <1>2, <1>11, <2>2, <2>3 DEF HostAnswers, Write, JobWrites
<1>12. CASE frame = FaultFrame
  <2>1. r = Result([session[j] EXCEPT !.failed = TRUE], ThrowAction)
    BY <1>0, <1>12
  <2>2. r.session = [session[j] EXCEPT !.failed = TRUE] /\ r.action.type = "throw"
    BY <2>1 DEF Result, ThrowAction
  <2>3. session' = [session EXCEPT ![j].failed = TRUE]
    BY <1>1, <1>2, <2>2
  <2> QED
    BY <1>2, <1>4, <1>12, <2>2, <2>3 DEF HostAnswers
<1>13. CASE frame = TearDown
  <2>1. r = Result([session[j] EXCEPT !.finished = TRUE], DoneAction)
    BY <1>0, <1>13
  <2>2. r.session = [session[j] EXCEPT !.finished = TRUE] /\ r.action.type = "done"
    BY <2>1 DEF Result, DoneAction
  <2>3. session' = [session EXCEPT ![j].finished = TRUE]
    BY <1>1, <1>2, <2>2
  <2> QED
    BY <1>2, <1>4, <1>13, <2>2, <2>3 DEF HostAnswers
<1>14. CASE frame = InfoBlock \/ IsRequest(frame)
  <2>1. frame \in PrinterFrame /\ frame.arg1 = 0 /\ frame.arg2 = 0 /\ frame.payload # <<>>
    <3>1. InfoBlock.arg1 = 0 /\ InfoBlock.arg2 = 0 /\ InfoBlock.payload # <<>>
      BY DEF InfoBlock, NotificationFrame
    <3>2. \A n : RequestFrame(n).arg1 = 0 /\ RequestFrame(n).arg2 = 0
      BY DEF RequestFrame, StateFrame, PrintState
    <3>3. IsRequest(frame) => frame.payload # <<>> /\ \E n : frame = RequestFrame(n)
      BY DEF IsRequest
    <3> QED
      BY <1>1, <1>14, <3>1, <3>2, <3>3 DEF DeviceFrame
  <2>0. frame.payload[1] \in Nat /\ frame \notin Enders \cup {Heartbeat}
    BY <1>14, <2>1, DeviceFramesDiffer DEF PrinterFrame, IsRequest, Enders
  <2>2. \/ r = Result(session[j], WaitAction)
        \/ \E end \in Nat, op \in DataOpcodes :
             /\ r.session = [session[j] EXCEPT !.bytesSent = end]
             /\ r.action = SendAction(HostFrameOf(op, 0, 0, <<frame.payload[1], end>>))
             /\ frame.payload[1] < end
    BY <1>0, <1>1, <1>14, <2>0, <2>1, SliceAnswersOffset
  <2>3. CASE r = Result(session[j], WaitAction)
    BY <1>6, <2>0, <2>3 DEF HostAnswers
  <2>4. ASSUME NEW end \in Nat, NEW op \in DataOpcodes,
               r.session = [session[j] EXCEPT !.bytesSent = end],
               r.action = SendAction(HostFrameOf(op, 0, 0, <<frame.payload[1], end>>)),
               frame.payload[1] < end
        PROVE  HostAnswers(j)
    <3>1. /\ r.action.type = "send"
          /\ r.action.frame = HostFrameOf(op, 0, 0, <<frame.payload[1], end>>)
      BY <2>4 DEF SendAction
    <3>2. session' = [session EXCEPT ![j].bytesSent = end]
      BY <1>1, <1>2, <2>4
    <3>3. /\ JobWrites(j, HostFrameOf(op, 0, 0, <<frame.payload[1], end>>))
          /\ UNCHANGED outcome
      BY <1>2, <3>1 DEF Write, JobWrites
    <3> QED
      BY <1>14, <2>4, <3>2, <3>3 DEF HostAnswers
  <2> QED
    BY <2>2, <2>3, <2>4
<1> QED
  BY <1>1, <1>7, <1>8, <1>9, <1>10, <1>11, <1>12, <1>13, <1>14 DEF DeviceFrame

-----------------------------------------------------------------------------
(* What the device does with a frame of the host.                          *)
DeviceReacts(m) ==
  \/ /\ m.frame.opcode = Command.SESSION_START
     /\ device' = [QuietDevice EXCEPT !.phase = "greeting", !.job = m.by,
                                      !.confused = device.confused]
     /\ toHost' = Append(toHost, NeedsAck)
  \/ /\ m.frame.opcode = Command.HEARTBEAT
     /\ device' = [device EXCEPT !.awaitsEcho = FALSE]
     /\ toHost' = toHost
  \/ /\ m.frame.opcode = Command.DEVICE_INFO
     /\ device' = device
     /\ toHost' = Append(toHost, InfoBlock)
  \/ /\ m.frame.opcode = Command.ACK /\ device.phase = "greeting"
     /\ device' = [device EXCEPT !.phase = "ready"]
     /\ toHost' = Append(toHost, ReadyFrame)
  \/ /\ m.frame.opcode = Command.ACK /\ device.phase = "received"
     /\ device' = [device EXCEPT !.phase = "printing"]
     /\ toHost' = toHost
  \/ /\ m.frame.opcode \in PrintStarts /\ device.phase = "ready"
     /\ \E want \in Nat : device' = [device EXCEPT !.phase = "pulling", !.want = want]
     /\ toHost' = Append(toHost, RequestFrame(0))
  \/ /\ m.frame.opcode \in DataOpcodes /\ device.phase = "pulling"
     /\ \E got \in Nat :
          /\ got <= m.frame.payload[2]
          /\ \/ /\ device' = [device EXCEPT !.got = got, !.phase = "received"]
                /\ toHost' = Append(toHost, NeedsAck)
             \/ /\ device' = [device EXCEPT !.got = got]
                /\ toHost' = Append(toHost, RequestFrame(got))
  \/ /\ m.frame.opcode = Command.END_JOB /\ m.by = Caller
     /\ device' = [device EXCEPT !.phase = IF @ = "quiet" THEN @ ELSE "aborted",
                                 !.awaitsEcho = FALSE]
     /\ toHost' = toHost
  \/ /\ m.frame.opcode = Command.END_JOB /\ m.by # Caller /\ device.phase = "finished"
     /\ device' = [device EXCEPT !.phase = "quiet", !.awaitsEcho = FALSE]
     /\ toHost' = toHost
  \/ /\ m.frame.opcode \notin {Command.SESSION_START, Command.HEARTBEAT,
                               Command.DEVICE_INFO}
     /\ m.frame.opcode = Command.ACK /\ m.frame.arg1 = 53
          => device.phase \notin {"greeting", "received"}
     /\ m.frame.opcode \in PrintStarts => device.phase # "ready"
     /\ m.frame.opcode \in DataOpcodes
          => ~(device.phase = "pulling" /\ m.frame.payload[1] = device.got)
     /\ m.frame.opcode = Command.END_JOB
          => m.by # Caller /\ device.phase # "finished"
     /\ device' = [device EXCEPT !.confused = device.phase \notin GivenUp]
     /\ toHost' = toHost

(* The device reacts to a message that travels in one of these ways.       *)
LEMMA ReactionCases ==
  ASSUME TrafficInv, NEW m \in KnownMessage, NEW r, r = Reacts(device, m),
         device' = r.device, toHost' = toHost \o r.frames
  PROVE  DeviceReacts(m)
<1> DEFINE f == m.frame
<1>1. /\ device \in Device /\ device.got \in Nat /\ toHost \in Seq(DeviceFrame)
      /\ f \in HostFrame /\ f.payload \in Seq(Nat) /\ f.opcode \in Nat
      /\ f.opcode \in PrintStarts => f.payload[1] \in Nat
      /\ f.opcode \in DataOpcodes => f.payload[2] \in Nat
  <2>1. f \in HostFrame /\ f.payload \in Seq(Nat) /\ f.opcode \in Nat
    <3>1. f \in HostFrame
      BY DEF KnownMessage, GoodMessage, Message
    <3>2. \A h \in HostFrame : h.payload \in Seq(Nat) /\ h.opcode \in Byte
      BY DEF HostFrame
    <3>3. Byte \subseteq Nat
      BY DEF Byte
    <3> QED
      BY <3>1, <3>2, <3>3
  <2>2. f.opcode \in PrintStarts => f.payload[1] \in Nat
    <3>1. f.opcode \in PrintStarts => f.payload # <<>>
      BY DEF KnownMessage
    <3> QED
      BY <2>1, <3>1
  <2>3. f.opcode \in DataOpcodes => f.payload[2] \in Nat
    <3>1. f.opcode \in DataOpcodes => Len(f.payload) = 2
      BY DEF KnownMessage, GoodMessage
    <3> QED
      BY <2>1, <3>1, ElementOfSeq
  <2>4. device \in Device /\ toHost \in Seq(DeviceFrame)
    BY DEF TrafficInv
  <2>5. device.got \in Nat
    BY <2>4 DEF Device
  <2> QED
    BY <2>1, <2>2, <2>3, <2>4, <2>5
<1>2. ASSUME NEW d, NEW g \in DeviceFrame, r = Reaction(d, <<g>>)
      PROVE  device' = d /\ toHost' = Append(toHost, g)
  <2>1. toHost \o <<g>> = Append(toHost, g)
    BY <1>1, AppendIsConcat
  <2> QED
    BY <1>2, <2>1 DEF Reaction
<1>3. ASSUME NEW d, r = Reaction(d, <<>>)
      PROVE  device' = d /\ toHost' = toHost
  <2>1. toHost \o <<>> = toHost
    BY <1>1, ConcatEmptySeq
  <2> QED
    BY <1>3, <2>1 DEF Reaction
<1>4. NeedsAck \in DeviceFrame /\ ReadyFrame \in DeviceFrame /\ InfoBlock \in DeviceFrame
      /\ \A n \in Nat : RequestFrame(n) \in DeviceFrame
  BY DeviceFrames
<1>5. CASE f.opcode = Command.SESSION_START
  <2>1. r = Reaction([QuietDevice EXCEPT !.phase = "greeting", !.job = m.by,
                                         !.confused = device.confused], <<NeedsAck>>)
    BY <1>5 DEF Reacts, Command, PrintStarts, DataOpcodes
  <2> QED
    BY <1>2, <1>4, <1>5, <2>1 DEF DeviceReacts
<1>6. CASE f.opcode = Command.HEARTBEAT
  <2>1. r = Reaction([device EXCEPT !.awaitsEcho = FALSE], <<>>)
    BY <1>6 DEF Reacts, Command, PrintStarts, DataOpcodes
  <2> QED
    BY <1>3, <1>6, <2>1 DEF DeviceReacts
<1>7. CASE f.opcode = Command.DEVICE_INFO
  <2>1. r = Reaction(device, <<InfoBlock>>)
    BY <1>7 DEF Reacts, Command, PrintStarts, DataOpcodes
  <2> QED
    BY <1>2, <1>4, <1>7, <2>1 DEF DeviceReacts
<1>8. CASE f.opcode = Command.ACK /\ device.phase = "greeting" /\ f.arg1 = 53
  <2>1. r = Reaction([device EXCEPT !.phase = "ready"], <<ReadyFrame>>)
    BY <1>8 DEF Reacts, Command, PrintStarts, DataOpcodes
  <2> QED
    BY <1>2, <1>4, <1>8, <2>1 DEF DeviceReacts
<1>9. CASE f.opcode = Command.ACK /\ device.phase = "received" /\ f.arg1 = 53
  <2>1. r = Reaction([device EXCEPT !.phase = "printing"], <<>>)
    BY <1>9 DEF Reacts, Command, PrintStarts, DataOpcodes
  <2> QED
    BY <1>3, <1>9, <2>1 DEF DeviceReacts
<1>10. CASE f.opcode \in PrintStarts /\ device.phase = "ready"
  <2>1. r = Reaction([device EXCEPT !.phase = "pulling", !.want = f.payload[1]],
                     <<RequestFrame(0)>>)
    BY <1>10 DEF Reacts, Command, PrintStarts, DataOpcodes
  <2> QED
    BY <1>1, <1>2, <1>4, <1>10, <2>1 DEF DeviceReacts
<1>11. CASE f.opcode \in DataOpcodes /\ device.phase = "pulling" /\ f.payload[1] = device.got
  <2> DEFINE got == Smaller(f.payload[2], device.got + Keeps)
  <2>1. r = TakeSlice(device, f.payload)
    BY <1>11 DEF Reacts, Command, PrintStarts, DataOpcodes
  <2>2. got \in Nat /\ got <= f.payload[2]
    BY <1>1, <1>11, SystemAssumption DEF Smaller
  <2>3. \/ r = Reaction([device EXCEPT !.got = got, !.phase = "received"], <<NeedsAck>>)
        \/ r = Reaction([device EXCEPT !.got = got], <<RequestFrame(got)>>)
    BY <2>1 DEF TakeSlice
  <2> HIDE DEF got
  <2> QED
    BY <1>2, <1>4, <1>11, <2>2, <2>3 DEF DeviceReacts
<1>12. CASE f.opcode = Command.END_JOB /\ m.by = Caller
  <2>1. r = Reaction([device EXCEPT !.phase = IF @ = "quiet" THEN @ ELSE "aborted",
                                    !.awaitsEcho = FALSE], <<>>)
    BY <1>12 DEF Reacts, Command, PrintStarts, DataOpcodes
  <2> QED
    BY <1>3, <1>12, <2>1 DEF DeviceReacts
<1>13. CASE f.opcode = Command.END_JOB /\ m.by # Caller /\ device.phase = "finished"
  <2>1. r = Reaction([device EXCEPT !.phase = "quiet", !.awaitsEcho = FALSE], <<>>)
    BY <1>13 DEF Reacts, Command, PrintStarts, DataOpcodes
  <2> QED
    BY <1>3, <1>13, <2>1 DEF DeviceReacts
<1>14. CASE /\ f.opcode \notin {Command.SESSION_START, Command.HEARTBEAT, Command.DEVICE_INFO}
            /\ ~(f.opcode = Command.ACK /\ device.phase = "greeting" /\ f.arg1 = 53)
            /\ ~(f.opcode = Command.ACK /\ device.phase = "received" /\ f.arg1 = 53)
            /\ ~(f.opcode \in PrintStarts /\ device.phase = "ready")
            /\ ~(f.opcode \in DataOpcodes /\ device.phase = "pulling"
                 /\ f.payload[1] = device.got)
            /\ ~(f.opcode = Command.END_JOB /\ m.by = Caller)
            /\ ~(f.opcode = Command.END_JOB /\ m.by # Caller /\ device.phase = "finished")
  <2>1. r = Reaction([device EXCEPT !.confused = device.phase \notin GivenUp], <<>>)
    BY <1>14 DEF Reacts, Unplaced, GivenUp
  <2> QED
    BY <1>3, <1>14, <2>1 DEF DeviceReacts
<1> QED
  BY <1>5, <1>6, <1>7, <1>8, <1>9, <1>10, <1>11, <1>12, <1>13, <1>14

(* The device takes the oldest message of the wire and reacts to it.       *)
LEMMA TakingStep ==
  ASSUME TrafficInv, DeviceTakes, NEW m, m = Head(wire)
  PROVE  /\ UNCHANGED <<channel, outcome, session, frame, todo, printed>>
         /\ todo = {}
         /\ wire # <<>>
         /\ m \in KnownMessage /\ m \in ToSet(wire)
         /\ ToSet(wire) = {m} \cup ToSet(wire')
         /\ \A A, B : NoneAfter(wire, A, B)
              => NoneAfter(wire', A, B) /\ (m \in A => ToSet(wire') \cap B = {})
         /\ DeviceReacts(m)
<1>1. UNCHANGED <<channel, outcome, session, frame, todo, printed>> /\ todo = {}
      /\ wire # <<>> /\ wire' = Tail(wire)
  BY DEF DeviceTakes, PrinterTakes, Idle
<1>2. wire \in Seq(GoodMessage)
  BY DEF TrafficInv, IInv
<1>3. ToSet(wire) = {m} \cup ToSet(wire')
  BY <1>1, <1>2, SetOfTail
<1>4. m \in KnownMessage
  BY <1>3 DEF TrafficInv
<1>5. ASSUME NEW A, NEW B, NoneAfter(wire, A, B)
      PROVE  NoneAfter(wire', A, B) /\ (m \in A => ToSet(wire') \cap B = {})
  BY <1>1, <1>2, <1>5, OrderOfTail
<1>6. DeviceReacts(m)
  <2>1. device' = Reacts(device, m).device /\ toHost' = toHost \o Reacts(device, m).frames
    BY DEF DeviceTakes
  <2> QED
    BY <1>4, <2>1, ReactionCases
<1> QED
  BY <1>1, <1>3, <1>4, <1>5, <1>6

(* The device sends a frame by itself.                                     *)
Announces ==
  \/ /\ toHost' = Append(toHost, FinishedFrame)
     /\ device.phase = "printing" /\ device' = [device EXCEPT !.phase = "finished"]
     /\ printed' = printed \cup {device.job}
  \/ /\ toHost' = Append(toHost, MediaInfo)
     /\ device.phase = "printing" /\ UNCHANGED <<device, printed>>
  \/ /\ toHost' = Append(toHost, Heartbeat)
     /\ device' = [device EXCEPT !.awaitsEcho = TRUE] /\ UNCHANGED printed
  \/ /\ \/ toHost' = Append(toHost, FaultFrame)
        \/ MayTearDown /\ toHost' = Append(toHost, TearDown)
     /\ device.phase \notin Resting /\ device' = [device EXCEPT !.phase = "gaveUp"]
     /\ UNCHANGED printed

(* What the device does by itself is an announcement.                      *)
LEMMA AnnouncingSteps ==
  ASSUME DeviceFinishes \/ DeviceReportsMedia \/ DeviceBeats \/ DeviceFaults
         \/ DeviceTearsDown
  PROVE  UNCHANGED vars /\ todo = {} /\ channel # "closed" /\ Announces
BY DEF DeviceFinishes, DeviceReportsMedia, DeviceBeats, DeviceFaults, DeviceTearsDown,
       DeviceSends, Idle, Announces, Resting

(* The channel is lost.                                                    *)
LEMMA ClosingStep ==
  ASSUME IInv, SysCloses
  PROVE  /\ UNCHANGED <<session, frame, todo, printed>>
         /\ todo = {} /\ channel' = "closed" /\ wire' = <<>> /\ toHost' = <<>>
         /\ device' = [QuietDevice EXCEPT !.confused = device.confused]
         /\ Running' = {}
         /\ outcome' = [j \in Jobs |-> IF j \in Running THEN "closed" ELSE outcome[j]]
<1>1. closeListeners = Running
  BY DEF IInv, TypeOK, RegisteredWhileRunning, Running
<1>2. outcome' = [j \in Jobs |-> IF j \in Running THEN "closed" ELSE outcome[j]]
  BY <1>1 DEF SysCloses, ChannelCloses, Finish, Running
<1> QED
  BY <1>2 DEF SysCloses, ChannelCloses, Running, Idle

-----------------------------------------------------------------------------
(* The first layer: traffic.                                               *)

(* A message on the wire stays known as long as no call becomes idle.      *)
LEMMA KnownStays ==
  ASSUME TrafficInv, IInv',
         \A j \in Jobs : outcome[j] # "idle" => outcome'[j] # "idle",
         \A m \in ToSet(wire') :
           m \in ToSet(wire)
             \/ /\ m.frame.opcode = Command.SESSION_START => m.by \in Jobs
                /\ m.frame.opcode \in PrintStarts => m.frame.payload # <<>>
                /\ m.by \in Jobs => outcome'[m.by] # "idle"
  PROVE  ToSet(wire') \subseteq KnownMessage'
<1>1. wire' \in Seq(GoodMessage')
  BY DEF IInv
<1>2. ToSet(wire') \subseteq GoodMessage'
  BY <1>1, SetOfSeq
<1>3. ASSUME NEW m \in ToSet(wire'), m \in ToSet(wire) PROVE m \in KnownMessage'
  <2>1. m \in KnownMessage
    BY <1>3 DEF TrafficInv
  <2> QED
    BY <1>2, <2>1 DEF KnownMessage
<1>4. ASSUME NEW m \in ToSet(wire'), m \notin ToSet(wire) PROVE m \in KnownMessage'
  BY <1>2, <1>4 DEF KnownMessage
<1> QED
  BY <1>3, <1>4

(* Where the host takes something back, nothing new travels, and no echo   *)
(* of a running job is taken.                                              *)
LEMMA RecedingKeepsTraffic ==
  ASSUME TrafficInv, IInv', spoiled' \in BOOLEAN, Recedes
  PROVE  TrafficInv'
<1>1. /\ UNCHANGED <<session, frame, todo, toHost, device, printed>>
      /\ Running' \subseteq Running
      /\ \A j \in Jobs : outcome[j] # "idle" => outcome'[j] # "idle"
      /\ ToSet(wire') \subseteq ToSet(wire)
      /\ \A m \in ToSet(wire) : m.by \in Running' => m \in ToSet(wire')
      /\ channel' = "open" => channel \in {"open", "closed"}
  BY DEF Recedes
<1>2. ToSet(wire') \subseteq KnownMessage'
  BY <1>1, KnownStays
<1>3. DeviceFollowsJobs'
  BY <1>1 DEF TrafficInv, DeviceFollowsJobs
<1>4. EchoIsDue'
  <2> SUFFICES ASSUME device.awaitsEcho, channel' = "open", device.job \in Running'
               PROVE  \/ Heartbeat \in ToSet(toHost)
                      \/ frame = Heartbeat /\ device.job \in todo
                      \/ [by |-> device.job, frame |-> HeartbeatEcho] \in ToSet(wire')
    BY <1>1 DEF EchoIsDue
  <2>1. channel = "open" /\ device.job \in Running
    BY <1>1, RunningIsListening DEF TrafficInv
  <2> QED
    BY <1>1, <2>1 DEF TrafficInv, EchoIsDue
<1> QED
  BY <1>1, <1>2, <1>3, <1>4 DEF TrafficInv

(* Cancels and queries add known messages alone.                           *)
LEMMA MurmuringKeepsTraffic ==
  ASSUME TrafficInv, IInv', spoiled' \in BOOLEAN, Murmurs
  PROVE  TrafficInv'
<1>1. /\ UNCHANGED <<channel, outcome, session, toHost, device, printed>>
      /\ Running' = Running
      /\ todo' \subseteq todo /\ todo' \cap Jobs = todo \cap Jobs
      /\ todo' # {} => frame' = frame
  BY DEF Murmurs, Running
<1>2. /\ ToSet(wire) \subseteq ToSet(wire')
      /\ ToSet(wire') \subseteq KnownMessage'
  <2>1. CASE wire' = wire
    BY <1>1, <2>1, KnownStays
  <2>2. CASE \E m \in Message :
               /\ wire' = Append(wire, m)
               /\ \/ m.by = Caller /\ m.frame = EndJobFrame
                  \/ /\ m.by \in Queries
                     /\ m.frame.opcode \in {Command.HEARTBEAT, Command.DEVICE_INFO}
    <3>1. PICK m \in Message :
            /\ wire' = Append(wire, m)
            /\ \/ m.by = Caller /\ m.frame = EndJobFrame
               \/ /\ m.by \in Queries
                  /\ m.frame.opcode \in {Command.HEARTBEAT, Command.DEVICE_INFO}
      BY <2>2
    <3>2. wire \in Seq(Message)
      BY DEF TrafficInv, IInv, TypeOK
    <3>3. ToSet(wire') = ToSet(wire) \cup {m}
      BY <3>1, <3>2, SetOfAppend
    <3>4. m.by \notin Jobs
      BY <3>1, PrinterAssumption DEF Calls
    <3>5. m.frame.opcode # Command.SESSION_START /\ m.frame.opcode \notin PrintStarts
      BY <3>1, HostFrames DEF PrintStarts, Command
    <3> QED
      BY <1>1, <3>3, <3>4, <3>5, KnownStays
  <2> QED
    BY <2>1, <2>2 DEF Murmurs
<1>3. DeviceFollowsJobs'
  BY <1>1 DEF TrafficInv, DeviceFollowsJobs
<1>4. EchoIsDue'
  <2>1. ASSUME device.job \in todo, device.job \in Jobs
        PROVE  frame' = frame /\ device.job \in todo'
    BY <1>1, <2>1
  <2>2. EchoIsDue /\ Running \subseteq Jobs
    BY DEF TrafficInv, Running
  <2> QED
    BY <1>1, <1>2, <2>1, <2>2 DEF EchoIsDue
<1>5. todo' # {} => frame' \in DeviceFrame
  BY <1>1 DEF TrafficInv
<1> QED
  BY <1>1, <1>2, <1>3, <1>4, <1>5 DEF TrafficInv

(* A job that starts adds its session start.                               *)
LEMMA StartingKeepsTraffic ==
  ASSUME TrafficInv, IInv', spoiled' \in BOOLEAN, NEW j \in Jobs, StartJob(j), HostOnly
  PROVE  TrafficInv'
<1> DEFINE m == [by |-> j, frame |-> StartFrame]
<1>0. IInv /\ wire \in Seq(Message) /\ outcome \in [Jobs -> Outcomes]
  BY DEF TrafficInv, IInv, TypeOK
<1>1. /\ UNCHANGED <<channel, session, frame, todo, toHost, device, printed>>
      /\ outcome[j] = "idle"
      /\ outcome' = [outcome EXCEPT ![j] = "running"]
      /\ Running' = Running \cup {j}
      /\ m \in StartMessage /\ wire' = Append(wire, m)
  BY <1>0, StartingStep
<1>2. ToSet(wire') = ToSet(wire) \cup {m}
  BY <1>0, <1>1, SetOfAppend DEF StartMessage
<1>3. \A k \in Jobs : outcome[k] # "idle" => outcome'[k] # "idle"
  BY <1>0, <1>1
<1>4. ToSet(wire') \subseteq KnownMessage'
  <2>1. m.by = j /\ m.frame.opcode \notin PrintStarts /\ outcome'[j] # "idle"
    BY <1>0, <1>1, HostFrames DEF PrintStarts, Command
  <2> QED
    BY <1>2, <1>3, <2>1, KnownStays
<1>5. DeviceFollowsJobs'
  BY <1>1, <1>3 DEF TrafficInv, DeviceFollowsJobs
<1>6. EchoIsDue'
  <2>1. EchoIsDue /\ device.job # j
    BY <1>1 DEF TrafficInv, DeviceFollowsJobs
  <2> QED
    BY <1>1, <1>2, <2>1 DEF EchoIsDue
<1> QED
  BY <1>1, <1>4, <1>5, <1>6 DEF TrafficInv

(* A heartbeat that is delivered to the running job still awaits its       *)
(* echo there.                                                             *)
LEMMA DeliveringKeepsTraffic ==
  ASSUME TrafficInv, IInv', spoiled' \in BOOLEAN, Deliver
  PROVE  TrafficInv'
<1> DEFINE f == Head(toHost)
<1>1. /\ UNCHANGED <<channel, outcome, session, wire, device, printed>>
      /\ toHost # <<>> /\ toHost' = Tail(toHost)
      /\ todo = {} /\ (todo' # {} => frame' = f)
      /\ todo' \cap Jobs = Running
      /\ Running' = Running /\ Running \subseteq Jobs
  BY DeliveringStep DEF TrafficInv, Running
<1>2. /\ ToSet(toHost) = {f} \cup ToSet(toHost')
      /\ f \in DeviceFrame
      /\ toHost' \in Seq(DeviceFrame)
  BY <1>1, SetOfTail DEF TrafficInv
<1> HIDE DEF f
<1>3. ToSet(wire') \subseteq KnownMessage'
  BY <1>1, KnownStays
<1>4. DeviceFollowsJobs'
  BY <1>1 DEF TrafficInv, DeviceFollowsJobs
<1>5. EchoIsDue'
  <2>1. ASSUME device.job \in Running PROVE device.job \in todo' /\ frame' = f
    <3>1. device.job \in todo' \cap Jobs
      BY <1>1, <2>1
    <3> QED
      BY <1>1, <3>1
  <2>2. EchoIsDue
    BY DEF TrafficInv
  <2> QED
    BY <1>1, <1>2, <2>1, <2>2 DEF EchoIsDue
<1>6. todo' # {} => frame' \in DeviceFrame
  BY <1>1, <1>2
<1>7. device' \in Device /\ printed' \subseteq Jobs
  BY <1>1 DEF TrafficInv
<1> QED
  BY <1>2, <1>3, <1>4, <1>5, <1>6, <1>7 DEF TrafficInv

(* What the answer of a job leaves on the wire.                            *)
LEMMA AnswerOnWire ==
  ASSUME TrafficInv, todo # {}, NEW j \in Jobs, OnFrame(j)
  PROVE  \/ wire' = wire
         \/ \E m \in Message :
              /\ wire' = Append(wire, m)
              /\ ToSet(wire') = ToSet(wire) \cup {m}
              /\ m.by = j
              /\ \/ frame = NeedsAck /\ m.frame = AckFrame
                 \/ /\ frame = ReadyFrame
                    /\ m.frame.opcode \in PrintStarts /\ m.frame.payload # <<>>
                 \/ frame = Heartbeat /\ m.frame = HeartbeatEcho
                 \/ frame = FinishedFrame /\ m.frame = EndJobFrame
                 \/ /\ frame = InfoBlock \/ IsRequest(frame)
                    /\ m.frame.opcode \in DataOpcodes
                    /\ m.frame.payload[1] = frame.payload[1]
                    /\ m.frame.payload[2] = session'[j].bytesSent
<1> USE DEF JobWrites
<1>0. /\ IInv /\ wire \in Seq(Message) /\ session \in [Jobs -> Session]
      /\ ImageLen[j] \in Nat /\ frame \in PrinterFrame
  BY PrinterAssumption DEF TrafficInv, IInv, TypeOK
<1>1. HostAnswers(j)
  BY <1>0, AnsweringStep DEF TrafficInv
<1>2. ASSUME NEW h \in HostFrame, JobWrites(j, h), wire' # wire
      PROVE  /\ [by |-> j, frame |-> h] \in Message
             /\ wire' = Append(wire, [by |-> j, frame |-> h])
             /\ ToSet(wire') = ToSet(wire) \cup {[by |-> j, frame |-> h]}
  <2>1. [by |-> j, frame |-> h] \in Message
    BY DEF Message, Calls
  <2> QED
    BY <1>0, <1>2, <2>1, SetOfAppend
<1> SUFFICES ASSUME wire' # wire
             PROVE  \E m \in Message :
              /\ wire' = Append(wire, m)
              /\ ToSet(wire') = ToSet(wire) \cup {m}
              /\ m.by = j
              /\ \/ frame = NeedsAck /\ m.frame = AckFrame
                 \/ /\ frame = ReadyFrame
                    /\ m.frame.opcode \in PrintStarts /\ m.frame.payload # <<>>
                 \/ frame = Heartbeat /\ m.frame = HeartbeatEcho
                 \/ frame = FinishedFrame /\ m.frame = EndJobFrame
                 \/ /\ frame = InfoBlock \/ IsRequest(frame)
                    /\ m.frame.opcode \in DataOpcodes
                    /\ m.frame.payload[1] = frame.payload[1]
                    /\ m.frame.payload[2] = session'[j].bytesSent
  OBVIOUS
<1>3. CASE frame = NeedsAck /\ JobWrites(j, AckFrame)
  BY <1>2, <1>3, HostFrames
<1>4. CASE frame = ReadyFrame /\ JobWrites(j, JobStart(ImageLen[j]))
  BY <1>0, <1>2, <1>4, HostFrames
<1>5. CASE frame = Heartbeat /\ JobWrites(j, HeartbeatEcho)
  BY <1>2, <1>5, HostFrames
<1>6. CASE frame = FinishedFrame /\ JobWrites(j, EndJobFrame)
  BY <1>2, <1>6, HostFrames
<1>7. CASE /\ frame = InfoBlock \/ IsRequest(frame)
           /\ \E end \in Nat, op \in DataOpcodes :
                /\ frame.payload[1] < end
                /\ session' = [session EXCEPT ![j].bytesSent = end]
                /\ JobWrites(j, HostFrameOf(op, 0, 0, <<frame.payload[1], end>>))
  <2>1. PICK end \in Nat, op \in DataOpcodes :
          /\ session' = [session EXCEPT ![j].bytesSent = end]
          /\ JobWrites(j, HostFrameOf(op, 0, 0, <<frame.payload[1], end>>))
    BY <1>7
  <2> DEFINE h == HostFrameOf(op, 0, 0, <<frame.payload[1], end>>)
  <2>2. frame.payload[1] \in Nat
    <3>1. InfoBlock.payload # <<>>
      BY DEF InfoBlock, NotificationFrame
    <3>2. frame.payload # <<>> /\ frame.payload \in Seq(Nat)
      BY <1>0, <1>7, <3>1 DEF IsRequest, PrinterFrame
    <3> QED
      BY <3>2
  <2>3. h \in HostFrame
    <3>1. op \in Byte /\ 0 \in Byte
      BY DEF DataOpcodes, Command, Byte
    <3> QED
      BY <2>2, <3>1 DEF HostFrameOf, HostFrame
  <2>4. h.opcode = op /\ h.payload[1] = frame.payload[1] /\ h.payload[2] = end
    BY DEF HostFrameOf
  <2>5. session'[j].bytesSent = end
    BY <1>0, <2>1 DEF Session
  <2> HIDE DEF h
  <2> QED
    BY <1>2, <1>7, <2>1, <2>3, <2>4, <2>5 DEF h
<1> QED
  BY <1>1, <1>3, <1>4, <1>5, <1>6, <1>7 DEF HostAnswers

(* What a job answers is a known message, and a heartbeat is answered      *)
(* with its echo.                                                          *)
LEMMA AnsweringKeepsTraffic ==
  ASSUME TrafficInv, IInv', spoiled' \in BOOLEAN, NEW j \in Jobs, OnFrame(j), HostOnly
  PROVE  TrafficInv'
<1>0. IInv /\ outcome \in [Jobs -> Outcomes]
  BY DEF TrafficInv, IInv, TypeOK
<1>1. /\ UNCHANGED <<toHost, device, printed, channel>>
      /\ j \in todo /\ todo' = todo \ {j} /\ j \in Running
      /\ todo' # {} => frame' = frame
      /\ HostAnswers(j)
  BY <1>0, AnsweringStep DEF TrafficInv, HostOnly
<1>2. \E o \in Outcomes \ {"idle"} : outcome' = [outcome EXCEPT ![j] = o]
  BY <1>0, <1>1 DEF HostAnswers, Running, Outcomes, Settled, Failures
<1>3. /\ \A k \in Jobs : outcome[k] # "idle" => outcome'[k] # "idle"
      /\ Running' \subseteq Running
  BY <1>0, <1>1, <1>2 DEF Running
<1>4. /\ ToSet(wire) \subseteq ToSet(wire')
      /\ ToSet(wire') \subseteq KnownMessage'
  <2>1. CASE wire' = wire
    BY <1>3, <2>1, KnownStays
  <2>2. CASE \E m \in Message :
               /\ ToSet(wire') = ToSet(wire) \cup {m}
               /\ m.by = j
               /\ m.frame.opcode # Command.SESSION_START
               /\ m.frame.opcode \in PrintStarts => m.frame.payload # <<>>
    <3>1. outcome'[j] # "idle"
      BY <1>0, <1>2
    <3> QED
      BY <1>3, <2>2, <3>1, KnownStays
  <2>3. {Command.ACK, Command.HEARTBEAT, Command.END_JOB} \cap PrintStarts = {}
        /\ DataOpcodes \cap PrintStarts = {}
        /\ Command.SESSION_START \notin PrintStarts \cup DataOpcodes
                     \cup {Command.ACK, Command.HEARTBEAT, Command.END_JOB}
    BY DEF PrintStarts, DataOpcodes, Command
  <2> QED
    BY <1>1, <2>1, <2>2, <2>3, AnswerOnWire, HostFrames
<1>5. DeviceFollowsJobs'
  BY <1>1, <1>3 DEF TrafficInv, DeviceFollowsJobs
<1>6. EchoIsDue'
  <2> SUFFICES ASSUME device.awaitsEcho, channel = "open", device.job \in Running'
               PROVE  \/ Heartbeat \in ToSet(toHost)
                      \/ frame' = Heartbeat /\ device.job \in todo'
                      \/ [by |-> device.job, frame |-> HeartbeatEcho] \in ToSet(wire')
    BY <1>1 DEF EchoIsDue
  <2>1. \/ Heartbeat \in ToSet(toHost)
        \/ frame = Heartbeat /\ device.job \in todo
        \/ [by |-> device.job, frame |-> HeartbeatEcho] \in ToSet(wire)
    BY <1>3 DEF TrafficInv, EchoIsDue
  <2>2. CASE frame = Heartbeat /\ device.job = j
    <3>1. wire' = Append(wire, [by |-> j, frame |-> HeartbeatEcho])
      BY <1>1, <2>2, DeviceFramesDiffer DEF HostAnswers, JobWrites, IsRequest
    <3>2. [by |-> j, frame |-> HeartbeatEcho] \in Message /\ wire \in Seq(Message)
      BY HostFrames DEF Message, Calls, TrafficInv, IInv, TypeOK
    <3> QED
      BY <2>2, <3>1, <3>2, SetOfAppend
  <2> QED
    BY <1>1, <1>4, <2>1, <2>2
<1>7. todo' # {} => frame' \in DeviceFrame
  BY <1>1 DEF TrafficInv
<1> QED
  BY <1>1, <1>4, <1>5, <1>6, <1>7 DEF TrafficInv

(* A channel that closes leaves nothing under way.                         *)
LEMMA ClosingKeepsTraffic ==
  ASSUME TrafficInv, IInv', spoiled' \in BOOLEAN, SysCloses
  PROVE  TrafficInv'
<1>1. /\ UNCHANGED <<session, frame, todo, printed>>
      /\ todo = {} /\ channel' = "closed" /\ wire' = <<>> /\ toHost' = <<>>
      /\ device' = [QuietDevice EXCEPT !.confused = device.confused]
  BY ClosingStep DEF TrafficInv
<1>2. device.confused \in BOOLEAN
  BY DEF TrafficInv, Device
<1>3. device' \in Device /\ device'.phase = "quiet" /\ device'.job \notin Jobs
      /\ ~device'.awaitsEcho
  BY <1>1, <1>2, PrinterAssumption DEF QuietDevice, NoJob, Calls, Device, Phases
<1>4. ToSet(wire') = {} /\ toHost' \in Seq(DeviceFrame)
  BY <1>1, SetOfEmpty
<1>5. DeviceFollowsJobs' /\ EchoIsDue'
  BY <1>3 DEF DeviceFollowsJobs, EchoIsDue
<1> QED
  BY <1>1, <1>3, <1>4, <1>5 DEF TrafficInv

(* The device answers with frames it can send, and waits no more for an    *)
(* echo it took.                                                           *)
LEMMA TakingKeepsTraffic ==
  ASSUME TrafficInv, IInv', spoiled' \in BOOLEAN, DeviceTakes
  PROVE  TrafficInv'
<1> DEFINE m == Head(wire)
<1>1. /\ UNCHANGED <<channel, outcome, session, frame, todo, printed>>
      /\ todo = {} /\ m \in KnownMessage
      /\ ToSet(wire) = {m} \cup ToSet(wire')
      /\ DeviceReacts(m)
  BY TakingStep
<1> HIDE DEF m
<1>2. /\ device \in Device
      /\ toHost \in Seq(DeviceFrame)
      /\ device.phase \in Phases /\ device.job \in Jobs \cup {NoJob}
      /\ DeviceFollowsJobs /\ EchoIsDue
  BY DEF TrafficInv, Device
<1>3. \/ toHost' = toHost
      \/ \E f \in DeviceFrame : toHost' = Append(toHost, f)
  BY <1>1, DeviceFrames DEF DeviceReacts
<1>4. toHost' \in Seq(DeviceFrame) /\ ToSet(toHost) \subseteq ToSet(toHost')
  <2>1. ASSUME NEW f \in DeviceFrame, toHost' = Append(toHost, f)
        PROVE  toHost' \in Seq(DeviceFrame) /\ ToSet(toHost) \subseteq ToSet(toHost')
    BY <1>2, <2>1, SetOfAppend
  <2> QED
    BY <1>2, <1>3, <2>1
<1>5. /\ device' \in Device
      /\ \/ device'.job = device.job
         \/ m.by \in Jobs /\ device'.job = m.by
      /\ \/ device'.phase # "quiet" => device.phase # "quiet"
         \/ m.by \in Jobs /\ device'.job = m.by
      /\ \/ ~device'.awaitsEcho
         \/ /\ device'.awaitsEcho = device.awaitsEcho /\ device'.job = device.job
            /\ m.frame.opcode # Command.HEARTBEAT
  <2>1. {"greeting", "ready", "pulling", "received", "printing", "aborted", "quiet"}
          \subseteq Phases /\ 0 \in Nat
    BY DEF Phases
  <2>2. CASE /\ m.frame.opcode = Command.SESSION_START
             /\ device' = [QuietDevice EXCEPT !.phase = "greeting", !.job = m.by,
                                              !.confused = device.confused]
    <3>1. m.by \in Jobs
      BY <1>1, <2>2 DEF KnownMessage
    <3> QED
      BY <1>2, <2>1, <2>2, <3>1 DEF Device, QuietDevice
  <2>3. CASE m.frame.opcode = Command.HEARTBEAT /\ device' = [device EXCEPT !.awaitsEcho = FALSE]
    BY <1>2, <2>3 DEF Device
  <2>4. CASE m.frame.opcode = Command.DEVICE_INFO /\ device' = device
    BY <1>2, <2>4 DEF Device, Command
  <2>5. CASE /\ m.frame.opcode = Command.ACK /\ device.phase = "greeting"
             /\ device' = [device EXCEPT !.phase = "ready"]
    BY <1>2, <2>1, <2>5 DEF Device, Command
  <2>6. CASE /\ m.frame.opcode = Command.ACK /\ device.phase = "received"
             /\ device' = [device EXCEPT !.phase = "printing"]
    BY <1>2, <2>1, <2>6 DEF Device, Command
  <2>7. CASE /\ m.frame.opcode \in PrintStarts /\ device.phase = "ready"
             /\ \E want \in Nat : device' = [device EXCEPT !.phase = "pulling", !.want = want]
    <3>1. PICK want \in Nat : device' = [device EXCEPT !.phase = "pulling", !.want = want]
      BY <2>7
    <3>2. m.frame.opcode # Command.HEARTBEAT
      BY <2>7 DEF Command, PrintStarts
    <3> QED
      BY <1>2, <2>1, <2>7, <3>1, <3>2 DEF Device
  <2>8. CASE /\ m.frame.opcode \in DataOpcodes /\ device.phase = "pulling"
             /\ \E got \in Nat :
                  \/ device' = [device EXCEPT !.got = got, !.phase = "received"]
                  \/ device' = [device EXCEPT !.got = got]
    <3>1. PICK got \in Nat : \/ device' = [device EXCEPT !.got = got, !.phase = "received"]
                            \/ device' = [device EXCEPT !.got = got]
      BY <2>8
    <3>2. m.frame.opcode # Command.HEARTBEAT
      BY <2>8 DEF Command, DataOpcodes
    <3> QED
      BY <1>2, <2>1, <2>8, <3>1, <3>2 DEF Device
  <2>9. CASE /\ m.frame.opcode = Command.END_JOB
             /\ device' = [device EXCEPT !.phase = IF @ = "quiet" THEN @ ELSE "aborted",
                                         !.awaitsEcho = FALSE]
    BY <1>2, <2>1, <2>9 DEF Device
  <2>10. CASE /\ m.frame.opcode = Command.END_JOB
              /\ device' = [device EXCEPT !.phase = "quiet", !.awaitsEcho = FALSE]
    BY <1>2, <2>1, <2>10 DEF Device
  <2>11. CASE /\ m.frame.opcode # Command.HEARTBEAT
              /\ device' = [device EXCEPT !.confused = device.phase \notin GivenUp]
    BY <1>2, <2>11 DEF Device
  <2> QED
    BY <1>1, <2>2, <2>3, <2>4, <2>5, <2>6, <2>7, <2>8, <2>9, <2>10, <2>11 DEF DeviceReacts
<1>6. ToSet(wire') \subseteq KnownMessage'
  BY <1>1, KnownStays
<1>7. DeviceFollowsJobs'
  <2>1. m.by \in Jobs => outcome[m.by] # "idle"
    BY <1>1 DEF KnownMessage
  <2> QED
    BY <1>1, <1>2, <1>5, <2>1 DEF DeviceFollowsJobs
<1>8. EchoIsDue'
  <2> SUFFICES ASSUME device'.awaitsEcho, channel = "open", device'.job \in Running'
               PROVE  \/ Heartbeat \in ToSet(toHost')
                      \/ [by |-> device'.job, frame |-> HeartbeatEcho] \in ToSet(wire')
    BY <1>1 DEF EchoIsDue
  <2>1. /\ device.awaitsEcho /\ device'.job = device.job /\ device.job \in Running
        /\ m.frame.opcode # Command.HEARTBEAT
    BY <1>1, <1>5 DEF Running
  <2>2. \/ Heartbeat \in ToSet(toHost)
        \/ [by |-> device.job, frame |-> HeartbeatEcho] \in ToSet(wire)
    BY <1>1, <1>2, <2>1 DEF EchoIsDue
  <2>3. m # [by |-> device.job, frame |-> HeartbeatEcho]
    BY <2>1, HostFrames
  <2> QED
    BY <1>1, <1>4, <2>1, <2>2, <2>3
<1>9. printed' \subseteq Jobs /\ todo' = {}
  BY <1>1 DEF TrafficInv
<1> QED
  BY <1>4, <1>5, <1>6, <1>7, <1>8, <1>9 DEF TrafficInv

(* A heartbeat the device sends is on its way to the host.                 *)
LEMMA AnnouncingKeepsTraffic ==
  ASSUME TrafficInv, IInv', spoiled' \in BOOLEAN, UNCHANGED vars, todo = {}, Announces
  PROVE  TrafficInv'
<1>1. UNCHANGED <<channel, outcome, session, frame, todo, wire>> /\ Running' = Running
  BY DEF vars, Running
<1>2. /\ device \in Device /\ toHost \in Seq(DeviceFrame) /\ printed \subseteq Jobs
      /\ DeviceFollowsJobs /\ EchoIsDue
  BY DEF TrafficInv
<1>3. \E f \in DeviceFrame : toHost' = Append(toHost, f)
  BY DeviceFrames DEF Announces
<1>4. toHost' \in Seq(DeviceFrame) /\ ToSet(toHost) \subseteq ToSet(toHost')
  BY <1>2, <1>3, SetOfAppend
<1>5. device' \in Device
  <2>1. "finished" \in Phases /\ "gaveUp" \in Phases
    BY DEF Phases
  <2> QED
    BY <1>2, <2>1 DEF Announces, Device
<1>6. /\ device'.job = device.job
      /\ device'.phase # "quiet" => device.phase # "quiet"
      /\ device'.awaitsEcho = device.awaitsEcho \/ Heartbeat \in ToSet(toHost')
  <2>1. toHost' = Append(toHost, Heartbeat) => Heartbeat \in ToSet(toHost')
    BY <1>2, DeviceFrames, SetOfAppend
  <2>2. UNCHANGED device \/ \E p : device' = [device EXCEPT !.phase = p]
          => device'.job = device.job /\ device'.awaitsEcho = device.awaitsEcho
    BY <1>2 DEF Device
  <2> QED
    BY <1>2, <2>1, <2>2 DEF Announces, Resting, Device
<1>7. printed' \subseteq Jobs
  <2>1. device.phase = "printing" => device.job \in Jobs
    BY <1>2 DEF DeviceFollowsJobs
  <2> QED
    BY <1>2, <2>1 DEF Announces
<1>8. ToSet(wire') \subseteq KnownMessage'
  BY <1>1, KnownStays
<1>9. DeviceFollowsJobs' /\ EchoIsDue'
  BY <1>1, <1>2, <1>4, <1>6 DEF DeviceFollowsJobs, EchoIsDue
<1> QED
  BY <1>1, <1>4, <1>5, <1>7, <1>8, <1>9 DEF TrafficInv

(* A step of the system falls into one of these kinds.                     *)
LEMMA KindsOfStep ==
  ASSUME IInv, [SysNext]_sysVars
  PROVE  /\ UNCHANGED sysVars \/ Bookkeeping
         /\ \/ Recedes
            \/ Murmurs
            \/ NoJobRuns /\ (spoiled => ReuseAfterFailure)
                 /\ \E j \in Jobs : StartJob(j) /\ HostOnly
            \/ Deliver
            \/ \E j \in Jobs : OnFrame(j) /\ HostOnly
            \/ SysCloses
            \/ DeviceTakes
            \/ UNCHANGED vars /\ todo = {} /\ channel # "closed" /\ Announces
BY RecedingSteps, MurmuringSteps, AnnouncingSteps
   DEF SysNext, SysStartJob, SysQuery, HandlerStep, HandleDelivered

(* The bookkeeping of failed jobs is a Boolean.                            *)
LEMMA SpoiledIsBoolean ==
  ASSUME TrafficInv, UNCHANGED sysVars \/ Bookkeeping
  PROVE  spoiled' \in BOOLEAN
BY DEF TrafficInv, Bookkeeping, sysVars

(* The first layer is inductive.                                           *)
LEMMA StepKeepsTraffic == TrafficInv /\ [SysNext]_sysVars => TrafficInv'
<1> SUFFICES ASSUME TrafficInv, [SysNext]_sysVars PROVE TrafficInv'
  OBVIOUS
<1>1. IInv /\ IInv'
  BY SystemKeepsPrinter DEF TrafficInv
<1>2. spoiled' \in BOOLEAN
  BY <1>1, KindsOfStep, SpoiledIsBoolean
<1> QED
  BY <1>1, <1>2, KindsOfStep, RecedingKeepsTraffic, MurmuringKeepsTraffic,
     StartingKeepsTraffic, DeliveringKeepsTraffic, AnsweringKeepsTraffic,
     ClosingKeepsTraffic, TakingKeepsTraffic, AnnouncingKeepsTraffic

(* It holds before anything is connected.                                  *)
LEMMA InitialTraffic == SysInit => TrafficInv
<1> SUFFICES ASSUME SysInit PROVE TrafficInv
  OBVIOUS
<1>1. IInv
  BY InitEstablishes DEF SysInit
<1>2. QuietDevice \in Device /\ QuietDevice.phase = "quiet" /\ QuietDevice.job \notin Jobs
      /\ ~QuietDevice.awaitsEcho
  BY PrinterAssumption DEF QuietDevice, Device, Phases, NoJob, Calls
<1>3. device = QuietDevice /\ toHost = <<>> /\ printed = {} /\ spoiled = FALSE
      /\ todo = {} /\ wire = <<>>
  BY DEF SysInit, Init
<1>4. DeviceFollowsJobs /\ EchoIsDue
  BY <1>2, <1>3 DEF DeviceFollowsJobs, EchoIsDue
<1>5. ToSet(wire) = {} /\ toHost \in Seq(DeviceFrame)
  BY <1>3, SetOfEmpty
<1> QED
  BY <1>1, <1>2, <1>3, <1>4, <1>5 DEF TrafficInv

(* What travels between host and device is what they can send, for any     *)
(* caller, any device of this kind and any number of jobs and queries.     *)
THEOREM TrafficInvariance == SysSpec => []TrafficInv
BY InitialTraffic, StepKeepsTraffic, PTL DEF SysSpec

(* Every variable of the composed system has its type: the device is in    *)
(* one of its phases, and its queue holds frames alone.                    *)
THEOREM SystemTypeCorrect == SysSpec => []SysTypeOK
<1>1. TrafficInv => SysTypeOK
  <2>1. DeviceFrame \subseteq PrinterFrame
    BY DeviceFrames
  <2>2. Seq(DeviceFrame) \subseteq Seq(PrinterFrame)
    BY <2>1
  <2> QED
    BY <2>2 DEF TrafficInv, IInv, SysTypeOK
<1> QED
  BY <1>1, TrafficInvariance, PTL

(* No heartbeat is lost, for any caller and device: while its job runs     *)
(* on an open channel, a heartbeat the device waits on is queued, is       *)
(* being delivered to the job, or is echoed on the wire (printRaw echoes   *)
(* every heartbeat, and no failed write of another call takes the echo).   *)
THEOREM NoHeartbeatIsLost == SysSpec => []HeartbeatsAreEchoed
<1>1. ASSUME TrafficInv PROVE HeartbeatsAreEchoed
  <2> SUFFICES ASSUME device.awaitsEcho, device.job \in Jobs, channel = "open",
                      outcome[device.job] = "running"
               PROVE  \/ \E i \in DOMAIN toHost : toHost[i] = Heartbeat
                      \/ frame = Heartbeat /\ device.job \in todo
                      \/ \E i \in DOMAIN wire : wire[i].frame = HeartbeatEcho
    BY DEF HeartbeatsAreEchoed
  <2>1. device.job \in Running
    BY DEF Running
  <2>2. CASE Heartbeat \in ToSet(toHost)
    BY <2>2 DEF ToSet
  <2>3. CASE [by |-> device.job, frame |-> HeartbeatEcho] \in ToSet(wire)
    <3>1. \E i \in DOMAIN wire : wire[i] = [by |-> device.job, frame |-> HeartbeatEcho]
      BY <2>3 DEF ToSet
    <3> QED
      BY <3>1
  <2> QED
    BY <1>1, <2>1, <2>2, <2>3 DEF TrafficInv, EchoIsDue
<1> QED
  BY <1>1, TrafficInvariance, PTL

-----------------------------------------------------------------------------
(* The second layer: whose turn it is.  A caller that leaves a connection  *)
(* on which a job failed finds the device calm whenever it starts one.     *)

(* A job that fails on a connection that stays spoils it.                  *)
LEMMA SpoiledStays ==
  ASSUME TurnInv, UNCHANGED sysVars \/ Bookkeeping, UNCHANGED <<outcome, channel>>
  PROVE  spoiled' = spoiled
<1>1. spoiled \in BOOLEAN /\ (channel = "closed" => ~spoiled)
  BY DEF TurnInv, TrafficInv, ClosedIsReset
<1>2. CASE UNCHANGED sysVars
  BY <1>2 DEF sysVars
<1>3. CASE Bookkeeping
  BY <1>1, <1>3 DEF Bookkeeping, Failures
<1> QED
  BY <1>2, <1>3

(* When the last job settles well, its session was finished.               *)
LEMMA RestIsEarned ==
  ASSUME TurnInv, UNCHANGED sysVars \/ Bookkeeping, Recedes
  PROVE  /\ OneRuns'
         /\ channel' = "closed" => ~spoiled'
         /\ Running' = {} /\ ~spoiled'
              => (Running = {} /\ ~spoiled) \/ \E j \in Running : session[j].finished
<1>1. /\ Running' \subseteq Running
      /\ \A j \in Running \ Running' :
           outcome'[j] \in Failures \/ (outcome'[j] = "resolved" /\ session[j].finished)
      /\ channel' = "closed" => channel = "closed"
  BY DEF Recedes
<1>2. /\ spoiled \in BOOLEAN /\ Running \subseteq Jobs /\ (channel = "closed" => Running = {})
      /\ \A j \in Running : outcome[j] = "running"
  BY RunningIsListening DEF TurnInv, TrafficInv, Running
<1>3. /\ spoiled' => spoiled \/ \E j \in Running : outcome'[j] \in Failures
      /\ channel' = "closed" => ~spoiled'
      /\ channel' # "closed" /\ (spoiled \/ \E j \in Running \ Running' : outcome'[j] \in Failures)
           => spoiled'
  <2>1. CASE UNCHANGED sysVars
    <3>1. Running' = Running /\ spoiled' = spoiled /\ channel' = channel
      BY <2>1 DEF sysVars, vars, Running
    <3> QED
      BY <3>1 DEF TurnInv, ClosedIsReset
  <2>2. CASE Bookkeeping
    BY <1>2, <2>2 DEF Bookkeeping, Running
  <2> QED
    BY <2>1, <2>2
<1>4. OneRuns'
  <2>1. ASSUME NEW j \in Running, outcome'[j] \in Failures PROVE Running' = {}
    BY <1>1, <2>1 DEF TurnInv, OneRuns, Running, Failures
  <2> QED
    BY <1>1, <1>3, <2>1 DEF TurnInv, OneRuns
<1>5. ASSUME Running' = {}, ~spoiled', ~(Running = {} /\ ~spoiled)
      PROVE  \E j \in Running : session[j].finished
  <2>1. ~spoiled
    BY <1>1, <1>3, <1>5 DEF TurnInv, ClosedIsReset
  <2>2. PICK j \in Running : TRUE
    BY <1>5, <2>1
  <2>3. channel' # "closed"
    BY <1>1, <1>2, <2>2
  <2>4. session[j].finished
    BY <1>1, <1>3, <1>5, <2>3
  <2> QED
    BY <2>4
<1> QED
  BY <1>3, <1>4, <1>5

(* A call that settles leaves a spoiled connection or a calm one.          *)
LEMMA RecedingKeepsTurn ==
  ASSUME TurnInv, TrafficInv', UNCHANGED sysVars \/ Bookkeeping, Recedes
  PROVE  TurnInv'
<1>1. /\ UNCHANGED <<session, frame, todo, toHost, device, printed>>
      /\ Running' \subseteq Running
      /\ ToSet(wire') \subseteq ToSet(wire)
      /\ \A m \in ToSet(wire) : m.by \in Running' => m \in ToSet(wire')
      /\ \A A, B : NoneAfter(wire, A, B) => NoneAfter(wire', A, B)
      /\ wire = <<>> => wire' = <<>>
      /\ channel' = "closed" => channel = "closed"
  BY DEF Recedes
<1>2. Coming' = Coming /\ Starts' \subseteq Starts /\ (Calm => Calm')
  BY <1>1 DEF Coming, Starts, StartMessage, Calm
<1>3. OneRuns'
  BY RestIsEarned
<1>4. ClosedIsReset'
  BY <1>1, RestIsEarned DEF TurnInv, ClosedIsReset
<1>5. CalmAtRest'
  BY <1>1, <1>2, RestIsEarned DEF TurnInv, CalmAtRest
<1>6. DeviceIsAtTheJob'
  <2>1. ASSUME NEW j \in Running', NEW m \in Starts, m.by = j PROVE m \in Starts'
    BY <1>1, <2>1 DEF Starts, StartMessage
  <2>2. DeviceIsAtTheJob
    BY DEF TurnInv
  <2>3. StartMessage' = StartMessage
    BY DEF StartMessage
  <2> QED
    BY <1>1, <1>2, <2>1, <2>2, <2>3 DEF DeviceIsAtTheJob
<1>7. EndsOnce'
  BY <1>1, <1>2 DEF TurnInv, EndsOnce
<1>8. FinishedIsPrinted'
  BY <1>1, <1>2 DEF TurnInv, FinishedIsPrinted, FinishedMeansPrinted
<1> QED
  BY <1>3, <1>4, <1>5, <1>6, <1>7, <1>8 DEF TurnInv

(* Cancels and queries start and end no job.                               *)
LEMMA MurmuringKeepsTurn ==
  ASSUME TurnInv, TrafficInv', UNCHANGED sysVars \/ Bookkeeping, Murmurs
  PROVE  TurnInv'
<1>1. /\ UNCHANGED <<channel, outcome, session, toHost, device, printed, Running>>
      /\ todo' \cap Jobs = todo \cap Jobs
      /\ todo' # {} => frame' = frame
      /\ channel = "closed" => wire' = wire
  BY DEF Murmurs, Running
<1>2. /\ Starts' = Starts
      /\ NoneAfter(wire, StartMessage, StartMessage) => NoneAfter(wire', StartMessage, StartMessage)
  <2>1. CASE wire' = wire
    BY <2>1 DEF Starts, StartMessage
  <2>2. CASE \E m \in Message : wire' = Append(wire, m) /\ m \notin StartMessage
    <3>1. PICK m \in Message : wire' = Append(wire, m) /\ m \notin StartMessage
      BY <2>2
    <3>2. wire \in Seq(Message)
      BY DEF TurnInv, TrafficInv, IInv, TypeOK
    <3>3. ToSet(wire') = ToSet(wire) \cup {m}
      BY <3>1, <3>2, SetOfAppend
    <3>4. NoneAfter(wire, StartMessage, StartMessage)
            => NoneAfter(wire', StartMessage, StartMessage)
      BY <3>1, <3>2, OrderOfAppend
    <3> QED
      BY <3>1, <3>3, <3>4 DEF Starts, StartMessage
  <2>3. ASSUME NEW m \in Message,
               m.frame = EndJobFrame
                 \/ m.frame.opcode \in {Command.HEARTBEAT, Command.DEVICE_INFO}
        PROVE  m \notin StartMessage
    BY <2>3, HostFrames DEF StartMessage, Command
  <2> QED
    BY <2>1, <2>2, <2>3 DEF Murmurs
<1>3. Coming' = Coming
  BY <1>1 DEF Coming
<1>4. spoiled' = spoiled
  BY <1>1, SpoiledStays
<1>5. Calm' = Calm
  BY <1>1, <1>2, <1>3 DEF Calm
<1>6. StartMessage' = StartMessage
  BY DEF StartMessage
<1>7. OneRuns' /\ ClosedIsReset' /\ CalmAtRest'
  BY <1>1, <1>4, <1>5 DEF TurnInv, OneRuns, ClosedIsReset, CalmAtRest
<1>8. DeviceIsAtTheJob'
  BY <1>1, <1>2, <1>3, <1>6 DEF TurnInv, DeviceIsAtTheJob
<1>9. EndsOnce'
  BY <1>1, <1>3 DEF TurnInv, EndsOnce
<1>10. FinishedIsPrinted'
  BY <1>1, <1>3 DEF TurnInv, FinishedIsPrinted, FinishedMeansPrinted
<1> QED
  BY <1>7, <1>8, <1>9, <1>10 DEF TurnInv

(* A job starts where all is calm.                                         *)
LEMMA StartingKeepsTurn ==
  ASSUME TurnInv, TrafficInv', UNCHANGED sysVars \/ Bookkeeping,
         NoJobRuns, ~spoiled, NEW j \in Jobs, StartJob(j), HostOnly
  PROVE  TurnInv'
<1> DEFINE m == [by |-> j, frame |-> StartFrame]
<1>0. IInv /\ wire \in Seq(Message)
  BY DEF TurnInv, TrafficInv, IInv, TypeOK
<1>1. /\ UNCHANGED <<channel, session, frame, todo, toHost, device, printed>>
      /\ channel = "open" /\ ~session[j].finished
      /\ outcome' = [outcome EXCEPT ![j] = "running"]
      /\ Running' = Running \cup {j}
      /\ m \in StartMessage /\ wire' = Append(wire, m)
  BY <1>0, StartingStep
<1>2. Running = {} /\ Running' = {j}
  BY <1>1 DEF NoJobRuns, Running
<1>3. device.phase \in Resting /\ Starts = {} /\ Coming \cap Enders = {}
  BY <1>2 DEF TurnInv, CalmAtRest, Calm
<1>4. m \in Message
  BY <1>1 DEF StartMessage
<1>5. m.by = j
  OBVIOUS
<1> HIDE DEF m
<1>6. Starts' = {m}
  <2>1. ToSet(wire') = ToSet(wire) \cup {m}
    BY <1>0, <1>1, <1>4, SetOfAppend
  <2> QED
    BY <1>1, <1>3, <2>1 DEF Starts, StartMessage
<1>7. Coming' = Coming
  BY <1>1 DEF Coming
<1>8. ~spoiled'
  <2>1. CASE UNCHANGED sysVars
    BY <2>1 DEF sysVars
  <2>2. CASE Bookkeeping
    BY <2>2 DEF Bookkeeping, NoJobRuns
  <2> QED
    BY <2>1, <2>2
<1>9. NoneAfter(wire', StartMessage, StartMessage)
  <2>1. NoneAfter(wire, StartMessage, StartMessage) /\ ToSet(wire) \cap StartMessage = {}
    BY <1>3 DEF TurnInv, DeviceIsAtTheJob, Starts
  <2> QED
    BY <1>0, <1>1, <1>4, <2>1, OrderOfAppend
<1>10. OneRuns' /\ ClosedIsReset' /\ CalmAtRest'
  BY <1>1, <1>2, <1>8 DEF OneRuns, ClosedIsReset, CalmAtRest
<1>11. DeviceIsAtTheJob'
  <2>1. StartMessage' = StartMessage
    BY DEF StartMessage
  <2> QED
    BY <1>1, <1>2, <1>3, <1>5, <1>6, <1>7, <1>9, <2>1 DEF DeviceIsAtTheJob
<1>12. EndsOnce'
  BY <1>1, <1>7 DEF TurnInv, EndsOnce
<1>13. FinishedIsPrinted'
  BY <1>1, <1>7 DEF TurnInv, FinishedIsPrinted, FinishedMeansPrinted
<1> QED
  BY <1>10, <1>11, <1>12, <1>13 DEF TurnInv

(* The end of a job stays the only one when it is delivered.               *)
LEMMA DeliveringKeepsTurn ==
  ASSUME TurnInv, TrafficInv', UNCHANGED sysVars \/ Bookkeeping, Deliver
  PROVE  TurnInv'
<1> DEFINE f == Head(toHost)
<1>0. IInv /\ toHost \in Seq(DeviceFrame)
  BY DEF TurnInv, TrafficInv
<1>1. /\ UNCHANGED <<channel, outcome, session, wire, device, printed, Running, Starts>>
      /\ StartMessage' = StartMessage
      /\ channel # "closed"
      /\ toHost # <<>> /\ toHost' = Tail(toHost)
      /\ todo = {} /\ (todo' # {} => frame' = f)
      /\ todo' \cap Jobs = Running
  BY <1>0, DeliveringStep DEF Running, Starts, StartMessage
<1>2. /\ ToSet(toHost) = {f} \cup ToSet(toHost')
      /\ f \in Enders => ToSet(toHost') \cap Enders = {}
      /\ NoneAfter(toHost', Enders, Enders)
  <2>1. NoneAfter(toHost, Enders, Enders)
    BY DEF TurnInv, EndsOnce
  <2> QED
    BY <1>0, <1>1, <2>1, SetOfTail, OrderOfTail
<1> HIDE DEF f
<1>3. Coming' \subseteq Coming
  BY <1>1, <1>2 DEF Coming
<1>4. spoiled' = spoiled
  BY <1>1, SpoiledStays
<1>5. Calm => Calm'
  BY <1>1, <1>3 DEF Calm
<1>6. OneRuns' /\ ClosedIsReset' /\ CalmAtRest'
  BY <1>1, <1>4, <1>5 DEF TurnInv, OneRuns, ClosedIsReset, CalmAtRest
<1>7. DeviceIsAtTheJob'
  BY <1>1, <1>3 DEF TurnInv, DeviceIsAtTheJob
<1>8. EndsOnce'
  BY <1>1, <1>2, <1>3 DEF TurnInv, EndsOnce
<1>9. FinishedIsPrinted'
  BY <1>1, <1>3 DEF TurnInv, FinishedIsPrinted, FinishedMeansPrinted
<1> QED
  BY <1>6, <1>7, <1>8, <1>9 DEF TurnInv

(* When a job hears of its end, all is calm.                               *)
LEMMA EndIsCalm ==
  ASSUME TurnInv, NEW j \in Running, j \in todo, frame \in Enders
  PROVE  /\ device.phase \in Resting /\ Starts = {} /\ ToSet(toHost) \cap Enders = {}
         /\ frame = FinishedFrame => j \in printed
<1>1. todo \cap Jobs # {} /\ frame \in Coming
  BY DEF Running, Coming
<1>2. Coming \cap Enders # {}
  BY <1>1
<1>3. device.phase \in Resting /\ Starts = {} /\ ToSet(toHost) \cap Enders = {}
  BY <1>1, <1>2 DEF TurnInv, EndsOnce, DeviceIsAtTheJob
<1>4. device.job = j
  BY <1>3 DEF TurnInv, DeviceIsAtTheJob
<1> QED
  BY <1>1, <1>3, <1>4 DEF TurnInv, FinishedIsPrinted

(* A job that hears of its end was the one the device left.                *)
LEMMA AnsweringKeepsTurn ==
  ASSUME TurnInv, TrafficInv', UNCHANGED sysVars \/ Bookkeeping,
         NEW j \in Jobs, OnFrame(j), HostOnly
  PROVE  TurnInv'
<1>0. /\ IInv /\ TrafficInv /\ wire \in Seq(Message)
      /\ outcome \in [Jobs -> Outcomes] /\ session \in [Jobs -> Session]
  BY DEF TurnInv, TrafficInv, IInv, TypeOK
<1>1. /\ UNCHANGED <<toHost, device, printed, channel>>
      /\ j \in todo /\ todo' = todo \ {j} /\ j \in Running
      /\ frame \in DeviceFrame
      /\ HostAnswers(j)
  BY <1>0, AnsweringStep DEF TrafficInv, HostOnly
<1>2. /\ Running = {j} /\ ~spoiled /\ channel # "closed"
      /\ todo \cap Jobs = {j} /\ todo' \cap Jobs = {}
  <2>1. Running = {j}
    BY <1>1 DEF TurnInv, OneRuns
  <2> QED
    BY <1>0, <1>1, <2>1, RunningIsListening DEF TurnInv, OneRuns
<1>3. Coming' = ToSet(toHost) /\ Coming' \subseteq Coming /\ frame \in Coming
  BY <1>1, <1>2 DEF Coming
<1>4. Starts' = Starts /\ NoneAfter(wire', StartMessage, StartMessage)
  <2>1. NoneAfter(wire, StartMessage, StartMessage)
    BY DEF TurnInv, DeviceIsAtTheJob
  <2>2. ASSUME NEW m \in Message, wire' = Append(wire, m),
               ToSet(wire') = ToSet(wire) \cup {m},
               m.frame \in {AckFrame, HeartbeatEcho, EndJobFrame}
                 \/ m.frame.opcode \in PrintStarts \cup DataOpcodes
        PROVE  Starts' = Starts /\ NoneAfter(wire', StartMessage, StartMessage)
    <3>1. m \notin StartMessage
      BY <2>2, HostFrames DEF StartMessage, Command, PrintStarts, DataOpcodes
    <3> QED
      BY <1>0, <2>1, <2>2, <3>1, OrderOfAppend DEF Starts, StartMessage
  <2> QED
    BY <1>0, <1>1, <2>1, <2>2, AnswerOnWire DEF Starts, StartMessage
<1>5. \/ /\ session'[j].finished = session[j].finished
         /\ Running' = Running \/ (Running' = {} /\ outcome'[j] = "fault")
      \/ frame = FinishedFrame /\ Running' = Running /\ UNCHANGED outcome
      \/ frame = TearDown /\ MayTearDown /\ Running' = {} /\ UNCHANGED channel
           /\ outcome' = [outcome EXCEPT ![j] = "resolved"]
  <2>1. session[j] \in [bytesSent: Nat, finished: BOOLEAN, failed: BOOLEAN]
    BY <1>0 DEF Session
  <2>2. ASSUME UNCHANGED outcome PROVE Running' = Running
    BY <2>2 DEF Running
  <2>3. ASSUME NEW o, o # "running", outcome' = [outcome EXCEPT ![j] = o]
        PROVE  Running' = {} /\ outcome'[j] = o
    BY <1>0, <1>2, <2>3 DEF Running
  <2>4. CASE UNCHANGED <<session, outcome>>
    BY <2>2, <2>4
  <2>5. CASE frame = FinishedFrame /\ UNCHANGED outcome
    BY <2>2, <2>5
  <2>6. CASE /\ session' = [session EXCEPT ![j].failed = TRUE]
             /\ outcome' = [outcome EXCEPT ![j] = "fault"]
    BY <1>0, <2>1, <2>3, <2>6
  <2>7. CASE frame = TearDown /\ outcome' = [outcome EXCEPT ![j] = "resolved"]
    <3>1. TearDown.payload = <<>>
      BY DEF TearDown, NotificationFrame
    <3>2. MayTearDown
      BY <1>1, <2>7, <3>1, DeviceFramesDiffer DEF DeviceFrame, IsRequest
    <3> QED
      BY <1>1, <2>3, <2>7, <3>2
  <2>8. CASE \E end \in Nat : session' = [session EXCEPT ![j].bytesSent = end]
                              /\ UNCHANGED outcome
    BY <1>0, <2>1, <2>2, <2>8
  <2> QED
    BY <1>1, <2>4, <2>5, <2>6, <2>7, <2>8 DEF HostAnswers
<1>6. /\ outcome'[j] = "fault" => spoiled'
      /\ spoiled' => \E k \in Running : outcome'[k] \in Failures
  <2>1. outcome[j] = "running"
    BY <1>1 DEF Running
  <2>2. CASE UNCHANGED sysVars
    <3>1. outcome' = outcome /\ spoiled' = spoiled
      BY <2>2 DEF sysVars, vars
    <3> QED
      BY <1>2, <2>1, <3>1
  <2>3. CASE Bookkeeping
    BY <1>1, <1>2, <2>1, <2>3 DEF Bookkeeping, Failures, Running
  <2> QED
    BY <2>2, <2>3
<1>7. OneRuns'
  <2>1. ASSUME spoiled' PROVE Running' = {}
    <3>1. outcome'[j] \in Failures
      BY <1>2, <1>6, <2>1
    <3>2. j \notin Running'
      BY <3>1 DEF Running, Failures
    <3> QED
      BY <1>2, <1>5, <3>2
  <2> QED
    BY <1>2, <1>5, <2>1 DEF OneRuns
<1>8. ClosedIsReset'
  BY <1>1, <1>2 DEF ClosedIsReset
<1>9. CalmAtRest'
  <2>1. Calm => Calm'
    BY <1>1, <1>3, <1>4 DEF Calm
  <2>2. CASE /\ session'[j].finished = session[j].finished
             /\ Running' = Running \/ (Running' = {} /\ outcome'[j] = "fault")
    BY <1>2, <1>6, <2>1, <2>2 DEF TurnInv, CalmAtRest
  <2>3. CASE frame \in Enders
    BY <1>1, <1>3, <1>4, <2>3, EndIsCalm DEF CalmAtRest, Calm
  <2> QED
    BY <1>5, <2>2, <2>3 DEF Enders
<1>10. DeviceIsAtTheJob'
  <2>1. StartMessage' = StartMessage
    BY DEF StartMessage
  <2>2. Running' \subseteq Running
    BY <1>5
  <2> QED
    BY <1>1, <1>3, <1>4, <2>1, <2>2 DEF TurnInv, DeviceIsAtTheJob
<1>11. EndsOnce'
  BY <1>1, <1>2, <1>3 DEF TurnInv, EndsOnce
<1>12. FinishedIsPrinted'
  <2>1. FinishedFrame \in Coming' => device'.job \in printed'
    BY <1>1, <1>3 DEF TurnInv, FinishedIsPrinted
  <2>2. ASSUME ~MayTearDown PROVE FinishedMeansPrinted'
    <3>1. session'[j].finished => session[j].finished \/ j \in printed
      BY <1>1, <1>5, <2>2, EndIsCalm DEF Enders
    <3>2. \A k \in Jobs \ {j} : session'[k] = session[k]
      BY <1>0, <1>1 DEF HostAnswers
    <3> QED
      BY <1>1, <2>2, <3>1, <3>2 DEF TurnInv, FinishedIsPrinted, FinishedMeansPrinted
  <2> QED
    BY <2>1, <2>2 DEF FinishedIsPrinted
<1> QED
  BY <1>7, <1>8, <1>9, <1>10, <1>11, <1>12 DEF TurnInv

(* A closed channel starts over.                                           *)
LEMMA ClosingKeepsTurn ==
  ASSUME TurnInv, TrafficInv', Bookkeeping, SysCloses
  PROVE  TurnInv'
<1>1. /\ UNCHANGED <<session, frame, todo, printed>>
      /\ todo = {} /\ channel' = "closed" /\ wire' = <<>> /\ toHost' = <<>>
      /\ device' = [QuietDevice EXCEPT !.confused = device.confused]
      /\ Running' = {}
  BY ClosingStep DEF TurnInv, TrafficInv
<1>2. ~spoiled'
  BY <1>1 DEF Bookkeeping
<1>3. device'.phase = "quiet"
  BY <1>1 DEF QuietDevice
<1>4. Coming' = {} /\ Starts' = {}
  BY <1>1, SetOfEmpty DEF Coming, Starts
<1>5. NoneAfter(wire', StartMessage', StartMessage') /\ NoneAfter(toHost', Enders, Enders)
  BY <1>1, OrderOfEmpty
<1>6. OneRuns' /\ ClosedIsReset' /\ CalmAtRest'
  BY <1>1, <1>2, <1>3, <1>4 DEF OneRuns, ClosedIsReset, CalmAtRest, Calm, Resting
<1>7. DeviceIsAtTheJob'
  BY <1>1, <1>4, <1>5 DEF DeviceIsAtTheJob
<1>8. EndsOnce'
  BY <1>1, <1>4, <1>5 DEF EndsOnce
<1>9. FinishedIsPrinted'
  BY <1>1, <1>4 DEF TurnInv, FinishedIsPrinted, FinishedMeansPrinted
<1> QED
  BY <1>6, <1>7, <1>8, <1>9 DEF TurnInv

(* The device begins the job whose start it takes, and ends none.          *)
LEMMA TakingKeepsTurn ==
  ASSUME TurnInv, TrafficInv', UNCHANGED sysVars \/ Bookkeeping, DeviceTakes
  PROVE  TurnInv'
<1> DEFINE m == Head(wire)
<1>0. TrafficInv /\ toHost \in Seq(DeviceFrame) /\ device \in Device
  BY DEF TurnInv, TrafficInv
<1>1. /\ UNCHANGED <<channel, outcome, session, frame, todo, printed, Running>>
      /\ todo = {} /\ wire # <<>>
      /\ m \in KnownMessage
      /\ ToSet(wire) = {m} \cup ToSet(wire')
      /\ \A A, B : NoneAfter(wire, A, B)
           => NoneAfter(wire', A, B) /\ (m \in A => ToSet(wire') \cap B = {})
      /\ DeviceReacts(m)
  BY <1>0, TakingStep DEF Running
<1> HIDE DEF m
<1>2. channel # "closed" /\ spoiled' = spoiled
  BY <1>1, SpoiledStays DEF TurnInv, ClosedIsReset
<1>3. Coming = ToSet(toHost) /\ Coming' = ToSet(toHost')
  BY <1>1 DEF Coming
<1>4. /\ Starts = (IF m \in StartMessage THEN {m} ELSE {}) \cup Starts'
      /\ NoneAfter(wire', StartMessage, StartMessage)
      /\ m \in StartMessage => Starts' = {}
      /\ StartMessage' = StartMessage
  BY <1>1 DEF TurnInv, DeviceIsAtTheJob, Starts, StartMessage
<1>5. /\ Coming' \cap Enders = Coming \cap Enders
      /\ NoneAfter(toHost', Enders, Enders)
  <2>1. NoneAfter(toHost, Enders, Enders)
    BY DEF TurnInv, EndsOnce
  <2>2. ASSUME NEW f \in DeviceFrame, f \notin Enders, toHost' = Append(toHost, f)
        PROVE  ToSet(toHost') = ToSet(toHost) \cup {f} /\ NoneAfter(toHost', Enders, Enders)
    BY <1>0, <2>1, <2>2, SetOfAppend, OrderOfAppend
  <2>3. \/ toHost' = toHost
        \/ \E f \in DeviceFrame \ Enders : toHost' = Append(toHost, f)
    BY <1>1, DeviceFrames, DeviceFramesDiffer DEF DeviceReacts, Enders
  <2> QED
    BY <1>3, <2>1, <2>2, <2>3
<1>6. CASE m \in StartMessage
  <2>1. /\ device.phase \in Resting /\ Coming \cap Enders = {}
        /\ Running \subseteq {m.by} /\ Starts # {}
    BY <1>4, <1>6 DEF TurnInv, DeviceIsAtTheJob
  <2>2. device'.job = m.by /\ m.frame.opcode = Command.SESSION_START
    <3>1. m.frame.opcode = Command.SESSION_START
      BY <1>6 DEF StartMessage
    <3>2. device' = [QuietDevice EXCEPT !.phase = "greeting", !.job = m.by,
                                        !.confused = device.confused]
      BY <1>1, <3>1 DEF DeviceReacts, Command, PrintStarts, DataOpcodes
    <3> QED
      BY <3>1, <3>2 DEF QuietDevice
  <2>3. OneRuns' /\ ClosedIsReset' /\ CalmAtRest'
    BY <1>1, <1>2, <2>1 DEF TurnInv, OneRuns, ClosedIsReset, CalmAtRest, Calm
  <2>4. DeviceIsAtTheJob'
    BY <1>1, <1>4, <1>6, <2>1, <2>2 DEF DeviceIsAtTheJob
  <2>5. EndsOnce'
    BY <1>1, <1>5, <2>1 DEF EndsOnce
  <2>6. FinishedIsPrinted'
    BY <1>1, <1>5, <2>1 DEF TurnInv, FinishedIsPrinted, FinishedMeansPrinted, Enders
  <2> QED
    BY <2>3, <2>4, <2>5, <2>6 DEF TurnInv
<1>7. CASE m \notin StartMessage
  <2>1. m.frame.opcode # Command.SESSION_START
    BY <1>1, <1>7 DEF StartMessage, KnownMessage, GoodMessage
  <2>2. /\ device'.job = device.job
        /\ device.phase \in Resting => device'.phase \in Resting
    BY <1>0, <1>1, <2>1 DEF DeviceReacts, Device, Resting
  <2>3. Calm => Calm'
    BY <1>4, <1>5, <1>7, <2>2 DEF Calm
  <2>4. OneRuns' /\ ClosedIsReset' /\ CalmAtRest'
    BY <1>1, <1>2, <2>3 DEF TurnInv, OneRuns, ClosedIsReset, CalmAtRest
  <2>5. DeviceIsAtTheJob'
    BY <1>1, <1>4, <1>5, <1>7, <2>2 DEF TurnInv, DeviceIsAtTheJob
  <2>6. EndsOnce'
    BY <1>1, <1>5, <2>2 DEF TurnInv, EndsOnce
  <2>7. FinishedIsPrinted'
    BY <1>1, <1>5, <2>2 DEF TurnInv, FinishedIsPrinted, FinishedMeansPrinted, Enders
  <2> QED
    BY <2>4, <2>5, <2>6, <2>7 DEF TurnInv
<1> QED
  BY <1>6, <1>7

(* The device ends the job it is at, and the only one that runs.           *)
LEMMA AnnouncingKeepsTurn ==
  ASSUME TurnInv, TrafficInv', UNCHANGED sysVars \/ Bookkeeping,
         UNCHANGED vars, todo = {}, channel # "closed", Announces
  PROVE  TurnInv'
<1>0. /\ toHost \in Seq(DeviceFrame) /\ device \in Device
  BY DEF TurnInv, TrafficInv
<1>1. /\ UNCHANGED <<channel, outcome, session, frame, todo, wire, Running, Starts>>
      /\ StartMessage' = StartMessage
  BY DEF vars, Running, Starts, StartMessage
<1>2. spoiled' = spoiled
  BY <1>1, SpoiledStays
<1>3. Coming = ToSet(toHost) /\ Coming' = ToSet(toHost')
  BY <1>1 DEF Coming
<1>4. /\ device'.job = device.job
      /\ device'.phase = device.phase \/ (device.phase \notin Resting /\ device'.phase \in Resting)
      /\ printed \subseteq printed'
  BY <1>0 DEF Announces, Device, Resting
<1>5. PICK f \in DeviceFrame :
        /\ toHost' = Append(toHost, f)
        /\ f \in Enders => device.phase \notin Resting /\ device'.phase \in Resting
        /\ f = FinishedFrame => device.job \in printed'
  <2>1. CASE /\ toHost' = Append(toHost, FinishedFrame)
             /\ device.phase = "printing" /\ device' = [device EXCEPT !.phase = "finished"]
             /\ printed' = printed \cup {device.job}
    BY <1>0, <2>1, DeviceFrames DEF Device, Resting
  <2>2. ASSUME NEW f \in {MediaInfo, Heartbeat}, toHost' = Append(toHost, f)
        PROVE  f \in DeviceFrame /\ f \notin Enders
    BY <2>2, DeviceFrames, DeviceFramesDiffer DEF Enders
  <2>3. CASE /\ \/ toHost' = Append(toHost, FaultFrame)
                \/ MayTearDown /\ toHost' = Append(toHost, TearDown)
             /\ device.phase \notin Resting /\ device' = [device EXCEPT !.phase = "gaveUp"]
    <3>1. device'.phase \in Resting
      BY <1>0, <2>3 DEF Device, Resting
    <3>2. FaultFrame # FinishedFrame /\ TearDown # FinishedFrame
      BY DeviceFramesDiffer
    <3>3. CASE toHost' = Append(toHost, FaultFrame)
      <4>1. FaultFrame \in DeviceFrame
        BY DeviceFrames
      <4> QED
        BY <2>3, <3>1, <3>2, <3>3, <4>1
    <3>4. CASE MayTearDown /\ toHost' = Append(toHost, TearDown)
      <4>1. TearDown \in DeviceFrame
        BY <3>4, DeviceFrames
      <4> QED
        BY <2>3, <3>1, <3>2, <3>4, <4>1
    <3> QED
      BY <2>3, <3>3, <3>4
  <2> QED
    BY <2>1, <2>2, <2>3, DeviceFramesDiffer DEF Announces, Enders
<1>6. ToSet(toHost') = ToSet(toHost) \cup {f}
  BY <1>0, <1>5, SetOfAppend
<1>7. f \in Enders => ToSet(toHost) \cap Enders = {} /\ Starts = {}
  BY <1>3, <1>5 DEF TurnInv, EndsOnce, DeviceIsAtTheJob
<1>8. NoneAfter(toHost', Enders, Enders)
  BY <1>0, <1>5, <1>7, OrderOfAppend DEF TurnInv, EndsOnce
<1>9. Calm => Calm'
  BY <1>1, <1>3, <1>4, <1>5, <1>6 DEF Calm
<1>10. OneRuns' /\ ClosedIsReset' /\ CalmAtRest'
  BY <1>1, <1>2, <1>9 DEF TurnInv, OneRuns, ClosedIsReset, CalmAtRest
<1>11. DeviceIsAtTheJob'
  BY <1>1, <1>3, <1>4, <1>6, <1>7 DEF TurnInv, DeviceIsAtTheJob
<1>12. EndsOnce'
  BY <1>1, <1>3, <1>4, <1>5, <1>6, <1>8 DEF TurnInv, EndsOnce
<1>13. FinishedIsPrinted'
  BY <1>1, <1>3, <1>4, <1>5, <1>6 DEF TurnInv, FinishedIsPrinted, FinishedMeansPrinted
<1> QED
  BY <1>10, <1>11, <1>12, <1>13 DEF TurnInv

(* The second layer is inductive for a caller that leaves a connection     *)
(* on which a job failed.                                                  *)
LEMMA StepKeepsTurn ==
  ASSUME ~ReuseAfterFailure
  PROVE  TurnInv /\ [SysNext]_sysVars => TurnInv'
<1> SUFFICES ASSUME TurnInv, [SysNext]_sysVars PROVE TurnInv'
  OBVIOUS
<1>1. TrafficInv /\ IInv /\ TrafficInv'
  BY StepKeepsTraffic DEF TurnInv, TrafficInv
<1>2. SysCloses => Bookkeeping
  <2>1. channel' # channel => ~UNCHANGED sysVars
    BY DEF sysVars, vars
  <2>2. SysCloses => channel' # channel
    BY DEF SysCloses, ChannelCloses
  <2> QED
    BY <1>1, <2>1, <2>2, KindsOfStep
<1> QED
  BY <1>1, <1>2, KindsOfStep, RecedingKeepsTurn, MurmuringKeepsTurn,
     StartingKeepsTurn, DeliveringKeepsTurn, AnsweringKeepsTurn,
     ClosingKeepsTurn, TakingKeepsTurn, AnnouncingKeepsTurn

(* It holds before anything is connected.                                  *)
LEMMA InitialTurn == SysInit => TurnInv
<1> SUFFICES ASSUME SysInit PROVE TurnInv
  OBVIOUS
<1>1. TrafficInv
  BY InitialTraffic
<1>2. /\ device.phase = "quiet" /\ toHost = <<>> /\ printed = {} /\ spoiled = FALSE
      /\ todo = {} /\ wire = <<>> /\ outcome = [j \in Jobs |-> "idle"]
      /\ session = [j \in Jobs |-> NewSession]
  BY DEF SysInit, Init, QuietDevice
<1>3. Running = {}
  BY <1>2 DEF Running
<1>4. Coming = {} /\ Starts = {}
  BY <1>2, SetOfEmpty DEF Coming, Starts
<1>5. NoneAfter(wire, StartMessage, StartMessage) /\ NoneAfter(toHost, Enders, Enders)
  BY <1>2, OrderOfEmpty
<1>6. OneRuns /\ ClosedIsReset /\ CalmAtRest
  BY <1>2, <1>3, <1>4 DEF OneRuns, ClosedIsReset, CalmAtRest, Calm, Resting
<1>7. DeviceIsAtTheJob /\ EndsOnce
  BY <1>2, <1>3, <1>4, <1>5 DEF DeviceIsAtTheJob, EndsOnce
<1>8. FinishedIsPrinted
  BY <1>2, <1>4 DEF FinishedIsPrinted, FinishedMeansPrinted, NewSession
<1> QED
  BY <1>1, <1>6, <1>7, <1>8 DEF TurnInv

(* For a caller that leaves a connection on which a job failed, host and   *)
(* device agree at all times on the job they are at and on its end.        *)
THEOREM TurnInvariance ==
  ASSUME ~ReuseAfterFailure
  PROVE  SysSpec => []TurnInv
<1>1. TurnInv /\ [SysNext]_sysVars => TurnInv'
  BY StepKeepsTurn
<1> QED
  BY <1>1, InitialTurn, PTL DEF SysSpec

(* A session is marked finished by a job the device printed: FINISHED      *)
(* reaches the job it is about and no later one, as the caller leaves a    *)
(* connection on which a job failed and the device ends no session by      *)
(* itself (find_late_finish shows what else may happen).                   *)
THEOREM FinishedIsEarned ==
  ASSUME ~ReuseAfterFailure, ~MayTearDown
  PROVE  SysSpec => []FinishedMeansPrinted
<1>1. TurnInv => FinishedMeansPrinted
  BY DEF TurnInv, FinishedIsPrinted
<1>2. SysSpec => []TurnInv
  BY TurnInvariance
<1> QED
  BY <1>1, <1>2, PTL

(* printRaw resolves for a job the device printed in full, under the       *)
(* same two conditions: no late FINISHED, no acknowledgement of another    *)
(* job and no write that lands late resolves a call.                       *)
THEOREM SystemResolutionIsEarned ==
  ASSUME ~ReuseAfterFailure, ~MayTearDown
  PROVE  SysSpec => []ResolvedMeansPrinted
<1>1. TurnInv => ResolvedMeansPrinted
  BY DEF TurnInv, TrafficInv, IInv, FinishedIsPrinted, FinishedMeansPrinted,
         ResolvedOnlyIfFinished, ResolvedMeansPrinted
<1>2. SysSpec => []TurnInv
  BY TurnInvariance
<1> QED
  BY <1>1, <1>2, PTL

-----------------------------------------------------------------------------
(* The third layer: what the device asks for is what it is sent.           *)

(* A message is an aside or answers the device, never both.                *)
LEMMA AsidesAndAnswers ==
  ASSUME ConversationInv
  PROVE  /\ ToSet(wire) \subseteq Asides \cup Answered
         /\ Asides \cap Answered = {}
         /\ Asides \cap StartMessage = {}
         /\ Starts \subseteq Answered
         /\ Answered \subseteq Message
<1>1. /\ ToSet(wire) \subseteq Placeable /\ ToSet(wire) \subseteq KnownMessage
      /\ DeviceFollowsJobs
  BY DEF ConversationInv, TakesTurns, TurnInv, TrafficInv
<1>2. /\ EndJobFrame.opcode # Command.SESSION_START
      /\ HeartbeatEcho.opcode # Command.SESSION_START
      /\ HeartbeatEcho \notin {StartFrame, AckFrame, EndJobFrame}
      /\ HeartbeatEcho.opcode \notin PrintStarts \cup DataOpcodes
  BY HostFrames DEF Command, PrintStarts, DataOpcodes
<1>3. Caller \notin Jobs
  BY PrinterAssumption DEF Calls
<1>4. ASSUME NEW m \in ToSet(wire) PROVE m \in Asides \cup Answered
  <2>1. m \in Message /\ m \in Placeable
    BY <1>1, <1>4 DEF Placeable
  <2>2. CASE m.by = device.job /\ device.phase # "quiet" /\ m.frame # HeartbeatEcho
    BY <1>1, <2>1, <2>2 DEF DeviceFollowsJobs, Answered
  <2>3. CASE m.by \in Jobs /\ m.frame = StartFrame
    BY <1>2, <2>1, <2>3 DEF Answered
  <2> QED
    BY <1>2, <2>1, <2>2, <2>3 DEF Placeable, GivenUp
<1>5. ASSUME NEW m \in Starts PROVE m \in Answered
  <2>1. m.frame.opcode = Command.SESSION_START /\ m \in Message /\ m \in KnownMessage
    BY <1>1, <1>5 DEF Starts, StartMessage
  <2> QED
    BY <1>2, <2>1 DEF KnownMessage, Answered
<1> QED
  BY <1>2, <1>3, <1>4, <1>5 DEF Asides, Answered, StartMessage

(* Frames that are small talk, and frames that are not.                    *)
LEMMA SmallTalkAndQuestions ==
  ASSUME ConversationInv
  PROVE  /\ Unasked /\ Coming \cap Enders = {} => Coming \subseteq SmallTalk
         /\ device.phase \notin GivenUp /\ Unasked => Coming \subseteq SmallTalk
         /\ SmallTalk \cap (Questions \cup {TearDown}) = {}
         /\ SmallTalk \subseteq Due'
         /\ {FaultFrame, TearDown} \cap Questions = {}
<1>1. Coming \subseteq Due /\ Coming \subseteq PrinterFrame /\ device.got \in Nat
  BY DeviceFrames DEF ConversationInv, TakesTurns, TurnInv, TrafficInv, Due, Device
<1>2. /\ \A n : Heartbeat # RequestFrame(n) /\ MediaInfo # RequestFrame(n)
                /\ FaultFrame # RequestFrame(n) /\ TearDown # RequestFrame(n)
      /\ SmallTalk \cap {NeedsAck, ReadyFrame, FinishedFrame, TearDown} = {}
      /\ {FaultFrame, TearDown} \cap {NeedsAck, ReadyFrame, FinishedFrame} = {}
  BY DeviceFramesDiffer DEF SmallTalk
<1>3. SmallTalk \cap (Questions \cup {TearDown}) = {}
      /\ {FaultFrame, TearDown} \cap Questions = {}
  BY <1>2 DEF Questions, SmallTalk, IsRequest
<1>4. ASSUME NEW f \in Coming, f \notin Questions PROVE f \in SmallTalk \cup {FaultFrame, TearDown}
  <2>1. f # RequestFrame(device.got)
    BY <1>1, <1>4, DeviceFrames DEF Questions
  <2> QED
    BY <1>1, <1>4, <2>1 DEF Due, Questions
<1>5. ASSUME NEW f \in Coming, f \in {FaultFrame, TearDown}, device.phase \notin GivenUp
      PROVE  FALSE
  BY <1>1, <1>2, <1>5, DeviceFramesDiffer DEF Due, SmallTalk
<1>6. SmallTalk \subseteq Due'
  BY DeviceFrames DEF Due, SmallTalk
<1> QED
  BY <1>3, <1>4, <1>5, <1>6 DEF Unasked, Enders

(* What is in place stays in place while the device is at the same point   *)
(* of the same job, or gives up on it.                                     *)
LEMMA InPlaceStays ==
  ASSUME TrafficInv,
         device'.job = device.job, device'.got = device.got,
         device'.phase = device.phase \/ device'.phase \in GivenUp,
         \A j \in Jobs : session'[j].bytesSent = session[j].bytesSent
  PROVE  Placeable \subseteq Placeable' /\ Due \subseteq Due'
<1>1. device.phase # "quiet" => device.job \in Jobs
  BY DEF TrafficInv, DeviceFollowsJobs
<1>2. Due \subseteq Due'
  BY DEF Due
<1>3. ASSUME NEW m \in Placeable PROVE m \in Placeable'
  <2>1. CASE m \in Asides \/ (m.by \in Jobs /\ m.frame = StartFrame)
    BY <1>3, <2>1 DEF Placeable, Asides
  <2>2. CASE /\ m.by = device.job /\ m.frame = AckFrame
             /\ device.phase \in {"greeting", "received"} \cup GivenUp
    BY <1>3, <2>2 DEF Placeable
  <2>3. CASE /\ m.by = device.job /\ m.frame.opcode \in PrintStarts
             /\ device.phase \in {"ready"} \cup GivenUp
    BY <1>3, <2>3 DEF Placeable
  <2>4. CASE /\ m.by = device.job /\ m.frame.opcode \in DataOpcodes
             /\ m.frame.payload[1] = device.got
             /\ m.frame.payload[2] <= session[m.by].bytesSent
             /\ device.phase \in {"pulling"} \cup GivenUp
    <3>1. session'[m.by].bytesSent = session[m.by].bytesSent
      BY <1>1, <2>4 DEF GivenUp
    <3> QED
      BY <1>3, <2>4, <3>1 DEF Placeable
  <2>5. CASE /\ m.by = device.job /\ m.frame = EndJobFrame
             /\ device.phase \in {"finished"} \cup GivenUp
    BY <1>3, <2>5 DEF Placeable
  <2> QED
    BY <1>3, <2>1, <2>2, <2>3, <2>4, <2>5 DEF Placeable
<1> QED
  BY <1>2, <1>3

(* An aside is in place at any point.                                      *)
LEMMA AsidesAreInPlace == Asides \subseteq Placeable'
  BY DEF Asides, Placeable

(* Where the host takes something back, no question is left over for a     *)
(* job that starts later.                                                  *)
LEMMA RecedingKeepsConversation ==
  ASSUME ConversationInv, TurnInv', UNCHANGED sysVars \/ Bookkeeping, Recedes
  PROVE  ConversationInv'
<1>1. /\ UNCHANGED <<session, frame, todo, toHost, device>>
      /\ Running' \subseteq Running
      /\ ToSet(wire') \subseteq ToSet(wire)
      /\ \A A, B : NoneAfter(wire, A, B) => NoneAfter(wire', A, B)
  BY DEF Recedes
<1>2. /\ TurnInv /\ TrafficInv /\ PrinterNeverConfused /\ ProgressCoversReceipt /\ TakesTurns
  BY DEF ConversationInv, TurnInv
<1>3. Coming' = Coming /\ (Unasked' <=> Unasked) /\ Questions' = Questions
      /\ Answered' = Answered /\ StartMessage' = StartMessage
  BY <1>1 DEF Coming, Unasked, Questions, Answered, StartMessage
<1>4. ToSet(wire') \subseteq Placeable' /\ Coming' \subseteq Due'
  BY <1>1, <1>2, <1>3, InPlaceStays DEF TakesTurns
<1>5. OneQuestion' /\ OneAnswer'
  BY <1>1, <1>2, <1>3 DEF TakesTurns, OneQuestion, OneAnswer
<1>6. Running' = {} /\ ~spoiled' => Unasked'
  BY <1>2, <1>3, RestIsEarned DEF TakesTurns
<1>7. TakesTurns'
  BY <1>1, <1>2, <1>3, <1>4, <1>5, <1>6 DEF TakesTurns
<1> QED
  BY <1>1, <1>2, <1>7 DEF ConversationInv, PrinterNeverConfused, ProgressCoversReceipt

(* Without queries only cancels murmur, and those are asides.              *)
LEMMA MurmuringKeepsConversation ==
  ASSUME ConversationInv, TurnInv', UNCHANGED sysVars \/ Bookkeeping, Queries = {}, Murmurs
  PROVE  ConversationInv'
<1>1. /\ UNCHANGED <<channel, outcome, session, toHost, device, Running>>
      /\ todo' \cap Jobs = todo \cap Jobs
      /\ todo' # {} => frame' = frame
  BY DEF Murmurs, Running
<1>2. /\ TurnInv /\ TrafficInv /\ PrinterNeverConfused /\ ProgressCoversReceipt /\ TakesTurns
      /\ wire \in Seq(Message)
  BY DEF ConversationInv, TurnInv, TrafficInv, IInv, TypeOK
<1>3. Coming' = Coming /\ (Unasked' <=> Unasked) /\ Questions' = Questions
      /\ Answered' = Answered /\ StartMessage' = StartMessage
  BY <1>1 DEF Coming, Unasked, Questions, Answered, StartMessage
<1>4. wire' = wire \/ \E m \in Asides : wire' = Append(wire, m)
  BY DEF Murmurs, Asides
<1>5. /\ ToSet(wire') \subseteq ToSet(wire) \cup Asides
      /\ OneAnswer'
  <2>1. OneAnswer
    BY <1>2 DEF TakesTurns
  <2>2. CASE wire' = wire
    BY <1>3, <2>1, <2>2 DEF OneAnswer
  <2>3. ASSUME NEW m \in Asides, wire' = Append(wire, m)
        PROVE  ToSet(wire') \subseteq ToSet(wire) \cup Asides /\ OneAnswer'
    <3>1. m \in Message /\ m \notin Answered
      BY <2>3, AsidesAndAnswers DEF Asides
    <3>2. ToSet(wire') = ToSet(wire) \cup {m}
      BY <1>2, <2>3, <3>1, SetOfAppend
    <3>3. /\ NoneAfter(wire', Answered, Answered \ StartMessage)
          /\ NoneAfter(wire', StartMessage, Answered)
      BY <1>2, <2>1, <2>3, <3>1, OrderOfAppend DEF OneAnswer
    <3> QED
      BY <1>3, <2>3, <3>2, <3>3 DEF OneAnswer
  <2> QED
    BY <1>4, <2>2, <2>3
<1>6. ToSet(wire') \subseteq Placeable' /\ Coming' \subseteq Due'
  BY <1>1, <1>2, <1>3, <1>5, InPlaceStays, AsidesAreInPlace DEF TakesTurns
<1>7. OneQuestion'
  BY <1>1, <1>2, <1>3 DEF TakesTurns, OneQuestion
<1>8. spoiled' = spoiled
  BY <1>1, <1>2, SpoiledStays
<1>9. TakesTurns'
  BY <1>1, <1>2, <1>3, <1>5, <1>6, <1>7, <1>8, AsidesAndAnswers DEF TakesTurns
<1> QED
  BY <1>1, <1>2, <1>9 DEF ConversationInv, PrinterNeverConfused, ProgressCoversReceipt

(* A start is the only answer under way, and nothing was asked.            *)
LEMMA StartingKeepsConversation ==
  ASSUME ConversationInv, TurnInv', UNCHANGED sysVars \/ Bookkeeping,
         NoJobRuns, ~spoiled, NEW j \in Jobs, StartJob(j), HostOnly
  PROVE  ConversationInv'
<1> DEFINE m == [by |-> j, frame |-> StartFrame]
<1>0. /\ TurnInv /\ TrafficInv /\ PrinterNeverConfused /\ ProgressCoversReceipt /\ TakesTurns
      /\ IInv /\ wire \in Seq(Message)
  BY DEF ConversationInv, TurnInv, TrafficInv, IInv, TypeOK
<1>1. /\ UNCHANGED <<session, frame, todo, toHost, device>>
      /\ ~session[j].finished
      /\ Running' = Running \cup {j}
      /\ m \in StartMessage /\ wire' = Append(wire, m)
  BY <1>0, StartingStep
<1>2. Running = {} /\ Running' = {j}
  BY <1>1 DEF NoJobRuns, Running
<1>3. Unasked /\ Starts = {}
  BY <1>0, <1>2 DEF TakesTurns, TurnInv, CalmAtRest, Calm
<1>4. m \in Message /\ m \in Placeable'
  BY <1>1 DEF StartMessage, Placeable
<1> HIDE DEF m
<1>5. Coming' = Coming /\ (Unasked' <=> Unasked) /\ Questions' = Questions
      /\ Answered' = Answered /\ StartMessage' = StartMessage
  BY <1>1 DEF Coming, Unasked, Questions, Answered, StartMessage
<1>6. ToSet(wire') = ToSet(wire) \cup {m}
  BY <1>0, <1>1, <1>4, SetOfAppend
<1>7. ToSet(wire') \subseteq Placeable' /\ Coming' \subseteq Due'
  BY <1>0, <1>1, <1>4, <1>5, <1>6, InPlaceStays DEF TakesTurns
<1>8. OneQuestion'
  BY <1>0, <1>1, <1>5 DEF TakesTurns, OneQuestion
<1>9. OneAnswer'
  <2>1. NoneAfter(wire, Answered, Answered \ StartMessage)
        /\ NoneAfter(wire, StartMessage, Answered)
    BY <1>0 DEF TakesTurns, OneAnswer
  <2>2. ToSet(wire) \cap StartMessage = {}
    BY <1>3 DEF Starts
  <2>3. NoneAfter(wire', Answered, Answered \ StartMessage)
    BY <1>0, <1>1, <1>4, <2>1, OrderOfAppend
  <2>4. NoneAfter(wire', StartMessage, Answered)
    BY <1>0, <1>1, <1>4, <2>1, <2>2, OrderOfAppend
  <2> QED
    BY <1>5, <2>3, <2>4 DEF OneAnswer
<1>10. TakesTurns'
  BY <1>0, <1>1, <1>3, <1>5, <1>7, <1>8, <1>9 DEF TakesTurns
<1> QED
  BY <1>0, <1>1, <1>10 DEF ConversationInv, PrinterNeverConfused, ProgressCoversReceipt

(* The question that is delivered is the only one.                         *)
LEMMA DeliveringKeepsConversation ==
  ASSUME ConversationInv, TurnInv', UNCHANGED sysVars \/ Bookkeeping, Deliver
  PROVE  ConversationInv'
<1> DEFINE f == Head(toHost)
<1>0. /\ TurnInv /\ TrafficInv /\ PrinterNeverConfused /\ ProgressCoversReceipt /\ TakesTurns
      /\ IInv /\ toHost \in Seq(DeviceFrame)
  BY DEF ConversationInv, TurnInv, TrafficInv
<1>1. /\ UNCHANGED <<channel, outcome, session, wire, device, Running>>
      /\ toHost # <<>> /\ toHost' = Tail(toHost)
      /\ todo = {} /\ (todo' # {} => frame' = f)
      /\ todo' \cap Jobs = Running
  BY <1>0, DeliveringStep DEF Running
<1>2. /\ ToSet(toHost) = {f} \cup ToSet(toHost')
      /\ f \in Questions \cup {TearDown} => ToSet(toHost') \cap Questions = {}
      /\ NoneAfter(toHost', Questions \cup {TearDown}, Questions)
  <2>1. NoneAfter(toHost, Questions \cup {TearDown}, Questions)
    BY <1>0 DEF TakesTurns, OneQuestion
  <2> QED
    BY <1>0, <1>1, <2>1, SetOfTail, OrderOfTail
<1> HIDE DEF f
<1>3. Coming' \subseteq Coming
  BY <1>1, <1>2 DEF Coming
<1>4. Questions' = Questions /\ Answered' = Answered /\ StartMessage' = StartMessage
  BY DEF Questions, Answered, StartMessage
<1>5. Unasked => Unasked'
  BY <1>3, <1>4 DEF Unasked
<1>6. spoiled' = spoiled
  BY <1>0, <1>1, SpoiledStays
<1>7. ToSet(wire') \subseteq Placeable' /\ Coming' \subseteq Due'
  BY <1>0, <1>1, <1>3, InPlaceStays DEF TakesTurns
<1>8. OneQuestion'
  BY <1>1, <1>2, <1>4 DEF OneQuestion
<1>9. OneAnswer'
  BY <1>0, <1>1, <1>4 DEF TakesTurns, OneAnswer
<1>10. TakesTurns'
  BY <1>0, <1>1, <1>4, <1>5, <1>6, <1>7, <1>8, <1>9 DEF TakesTurns
<1> QED
  BY <1>0, <1>1, <1>10 DEF ConversationInv, PrinterNeverConfused, ProgressCoversReceipt

(* A job that sees a question is at the job of the device, and what it     *)
(* answers is the next thing the device hears of it.                       *)
LEMMA QuestionIsForTheJob ==
  ASSUME ConversationInv, NEW j \in Running, j \in todo, frame \in Questions
  PROVE  /\ device.job = j /\ frame \in Due
         /\ ToSet(wire) \subseteq Asides
         /\ ToSet(wire) \cap Answered = {} /\ ToSet(wire) \cap StartMessage = {}
         /\ ToSet(toHost) \cap Questions = {}
<1>0. TurnInv /\ TakesTurns /\ todo \cap Jobs # {} /\ frame \in Coming
  BY DEF ConversationInv, Running, Coming
<1>1. ToSet(wire) \cap Answered = {} /\ ToSet(toHost) \cap Questions = {} /\ frame \in Due
  BY <1>0 DEF TakesTurns, OneQuestion, Unasked
<1>2. Starts = {} /\ ToSet(wire) \subseteq Asides
  BY <1>1, AsidesAndAnswers DEF Starts
<1>3. device.job = j
  BY <1>0, <1>2 DEF TurnInv, DeviceIsAtTheJob
<1> QED
  BY <1>1, <1>2, <1>3 DEF Starts

(* What a job answers to a question is what the device waits for.          *)
LEMMA AnswerIsPlaceable ==
  ASSUME ConversationInv, NEW j \in Running, j \in todo, frame \in Questions, UNCHANGED device,
         NEW m \in Message, m.by = j,
         \/ frame = NeedsAck /\ m.frame = AckFrame
         \/ frame = ReadyFrame /\ m.frame.opcode \in PrintStarts
         \/ frame = FinishedFrame /\ m.frame = EndJobFrame
         \/ /\ IsRequest(frame)
            /\ m.frame.opcode \in DataOpcodes
            /\ m.frame.payload[1] = frame.payload[1]
            /\ m.frame.payload[2] = session'[j].bytesSent,
         session'[j].bytesSent \in Nat
  PROVE  m \in Placeable'
<1>1. device.job = j /\ frame \in Due
  BY QuestionIsForTheJob
<1>2. frame \notin SmallTalk \cup {FaultFrame, TearDown}
  BY SmallTalkAndQuestions
<1>3. device.got \in Nat
  BY DEF ConversationInv, TurnInv, TrafficInv, Device
<1>4. CASE frame = NeedsAck /\ m.frame = AckFrame
  <2>1. device.phase \in {"greeting", "received"} \cup GivenUp
    BY <1>1, <1>2, <1>4, DeviceFramesDiffer DEF Due
  <2> QED
    BY <1>1, <1>4, <2>1 DEF Placeable
<1>5. CASE frame = ReadyFrame /\ m.frame.opcode \in PrintStarts
  <2>1. device.phase \in {"ready"} \cup GivenUp
    BY <1>1, <1>2, <1>5, DeviceFramesDiffer DEF Due
  <2> QED
    BY <1>1, <1>5, <2>1 DEF Placeable
<1>6. CASE frame = FinishedFrame /\ m.frame = EndJobFrame
  <2>1. device.phase \in {"finished"} \cup GivenUp
    BY <1>1, <1>2, <1>6, DeviceFramesDiffer DEF Due
  <2> QED
    BY <1>1, <1>6, <2>1 DEF Placeable
<1>7. CASE /\ IsRequest(frame)
           /\ m.frame.opcode \in DataOpcodes
           /\ m.frame.payload[1] = frame.payload[1]
           /\ m.frame.payload[2] = session'[j].bytesSent
  <2>1. frame = RequestFrame(frame.payload[1])
    BY <1>7 DEF IsRequest
  <2>2. frame = RequestFrame(device.got) /\ device.phase \in {"pulling"} \cup GivenUp
    BY <1>1, <1>2, <2>1, DeviceFramesDiffer DEF Due
  <2>3. frame.payload[1] = device.got
    BY <2>1, <2>2, DeviceFramesDiffer
  <2> QED
    BY <1>1, <1>7, <2>2, <2>3 DEF Placeable
<1> QED
  BY <1>4, <1>5, <1>6, <1>7

(* A question is answered once, and a slice of the image is announced by   *)
(* onProgress before the device can hold it.                               *)
LEMMA AnsweringKeepsConversation ==
  ASSUME ConversationInv, TurnInv', UNCHANGED sysVars \/ Bookkeeping,
         NEW j \in Jobs, OnFrame(j), HostOnly
  PROVE  ConversationInv'
<1>0. /\ TurnInv /\ TrafficInv /\ PrinterNeverConfused /\ ProgressCoversReceipt /\ TakesTurns
      /\ IInv /\ wire \in Seq(Message)
      /\ outcome \in [Jobs -> Outcomes] /\ session \in [Jobs -> Session]
      /\ session' \in [Jobs -> Session]
      /\ channel \in {"closed", "open", "closing"}
  BY DEF ConversationInv, TurnInv, TrafficInv, IInv, TypeOK
<1>1. /\ UNCHANGED <<toHost, device, channel>>
      /\ j \in todo /\ todo' = todo \ {j} /\ j \in Running
      /\ frame \in DeviceFrame
      /\ HostAnswers(j)
  BY <1>0, AnsweringStep DEF TrafficInv, HostOnly
<1>2. /\ Running = {j} /\ todo \cap Jobs = {j} /\ todo' \cap Jobs = {}
      /\ channel # "closed" /\ ~spoiled
  <2>1. Running = {j}
    BY <1>0, <1>1 DEF TurnInv, OneRuns
  <2> QED
    BY <1>0, <1>1, <2>1, RunningIsListening DEF TurnInv, OneRuns
<1>3. Coming' = ToSet(toHost) /\ Coming' \subseteq Coming /\ frame \in Coming
  BY <1>1, <1>2 DEF Coming
<1>4. Questions' = Questions /\ Answered' = Answered /\ StartMessage' = StartMessage
  BY DEF Questions, Answered, StartMessage
<1>5. OneQuestion'
  BY <1>0, <1>1, <1>2, <1>4 DEF TakesTurns, OneQuestion
<1>6. \A k \in Jobs \ {j} : session'[k] = session[k] /\ outcome'[k] = outcome[k]
  BY <1>0, <1>1 DEF HostAnswers
<1>7. Running' \subseteq Running
  BY <1>2, <1>6 DEF Running
<1>8. CASE frame \in Questions
  <2>1. /\ device.job = j /\ frame \in Due
        /\ ToSet(wire) \subseteq Asides
        /\ ToSet(wire) \cap Answered = {} /\ ToSet(wire) \cap StartMessage = {}
        /\ ToSet(toHost) \cap Questions = {}
    BY <1>1, <1>8, QuestionIsForTheJob
  <2>2. Unasked'
    BY <1>3, <1>4, <2>1 DEF Unasked
  <2>3. session'[j].bytesSent \in Nat
    BY <1>0 DEF Session
  <2>4. frame \notin SmallTalk /\ frame # InfoBlock
    <3>1. frame \notin SmallTalk
      BY <1>8, SmallTalkAndQuestions
    <3>2. ~IsRequest(InfoBlock)
      BY DeviceFramesDiffer DEF IsRequest
    <3> QED
      BY <1>8, <3>1, <3>2, DeviceFramesDiffer DEF Questions
  <2>5. \/ wire' = wire
        \/ \E m \in Message : /\ wire' = Append(wire, m)
                              /\ ToSet(wire') = ToSet(wire) \cup {m}
                              /\ m \in Placeable'
    <3>1. ASSUME NEW m \in Message, m.by = j,
                 \/ frame = NeedsAck /\ m.frame = AckFrame
                 \/ frame = ReadyFrame /\ m.frame.opcode \in PrintStarts
                 \/ frame = FinishedFrame /\ m.frame = EndJobFrame
                 \/ /\ IsRequest(frame)
                    /\ m.frame.opcode \in DataOpcodes
                    /\ m.frame.payload[1] = frame.payload[1]
                    /\ m.frame.payload[2] = session'[j].bytesSent
          PROVE  m \in Placeable'
      BY <1>1, <1>8, <2>3, <3>1, AnswerIsPlaceable
    <3>2. frame # Heartbeat
      BY <2>4 DEF SmallTalk
    <3> QED
      BY <1>0, <1>1, <2>4, <3>1, <3>2, AnswerOnWire
  <2>6. ToSet(wire') \subseteq Placeable'
    BY <2>1, <2>5, AsidesAreInPlace
  <2>7. OneAnswer'
    <3>1. OneAnswer
      BY <1>0 DEF TakesTurns
    <3>2. ASSUME NEW m \in Message, wire' = Append(wire, m) PROVE OneAnswer'
      <4>1. NoneAfter(wire', Answered, Answered \ StartMessage)
        BY <1>0, <2>1, <3>1, <3>2, OrderOfAppend DEF OneAnswer
      <4>2. NoneAfter(wire', StartMessage, Answered)
        BY <1>0, <2>1, <3>1, <3>2, OrderOfAppend DEF OneAnswer
      <4> QED
        BY <1>4, <4>1, <4>2 DEF OneAnswer
    <3> QED
      BY <1>4, <2>5, <3>1, <3>2 DEF OneAnswer
  <2>8. Coming' \subseteq Due'
    BY <1>0, <1>1, <1>3 DEF TakesTurns, Due
  <2>9. TakesTurns'
    BY <1>0, <1>1, <1>5, <2>2, <2>6, <2>7, <2>8 DEF TakesTurns
  <2>10. device.got <= session'[j].bytesSent
    <3>1. session[j].bytesSent \in Nat /\ device.got \in Nat
          /\ device.got <= session[j].bytesSent
      BY <1>0, <2>1 DEF Session, ProgressCoversReceipt, TrafficInv, Device
    <3>2. CASE session'[j].bytesSent = session[j].bytesSent
      BY <3>1, <3>2
    <3>3. CASE \E end \in Nat : frame.payload[1] < end /\ IsRequest(frame)
                                /\ session' = [session EXCEPT ![j].bytesSent = end]
      <4>1. frame = RequestFrame(device.got)
        BY <2>1, <2>4, <3>3, SmallTalkAndQuestions, DeviceFramesDiffer DEF Due, IsRequest
      <4>2. frame.payload[1] = device.got
        BY <3>1, <4>1, DeviceFrames
      <4> QED
        BY <1>0, <3>1, <3>3, <4>2 DEF Session
    <3>4. session[j] \in [bytesSent: Nat, finished: BOOLEAN, failed: BOOLEAN]
      BY <1>0 DEF Session
    <3>5. CASE UNCHANGED session
      BY <3>2, <3>5
    <3>6. CASE \/ session' = [session EXCEPT ![j].finished = TRUE]
               \/ session' = [session EXCEPT ![j].failed = TRUE]
      BY <1>0, <3>2, <3>4, <3>6
    <3> QED
      BY <1>1, <2>4, <3>3, <3>5, <3>6 DEF HostAnswers
  <2>11. ProgressCoversReceipt'
    BY <1>1, <2>1, <2>10 DEF ProgressCoversReceipt
  <2> QED
    BY <1>0, <1>1, <2>9, <2>11 DEF ConversationInv, PrinterNeverConfused
<1>9. CASE frame \notin Questions
  <2>1. frame \in SmallTalk \cup {FaultFrame, TearDown}
    <3>1. frame \in Due /\ frame \in PrinterFrame /\ device.got \in Nat
      BY <1>0, <1>1, <1>3, DeviceFrames DEF TakesTurns, TrafficInv, Device
    <3>2. frame # RequestFrame(device.got)
      BY <1>9, <3>1, DeviceFrames DEF Questions
    <3> QED
      BY <1>9, <3>1, <3>2 DEF Due, Questions
  <2>2. frame # InfoBlock /\ ~IsRequest(frame)
        /\ frame \notin {NeedsAck, ReadyFrame, FinishedFrame}
    BY <1>1, <1>9, <2>1, DeviceFrames, DeviceFramesDiffer DEF Questions, SmallTalk
  <2>3. /\ \A k \in Jobs : session'[k].bytesSent = session[k].bytesSent
        /\ frame = TearDown \/ session'[j].finished = session[j].finished
    BY <1>0, <1>1, <1>6, <2>2 DEF HostAnswers, Session
  <2>4. /\ ToSet(wire') \subseteq ToSet(wire) \cup Asides
        /\ OneAnswer'
    <3>1. OneAnswer
      BY <1>0 DEF TakesTurns
    <3>2. CASE wire' = wire
      BY <1>4, <3>1, <3>2 DEF OneAnswer
    <3>3. ASSUME NEW m \in Message, wire' = Append(wire, m),
                 ToSet(wire') = ToSet(wire) \cup {m}, m.by = j, m.frame = HeartbeatEcho
          PROVE  ToSet(wire') \subseteq ToSet(wire) \cup Asides /\ OneAnswer'
      <4>1. m \in Asides /\ m \notin Answered
        BY <3>3 DEF Asides, Answered
      <4>2. /\ NoneAfter(wire', Answered, Answered \ StartMessage)
            /\ NoneAfter(wire', StartMessage, Answered)
        BY <1>0, <3>1, <3>3, <4>1, OrderOfAppend DEF OneAnswer
      <4> QED
        BY <1>4, <3>3, <4>1, <4>2 DEF OneAnswer
    <3> QED
      BY <1>0, <1>1, <2>2, <3>2, <3>3, AnswerOnWire
  <2>5. ToSet(wire') \subseteq Placeable' /\ Coming' \subseteq Due'
    BY <1>0, <1>1, <1>3, <2>3, <2>4, InPlaceStays, AsidesAreInPlace DEF TakesTurns
  <2>6. Unasked => Unasked'
    BY <1>3, <1>4 DEF Unasked
  <2>7. frame = TearDown => Unasked'
    BY <1>0, <1>2, <1>3, <1>4 DEF TakesTurns, OneQuestion, Unasked
  <2>8. Running' = {} /\ ~spoiled' => Unasked'
    <3>1. CASE frame = TearDown
      BY <2>7, <3>1
    <3>2. CASE UNCHANGED outcome
      BY <1>2, <3>2 DEF Running
    <3>3. CASE outcome' = [outcome EXCEPT ![j] = "fault"]
      <4>1. outcome[j] = "running" /\ outcome'[j] = "fault" /\ outcome' # outcome
        BY <1>0, <1>1, <3>3 DEF Running
      <4>2. spoiled'
        BY <1>1, <1>2, <4>1 DEF Bookkeeping, sysVars, vars, Failures
      <4> QED
        BY <4>2
    <3> QED
      BY <1>1, <3>1, <3>2, <3>3 DEF HostAnswers
  <2>9. ToSet(wire') \cap Answered = {} \/ ToSet(wire) \cap Answered # {}
    BY <2>4, AsidesAndAnswers
  <2>10. TakesTurns'
    BY <1>0, <1>1, <1>2, <1>4, <1>5, <1>7, <2>3, <2>4, <2>5, <2>6, <2>7, <2>8, <2>9
       DEF TakesTurns
  <2>11. ProgressCoversReceipt'
    BY <1>0, <1>1, <2>3 DEF ProgressCoversReceipt
  <2> QED
    BY <1>0, <1>1, <2>10, <2>11 DEF ConversationInv, PrinterNeverConfused
<1> QED
  BY <1>8, <1>9

(* A closed channel leaves nothing unanswered.                             *)
LEMMA ClosingKeepsConversation ==
  ASSUME ConversationInv, TurnInv', SysCloses
  PROVE  ConversationInv'
<1>1. /\ todo' = {} /\ channel' = "closed" /\ wire' = <<>> /\ toHost' = <<>>
      /\ device' = [QuietDevice EXCEPT !.confused = device.confused]
  BY ClosingStep DEF ConversationInv, TurnInv, TrafficInv
<1>2. /\ device'.phase = "quiet" /\ device'.confused = device.confused
      /\ device'.job \notin Jobs
  BY <1>1, PrinterAssumption DEF QuietDevice, NoJob, Calls
<1>3. Coming' = {} /\ ToSet(wire') = {}
  BY <1>1, SetOfEmpty DEF Coming
<1>4. OneQuestion' /\ OneAnswer'
  BY <1>1, OrderOfEmpty DEF OneQuestion, OneAnswer
<1>5. TakesTurns'
  BY <1>2, <1>3, <1>4 DEF TakesTurns, Unasked
<1> QED
  BY <1>2, <1>5 DEF ConversationInv, PrinterNeverConfused, ProgressCoversReceipt

(* The device asks for the next thing when nothing is under way.           *)
LEMMA AskingKeepsTurns ==
  ASSUME ConversationInv, ~Calm, spoiled' = spoiled, todo = {},
         UNCHANGED <<outcome, session, frame, todo>>,
         ToSet(wire') \subseteq Asides, Coming \subseteq SmallTalk,
         NoneAfter(wire', Answered, Answered \ StartMessage),
         NoneAfter(wire', StartMessage, Answered),
         NEW f \in Due', toHost' = Append(toHost, f),
         device'.phase \in {"greeting", "ready"} => device'.got = 0
  PROVE  TakesTurns'
<1>1. /\ TurnInv /\ toHost \in Seq(DeviceFrame) /\ f \in DeviceFrame
      /\ TakesTurns
  BY DEF ConversationInv, TurnInv, TrafficInv, Due
<1>2. Coming = ToSet(toHost) /\ Coming' = ToSet(toHost) \cup {f}
  BY <1>1, SetOfAppend DEF Coming
<1>3. Questions' = Questions /\ Answered' = Answered /\ StartMessage' = StartMessage
      /\ Running' = Running
  BY DEF Questions, Answered, StartMessage, Running
<1>4. Coming' \subseteq Due'
  BY <1>2, SmallTalkAndQuestions
<1>5. ToSet(wire') \subseteq Placeable' /\ ToSet(wire') \cap Answered = {}
  BY AsidesAreInPlace, AsidesAndAnswers
<1>6. OneQuestion'
  <2>1. ToSet(toHost) \cap (Questions \cup {TearDown}) = {}
    BY <1>2, SmallTalkAndQuestions
  <2>2. NoneAfter(toHost, Questions \cup {TearDown}, Questions)
    BY <1>1 DEF TakesTurns, OneQuestion
  <2>3. NoneAfter(toHost', Questions \cup {TearDown}, Questions)
    BY <1>1, <2>1, <2>2, OrderOfAppend
  <2> QED
    BY <1>3, <2>3 DEF OneQuestion
<1>7. OneAnswer'
  BY <1>3 DEF OneAnswer
<1>8. ~(Running = {} /\ ~spoiled) /\ \A j \in Running : ~session[j].finished
  BY <1>1 DEF TurnInv, CalmAtRest
<1> QED
  BY <1>3, <1>4, <1>5, <1>6, <1>7, <1>8 DEF TakesTurns

(* Or it takes what it is sent and asks for nothing.                       *)
LEMMA ListeningKeepsTurns ==
  ASSUME ConversationInv, spoiled' = spoiled,
         UNCHANGED <<outcome, session, frame, todo, toHost>>,
         ToSet(wire') \subseteq ToSet(wire) \cap Placeable', Coming \subseteq Due',
         NoneAfter(wire', Answered, Answered \ StartMessage),
         NoneAfter(wire', StartMessage, Answered),
         device'.phase \in {"greeting", "ready"} => device'.got = 0
  PROVE  TakesTurns'
<1>1. TakesTurns
  BY DEF ConversationInv
<1>2. /\ Questions' = Questions /\ Answered' = Answered /\ StartMessage' = StartMessage
      /\ Running' = Running /\ Coming' = Coming /\ (Unasked' <=> Unasked)
  BY DEF Questions, Answered, StartMessage, Running, Coming, Unasked
<1>3. OneQuestion' /\ OneAnswer'
  BY <1>1, <1>2 DEF TakesTurns, OneQuestion, OneAnswer
<1> QED
  BY <1>1, <1>2, <1>3 DEF TakesTurns

(* The device takes an answer at a point of the job where it has not given *)
(* up on it: nothing else is under way.                                    *)
LEMMA AnswerIsAlone ==
  ASSUME ConversationInv, todo = {}, NEW m \in ToSet(wire), m \in Answered,
         device.phase \notin GivenUp \/ m \in StartMessage,
         ToSet(wire') \subseteq ToSet(wire),
         m \in StartMessage => ToSet(wire') \cap Answered = {},
         m \in Answered => ToSet(wire') \cap (Answered \ StartMessage) = {}
  PROVE  /\ Coming \subseteq SmallTalk
         /\ ToSet(wire') \subseteq Asides \cup StartMessage
         /\ device.phase \notin Resting \/ m \in StartMessage => ToSet(wire') \subseteq Asides
         /\ device.phase \notin Resting \/ m \in StartMessage => ~Calm
<1>1. TurnInv /\ TakesTurns
  BY DEF ConversationInv
<1>2. Unasked
  BY <1>1 DEF TakesTurns
<1>3. m \in StartMessage => m \in Starts
  BY DEF Starts
<1>4. Coming \subseteq SmallTalk
  <2>1. CASE device.phase \notin GivenUp
    BY <1>2, <2>1, SmallTalkAndQuestions
  <2>2. CASE m \in StartMessage
    BY <1>1, <1>2, <1>3, <2>2, SmallTalkAndQuestions DEF TurnInv, DeviceIsAtTheJob
  <2> QED
    BY <2>1, <2>2
<1>5. ToSet(wire') \subseteq Asides \cup StartMessage
      /\ (ToSet(wire') \cap StartMessage = {} => ToSet(wire') \subseteq Asides)
  BY AsidesAndAnswers
<1>6. device.phase \notin Resting => ToSet(wire') \cap StartMessage = {}
  BY <1>1 DEF TurnInv, DeviceIsAtTheJob, Starts
<1>7. m \in StartMessage => ToSet(wire') \cap StartMessage = {}
  BY AsidesAndAnswers DEF Starts
<1>8. device.phase \notin Resting \/ m \in StartMessage => ~Calm
  BY <1>3 DEF Calm
<1> QED
  BY <1>4, <1>5, <1>6, <1>7, <1>8

(* The device can place what it takes, and asks for the next thing.        *)
LEMMA TakingKeepsConversation ==
  ASSUME ConversationInv, TurnInv', UNCHANGED sysVars \/ Bookkeeping, DeviceTakes
  PROVE  ConversationInv'
<1> DEFINE m == Head(wire)
<1>0. /\ TurnInv /\ TrafficInv /\ ~device.confused /\ ProgressCoversReceipt /\ TakesTurns
      /\ DeviceFollowsJobs
      /\ device \in Device /\ device.got \in Nat
      /\ session \in [Jobs -> Session]
  BY DEF ConversationInv, TurnInv, TrafficInv, PrinterNeverConfused, IInv, TypeOK, Device
<1>1. /\ UNCHANGED <<channel, outcome, session, frame, todo>>
      /\ todo = {}
      /\ m \in KnownMessage /\ m \in ToSet(wire)
      /\ ToSet(wire) = {m} \cup ToSet(wire')
      /\ \A A, B : NoneAfter(wire, A, B)
           => NoneAfter(wire', A, B) /\ (m \in A => ToSet(wire') \cap B = {})
      /\ DeviceReacts(m)
  BY <1>0, TakingStep
<1> HIDE DEF m
<1>2. spoiled' = spoiled
  BY <1>0, <1>1, SpoiledStays
<1>3. m \in Placeable /\ m \in Message
  BY <1>0, <1>1 DEF TakesTurns, Placeable
<1>4. /\ NoneAfter(wire', Answered, Answered \ StartMessage)
      /\ NoneAfter(wire', StartMessage, Answered)
      /\ m \in Answered => ToSet(wire') \cap (Answered \ StartMessage) = {}
      /\ m \in StartMessage => ToSet(wire') \cap Answered = {}
  BY <1>0, <1>1 DEF TakesTurns, OneAnswer
<1>5. ASSUME m \in Answered, device.phase \notin GivenUp \/ m \in StartMessage
      PROVE  /\ Coming \subseteq SmallTalk
             /\ ToSet(wire') \subseteq Asides \cup StartMessage
             /\ device.phase \notin Resting \/ m \in StartMessage
                  => ToSet(wire') \subseteq Asides /\ ~Calm
  BY <1>1, <1>4, <1>5, AnswerIsAlone
<1>6. ASSUME device'.job = device.job, device'.got = device.got,
             device'.phase = device.phase \/ device'.phase \in GivenUp,
             ~device'.confused, toHost' = toHost
      PROVE  ConversationInv'
  <2>1. Placeable \subseteq Placeable' /\ Due \subseteq Due'
    BY <1>0, <1>1, <1>6, InPlaceStays
  <2>2. device'.phase \in {"greeting", "ready"} => device'.got = 0
    BY <1>0, <1>6 DEF TakesTurns, GivenUp
  <2>3. ToSet(wire') \subseteq ToSet(wire) \cap Placeable' /\ Coming \subseteq Due'
    BY <1>0, <1>1, <2>1 DEF TakesTurns
  <2>4. TakesTurns'
    BY <1>1, <1>2, <1>4, <1>6, <2>2, <2>3, ListeningKeepsTurns
  <2> QED
    BY <1>0, <1>1, <1>6, <2>4 DEF ConversationInv, PrinterNeverConfused, ProgressCoversReceipt
<1>7. ASSUME m \in Answered, device.phase \notin Resting \/ m \in StartMessage,
             NEW f, f \in Due', toHost' = Append(toHost, f), ~device'.confused,
             device'.phase \in {"greeting", "ready"} => device'.got = 0,
             device'.job \in Jobs => device'.got <= session[device'.job].bytesSent
      PROVE  ConversationInv'
  <2>1. device.phase \notin GivenUp \/ m \in StartMessage
    BY <1>7 DEF Resting, GivenUp
  <2>2. TakesTurns'
    BY <1>1, <1>2, <1>4, <1>5, <1>7, <2>1, AskingKeepsTurns
  <2> QED
    BY <1>1, <1>7, <2>2 DEF ConversationInv, PrinterNeverConfused, ProgressCoversReceipt
<1>8. ASSUME m.by = device.job, device.phase # "quiet", m.frame # HeartbeatEcho
      PROVE  m \in Answered
  BY <1>0, <1>3, <1>8 DEF Answered, DeviceFollowsJobs
<1>9. /\ \A n \in Nat : RequestFrame(n) \in DeviceFrame
      /\ NeedsAck \in DeviceFrame /\ ReadyFrame \in DeviceFrame
  BY DeviceFrames
<1> SUFFICES ConversationInv'
  OBVIOUS
<1>10. CASE /\ m.frame.opcode = Command.SESSION_START
            /\ device' = [QuietDevice EXCEPT !.phase = "greeting", !.job = m.by,
                                             !.confused = device.confused]
            /\ toHost' = Append(toHost, NeedsAck)
  <2>1. m \in StartMessage /\ m \in Answered
    BY <1>1, <1>3, <1>10, AsidesAndAnswers DEF StartMessage, Starts
  <2>2. device'.phase = "greeting" /\ device'.got = 0 /\ ~device'.confused /\ device'.job = m.by
    BY <1>0, <1>10 DEF QuietDevice
  <2>3. NeedsAck \in Due'
    BY <1>9, <2>2 DEF Due
  <2>4. device'.job \in Jobs => 0 <= session[device'.job].bytesSent
    BY <1>0 DEF Session
  <2> QED
    BY <1>7, <1>10, <2>1, <2>2, <2>3, <2>4
<1>11. CASE /\ m.frame.opcode = Command.HEARTBEAT
            /\ device' = [device EXCEPT !.awaitsEcho = FALSE] /\ toHost' = toHost
  BY <1>0, <1>6, <1>11 DEF Device
<1>12. m.frame.opcode # Command.DEVICE_INFO
  BY <1>3, HostFrames DEF Placeable, Asides, Command, PrintStarts, DataOpcodes
<1>13. CASE /\ m.frame.opcode = Command.ACK /\ device.phase = "greeting"
            /\ device' = [device EXCEPT !.phase = "ready"]
            /\ toHost' = Append(toHost, ReadyFrame)
  <2>1. m \in Answered
    <3>1. m.by = device.job /\ m.frame # HeartbeatEcho
      BY <1>3, <1>13, HostFrames DEF Placeable, Asides, Command
    <3> QED
      BY <1>8, <1>13, <3>1
  <2>2. /\ device'.phase = "ready" /\ device'.got = 0 /\ ~device'.confused
        /\ device'.job = device.job /\ device.got = 0
    BY <1>0, <1>13 DEF Device, TakesTurns
  <2>3. ReadyFrame \in Due'
    BY <1>9, <2>2 DEF Due
  <2>4. device'.job \in Jobs => device'.got <= session[device'.job].bytesSent
    BY <1>0, <2>2 DEF ProgressCoversReceipt
  <2>5. device.phase \notin Resting
    BY <1>13 DEF Resting
  <2> QED
    BY <1>7, <1>13, <2>1, <2>2, <2>3, <2>4, <2>5
<1>14. CASE /\ m.frame.opcode = Command.ACK /\ device.phase = "received"
            /\ device' = [device EXCEPT !.phase = "printing"]
            /\ toHost' = toHost
  <2>1. m \in Answered
    <3>1. m.by = device.job /\ m.frame # HeartbeatEcho
      BY <1>3, <1>14, HostFrames DEF Placeable, Asides, Command
    <3> QED
      BY <1>8, <1>14, <3>1
  <2>2. /\ device'.phase = "printing" /\ ~device'.confused
        /\ device'.job = device.job /\ device'.got = device.got
    BY <1>0, <1>14 DEF Device
  <2>3. Coming \subseteq SmallTalk /\ ToSet(wire') \subseteq Asides
    BY <1>5, <1>14, <2>1 DEF GivenUp, Resting
  <2>4. TakesTurns'
    BY <1>1, <1>2, <1>4, <1>14, <2>2, <2>3, AsidesAreInPlace, SmallTalkAndQuestions,
       ListeningKeepsTurns
  <2> QED
    BY <1>0, <1>1, <2>2, <2>4 DEF ConversationInv, PrinterNeverConfused, ProgressCoversReceipt
<1>15. CASE /\ m.frame.opcode \in PrintStarts /\ device.phase = "ready"
            /\ \E want \in Nat : device' = [device EXCEPT !.phase = "pulling", !.want = want]
            /\ toHost' = Append(toHost, RequestFrame(0))
  <2>1. m \in Answered
    <3>1. m.by = device.job /\ m.frame # HeartbeatEcho
      BY <1>3, <1>15, HostFrames DEF Placeable, Asides, Command, PrintStarts
    <3> QED
      BY <1>8, <1>15, <3>1
  <2>2. /\ device'.phase = "pulling" /\ device'.got = 0 /\ ~device'.confused
        /\ device'.job = device.job /\ device.got = 0
    <3>1. PICK want \in Nat : device' = [device EXCEPT !.phase = "pulling", !.want = want]
      BY <1>15
    <3> QED
      BY <1>0, <1>15, <3>1 DEF Device, TakesTurns
  <2>3. RequestFrame(0) \in Due'
    BY <1>9, <2>2 DEF Due
  <2>4. device'.job \in Jobs => device'.got <= session[device'.job].bytesSent
    BY <1>0, <2>2 DEF ProgressCoversReceipt
  <2>5. device.phase \notin Resting
    BY <1>15 DEF Resting
  <2> QED
    BY <1>7, <1>15, <2>1, <2>2, <2>3, <2>4, <2>5
<1>16. CASE /\ m.frame.opcode \in DataOpcodes /\ device.phase = "pulling"
            /\ \E got \in Nat :
                 /\ got <= m.frame.payload[2]
                 /\ \/ /\ device' = [device EXCEPT !.got = got, !.phase = "received"]
                       /\ toHost' = Append(toHost, NeedsAck)
                    \/ /\ device' = [device EXCEPT !.got = got]
                       /\ toHost' = Append(toHost, RequestFrame(got))
  <2>1. m.by = device.job /\ m.frame # HeartbeatEcho
        /\ m.frame.payload[2] <= session[m.by].bytesSent
    BY <1>3, <1>16, HostFrames DEF Placeable, Asides, Command, PrintStarts, DataOpcodes
  <2>2. m \in Answered /\ device.phase \notin Resting /\ device.job \in Jobs
    BY <1>0, <1>8, <1>16, <2>1 DEF Resting, DeviceFollowsJobs
  <2>3. PICK got \in Nat :
          /\ got <= m.frame.payload[2]
          /\ \/ /\ device' = [device EXCEPT !.got = got, !.phase = "received"]
                /\ toHost' = Append(toHost, NeedsAck)
             \/ /\ device' = [device EXCEPT !.got = got]
                /\ toHost' = Append(toHost, RequestFrame(got))
    BY <1>16
  <2>4. got <= session[device.job].bytesSent
    <3>1. m.frame.payload[2] \in Nat
      BY <1>1, <1>16, ElementOfSeq DEF KnownMessage, GoodMessage, Message, HostFrame
    <3>2. session[device.job].bytesSent \in Nat
      BY <1>0, <2>2 DEF Session
    <3> QED
      BY <2>1, <2>3, <3>1, <3>2
  <2>5. device'.got = got /\ device'.job = device.job /\ ~device'.confused
        /\ device'.phase \notin {"greeting", "ready"}
    BY <1>0, <1>16, <2>3 DEF Device
  <2>6. CASE /\ device' = [device EXCEPT !.got = got, !.phase = "received"]
             /\ toHost' = Append(toHost, NeedsAck)
    <3>1. device'.phase = "received"
      BY <1>0, <2>6 DEF Device
    <3>2. NeedsAck \in Due'
      BY <1>9, <3>1 DEF Due
    <3> QED
      BY <1>7, <2>2, <2>4, <2>5, <2>6, <3>2
  <2>7. CASE /\ device' = [device EXCEPT !.got = got]
             /\ toHost' = Append(toHost, RequestFrame(got))
    <3>1. device'.phase = "pulling"
      BY <1>0, <1>16, <2>7 DEF Device
    <3>2. RequestFrame(got) \in Due'
      BY <1>9, <2>5, <3>1 DEF Due
    <3> QED
      BY <1>7, <2>2, <2>4, <2>5, <2>7, <3>2
  <2> QED
    BY <2>3, <2>6, <2>7
<1>17. CASE /\ m.frame.opcode = Command.END_JOB /\ m.by = Caller
            /\ device' = [device EXCEPT !.phase = IF @ = "quiet" THEN @ ELSE "aborted",
                                        !.awaitsEcho = FALSE]
            /\ toHost' = toHost
  BY <1>0, <1>6, <1>17 DEF Device, GivenUp
<1>18. CASE /\ m.frame.opcode = Command.END_JOB /\ m.by # Caller /\ device.phase = "finished"
            /\ device' = [device EXCEPT !.phase = "quiet", !.awaitsEcho = FALSE]
            /\ toHost' = toHost
  <2>1. m \in Answered
    <3>1. m.by = device.job /\ m.frame # HeartbeatEcho
      BY <1>3, <1>18, HostFrames DEF Placeable, Asides, Command, PrintStarts, DataOpcodes
    <3> QED
      BY <1>8, <1>18, <3>1
  <2>2. /\ device'.phase = "quiet" /\ ~device'.confused
        /\ device'.job = device.job /\ device'.got = device.got
    BY <1>0, <1>18 DEF Device
  <2>3. Coming \subseteq SmallTalk /\ ToSet(wire') \subseteq Asides \cup StartMessage
    BY <1>5, <1>18, <2>1 DEF GivenUp
  <2>4. ToSet(wire') \subseteq Placeable'
    <3>1. ASSUME NEW n \in ToSet(wire'), n \in StartMessage PROVE n \in Placeable'
      <4>1. n \in Placeable
        BY <1>0, <1>1, <3>1 DEF TakesTurns
      <4>2. n \in Message /\ n.by \in Jobs /\ n.frame = StartFrame
        BY <3>1, <4>1, HostFrames
           DEF StartMessage, Placeable, Asides, Command, PrintStarts, DataOpcodes
      <4> QED
        BY <4>2 DEF Placeable
    <3> QED
      BY <2>3, <3>1, AsidesAreInPlace
  <2>5. TakesTurns'
    BY <1>1, <1>2, <1>4, <1>18, <2>2, <2>3, <2>4, SmallTalkAndQuestions,
       ListeningKeepsTurns
  <2> QED
    BY <1>0, <1>1, <2>2, <2>5 DEF ConversationInv, PrinterNeverConfused, ProgressCoversReceipt
<1>19. CASE /\ m.frame.opcode \notin {Command.SESSION_START, Command.HEARTBEAT,
                                      Command.DEVICE_INFO}
            /\ m.frame.opcode = Command.ACK /\ m.frame.arg1 = 53
                 => device.phase \notin {"greeting", "received"}
            /\ m.frame.opcode \in PrintStarts => device.phase # "ready"
            /\ m.frame.opcode \in DataOpcodes
                 => ~(device.phase = "pulling" /\ m.frame.payload[1] = device.got)
            /\ m.frame.opcode = Command.END_JOB
                 => m.by # Caller /\ device.phase # "finished"
            /\ device' = [device EXCEPT !.confused = device.phase \notin GivenUp]
            /\ toHost' = toHost
  <2>1. device.phase \in GivenUp
    BY <1>3, <1>19, HostFrames DEF Placeable, Asides
  <2> QED
    BY <1>0, <1>6, <1>19, <2>1 DEF Device
<1> QED
  BY <1>1, <1>10, <1>11, <1>12, <1>13, <1>14, <1>15, <1>16, <1>17, <1>18, <1>19
     DEF DeviceReacts

(* The device announces the end of a job when nothing else is under way    *)
(* or gives up on it.                                                      *)
LEMMA AnnouncingKeepsConversation ==
  ASSUME ConversationInv, TurnInv', UNCHANGED sysVars \/ Bookkeeping,
         UNCHANGED vars, todo = {}, Announces
  PROVE  ConversationInv'
<1>0. /\ TurnInv /\ TrafficInv /\ ~device.confused /\ ProgressCoversReceipt /\ TakesTurns
      /\ device \in Device /\ toHost \in Seq(DeviceFrame)
  BY DEF ConversationInv, TurnInv, TrafficInv, PrinterNeverConfused
<1>1. /\ UNCHANGED <<channel, outcome, session, frame, todo, wire>>
      /\ Questions' = Questions /\ Answered' = Answered /\ StartMessage' = StartMessage
      /\ Running' = Running
  BY DEF vars, Questions, Answered, StartMessage, Running
<1>2. spoiled' = spoiled
  BY <1>0, <1>1, SpoiledStays
<1>3. OneAnswer' /\ OneAnswer
  BY <1>0, <1>1 DEF TakesTurns, OneAnswer
<1>4. /\ device'.job = device.job /\ device'.got = device.got
      /\ ~device'.confused
      /\ device'.phase = device.phase \/ device'.phase \in {"finished", "gaveUp"}
  BY <1>0 DEF Announces, Device
<1>5. ProgressCoversReceipt' /\ PrinterNeverConfused'
  BY <1>0, <1>1, <1>4 DEF ProgressCoversReceipt, PrinterNeverConfused
<1>6. device'.phase \in {"greeting", "ready"} => device'.got = 0
  BY <1>0, <1>4 DEF TakesTurns
<1> SUFFICES TakesTurns'
  BY <1>5 DEF ConversationInv
<1>7. CASE /\ toHost' = Append(toHost, FinishedFrame)
           /\ device.phase = "printing" /\ device' = [device EXCEPT !.phase = "finished"]
  <2>1. device.phase \notin Resting /\ device.phase \notin GivenUp /\ device'.phase = "finished"
    BY <1>0, <1>7 DEF Resting, GivenUp, Device
  <2>2. ~Calm /\ Starts = {}
    BY <1>0, <2>1 DEF Calm, TurnInv, DeviceIsAtTheJob
  <2>3. ToSet(wire) \subseteq Asides
    <3>1. ASSUME NEW m \in ToSet(wire), m \notin StartMessage PROVE m \in Asides
      <4>1. m \in Placeable
        BY <1>0 DEF TakesTurns
      <4> QED
        BY <1>7, <3>1, <4>1, HostFrames DEF Placeable, GivenUp, StartMessage
    <3> QED
      BY <2>2, <3>1 DEF Starts
  <2>4. Coming \subseteq SmallTalk
    <3>1. Coming \subseteq Due
      BY <1>0 DEF TakesTurns
    <3> QED
      BY <1>7, <3>1 DEF Due, GivenUp
  <2>5. FinishedFrame \in Due'
    BY <2>1, DeviceFrames DEF Due
  <2> QED
    BY <1>1, <1>2, <1>3, <1>6, <1>7, <2>2, <2>3, <2>4, <2>5, AskingKeepsTurns DEF OneAnswer
<1>8. ASSUME NEW f \in DeviceFrame, toHost' = Append(toHost, f), f \notin Questions, f \in Due',
             device'.phase = device.phase \/ device'.phase \in GivenUp
      PROVE  TakesTurns'
  <2>1. Placeable \subseteq Placeable' /\ Due \subseteq Due'
    BY <1>0, <1>1, <1>4, <1>8, InPlaceStays
  <2>2. Coming' = Coming \cup {f}
    BY <1>0, <1>1, <1>8, SetOfAppend DEF Coming
  <2>3. Unasked' <=> Unasked
    BY <1>1, <1>8, <2>2 DEF Unasked
  <2>4. OneQuestion'
    <3>1. NoneAfter(toHost, Questions \cup {TearDown}, Questions)
      BY <1>0 DEF TakesTurns, OneQuestion
    <3>2. NoneAfter(toHost', Questions \cup {TearDown}, Questions)
      BY <1>0, <1>8, <3>1, OrderOfAppend
    <3> QED
      BY <1>1, <3>2 DEF OneQuestion
  <2>5. ToSet(wire') \subseteq Placeable' /\ Coming' \subseteq Due'
    BY <1>0, <1>1, <1>8, <2>1, <2>2 DEF TakesTurns
  <2> QED
    BY <1>0, <1>1, <1>2, <1>3, <1>6, <2>3, <2>4, <2>5 DEF TakesTurns
<1>9. CASE \/ toHost' = Append(toHost, MediaInfo) /\ UNCHANGED device
           \/ /\ toHost' = Append(toHost, Heartbeat)
              /\ device' = [device EXCEPT !.awaitsEcho = TRUE]
  <2>1. device'.phase = device.phase
    BY <1>0, <1>9 DEF Device
  <2>2. \A f \in SmallTalk : f \in DeviceFrame /\ f \in Due' /\ f \notin Questions
    BY SmallTalkAndQuestions DEF Due
  <2> QED
    BY <1>8, <1>9, <2>1, <2>2 DEF SmallTalk
<1>10. CASE /\ \/ toHost' = Append(toHost, FaultFrame)
               \/ MayTearDown /\ toHost' = Append(toHost, TearDown)
            /\ device' = [device EXCEPT !.phase = "gaveUp"]
  <2>1. device'.phase \in GivenUp
    BY <1>0, <1>10 DEF Device, GivenUp
  <2>2. FaultFrame \notin Questions /\ TearDown \notin Questions
    BY SmallTalkAndQuestions
  <2>3. FaultFrame \in DeviceFrame /\ (MayTearDown => TearDown \in DeviceFrame)
    BY DeviceFrames
  <2>4. FaultFrame \in Due' /\ (MayTearDown => TearDown \in Due')
    BY <2>1, <2>3 DEF Due
  <2> QED
    BY <1>8, <1>10, <2>1, <2>2, <2>3, <2>4
<1> QED
  BY <1>7, <1>9, <1>10 DEF Announces

(* The third layer is inductive when nobody queries the device.            *)
LEMMA StepKeepsConversation ==
  ASSUME ~ReuseAfterFailure, Queries = {}
  PROVE  ConversationInv /\ [SysNext]_sysVars => ConversationInv'
<1> SUFFICES ASSUME ConversationInv, [SysNext]_sysVars PROVE ConversationInv'
  OBVIOUS
<1>1. TurnInv /\ IInv
  BY DEF ConversationInv, TurnInv, TrafficInv
<1>2. TurnInv'
  BY <1>1, StepKeepsTurn
<1> QED
  BY <1>1, <1>2, KindsOfStep, RecedingKeepsConversation, MurmuringKeepsConversation,
     StartingKeepsConversation, DeliveringKeepsConversation, AnsweringKeepsConversation,
     ClosingKeepsConversation, TakingKeepsConversation, AnnouncingKeepsConversation

(* It holds before anything is connected.                                  *)
LEMMA InitialConversation == SysInit => ConversationInv
<1> SUFFICES ASSUME SysInit PROVE ConversationInv
  OBVIOUS
<1>1. TurnInv
  BY InitialTurn
<1>2. /\ device.phase = "quiet" /\ ~device.confused /\ device.job \notin Jobs
      /\ toHost = <<>> /\ todo = {} /\ wire = <<>>
  BY PrinterAssumption DEF SysInit, Init, QuietDevice, NoJob, Calls
<1>3. Coming = {} /\ ToSet(wire) = {}
  BY <1>2, SetOfEmpty DEF Coming
<1>4. OneQuestion /\ OneAnswer
  BY <1>2, OrderOfEmpty DEF OneQuestion, OneAnswer
<1>5. TakesTurns
  BY <1>2, <1>3, <1>4 DEF TakesTurns, Unasked
<1> QED
  BY <1>1, <1>2, <1>5 DEF ConversationInv, PrinterNeverConfused, ProgressCoversReceipt

(* Without device queries in between, host and device take turns: one      *)
(* question or answer is on its way at a time.                             *)
THEOREM ConversationInvariance ==
  ASSUME ~ReuseAfterFailure, Queries = {}
  PROVE  SysSpec => []ConversationInv
<1>1. ConversationInv /\ [SysNext]_sysVars => ConversationInv'
  BY StepKeepsConversation
<1> QED
  BY <1>1, InitialConversation, PTL DEF SysSpec

(* printRaw never sends what the device cannot place: no second session    *)
(* start, no slice at another offset, no END_JOB before FINISHED and no    *)
(* acknowledgement of something else, for a caller that leaves a spoiled   *)
(* connection and asks for no device information during a job              *)
(* (find_info_block shows what that does).                                 *)
THEOREM DeviceIsNeverConfused ==
  ASSUME ~ReuseAfterFailure, Queries = {}
  PROVE  SysSpec => []PrinterNeverConfused
<1>1. ConversationInv => PrinterNeverConfused
  BY DEF ConversationInv
<1>2. SysSpec => []ConversationInv
  BY ConversationInvariance
<1> QED
  BY <1>1, <1>2, PTL

(* onProgress never reports fewer bytes than the device holds, for every   *)
(* image, slice size and sequence of offsets the device pulls, under the   *)
(* same two conditions.                                                    *)
THEOREM ProgressIsNeverBehind ==
  ASSUME ~ReuseAfterFailure, Queries = {}
  PROVE  SysSpec => []ProgressCoversReceipt
<1>1. ConversationInv => ProgressCoversReceipt
  BY DEF ConversationInv
<1>2. SysSpec => []ConversationInv
  BY ConversationInvariance
<1> QED
  BY <1>1, <1>2, PTL

-----------------------------------------------------------------------------
(* What PrinterProofs derives of one Printer that may see any frame        *)
(* holds in the composed system: calls that run are registered, a closed   *)
(* channel runs none, a settled call is left alone.                        *)
THEOREM PrinterHoldsInSystem == SysSpec => []IInv
<1>1. TrafficInv => IInv
  BY DEF TrafficInv
<1> QED
  BY <1>1, TrafficInvariance, PTL

(* A step of the system is a step of JobOutcome, or changes nothing it     *)
(* knows of.                                                               *)
LEMMA SystemStepRefines ==
  TrafficInv /\ [SysNext]_sysVars => [JobOutcomes!Next]_JobOutcomes!vars
<1> SUFFICES ASSUME TrafficInv, [SysNext]_sysVars
             PROVE  [JobOutcomes!Next]_JobOutcomes!vars
  OBVIOUS
<1>1. CASE [Next]_vars
  BY <1>1, StepRefines DEF TrafficInv, JobOutcomes!vars, Acked
<1>2. CASE BeginDelivery(Head(toHost))
  BY <1>2 DEF BeginDelivery, JobOutcomes!vars, Acked
<1> QED
  BY <1>1, <1>2, SystemStepIsPrinterStep

(* The composed system keeps what JobOutcome promises the callers of       *)
(* printRaw: a call settles once, resolves only when its end was           *)
(* acknowledged, and a lost channel rejects all that run, with a device    *)
(* that cancels, faults and tears down at any moment.                      *)
THEOREM SystemImplementsJobOutcome == SysSpec => JobOutcomeSpec
<1>1. TrafficInv /\ [SysNext]_sysVars => [JobOutcomes!Next]_JobOutcomes!vars
  BY SystemStepRefines
<1>2. SysInit => JobOutcomes!Init
  BY InitRefines DEF SysInit
<1> QED
  BY <1>1, <1>2, TrafficInvariance, PTL DEF SysSpec, JobOutcomeSpec, JobOutcomes!Spec
=============================================================================
