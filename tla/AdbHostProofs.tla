--------------------------- MODULE AdbHostProofs ---------------------------
(***************************************************************************)
(* What AdbHost guarantees for any number of calls, streams and slices:    *)
(* types, one announcement per stream, writes without gap or overlap, and, *)
(* until the link drops or a write is reported as failed, two ends that    *)
(* agree on every stream and lose no acknowledgement.                      *)
(***************************************************************************)
EXTENDS AdbStreams, SequenceTheorems, TLAPS

(* A message of the host that opens or acknowledges names a stream of its. *)
HostMessage ==
  {m \in AdbMessage : m.command \in {"OPEN", "OKAY"} => m.arg0 \in LocalIds}

GoodPart == {p \in Part : p.msg \in HostMessage}

(* A message of the device that opens, acknowledges or writes names a      *)
(* stream of its, and its CNXN says the one payload size.                  *)
DeviceMessage ==
  {m \in AdbMessage : /\ m.command \in {"OPEN", "OKAY", "WRTE"} => m.arg0 \in RemoteIds
                      /\ m.command = "CNXN" => m.arg1 = DeviceMaxPayload}

(* A call sends a good message, and a range of bytes.                      *)
GoodCall == {c \in Call : c.msg \in HostMessage /\ c.from <= c.to}

(* What is on its way, about to be sent or half received is good.          *)
Traffic ==
  /\ wire \in Seq(GoodPart)
  /\ toHost \in Seq(DeviceMessage)
  /\ calls \in [Calls -> GoodCall]
  /\ remote.awaits \in GoodPart

(* A stream that is still to be announced was not, and will be once.       *)
ToAnnounce ==
  \A id \in LocalIds :
    /\ id \in accepting => announced[id] = 0 /\ id < nextLocalId
    /\ id \in accepting /\ id \in DOMAIN streams => streams[id].open
    /\ id \in DOMAIN streams => id < nextLocalId
    /\ id \in DOMAIN streams /\ ~streams[id].open => announced[id] = 0
    /\ id >= nextLocalId => announced[id] = 0

(* Nothing of the device precedes its CNXN, so nothing is announced and    *)
(* written before the payload size is the negotiated one.                  *)
CnxnFirst ==
  /\ ~remote.online => DOMAIN remote.streams = {}
  /\ ~connected =>
       \/ toHost = << >> /\ ~remote.online
       \/ toHost # << >> /\ Head(toHost).command = "CNXN"
  /\ ~connected => /\ \A id \in LocalIds : announced[id] = 0
                   /\ accepting = {}
                   /\ \A w \in Writes : calls[w].step = "idle"
  /\ connected => maxPayload = DeviceMaxPayload

(* A write that is under way stands at the end of the slices it sent.      *)
AtTheEnd ==
  \A w \in Writes :
    LET s == slices[w]
        c == calls[w]
    IN  /\ c.step = "idle" => s = << >>
        /\ c.step \in {"header", "body"} =>
             c.from < Length[w] /\ c.to = Smaller(c.from + DeviceMaxPayload, Length[w])
        /\ c.step = "header" => c.from = (IF s = << >> THEN 0 ELSE s[Len(s)][2])
        /\ c.step = "body" => s # << >> /\ s[Len(s)] = <<c.from, c.to>>

AdbInv ==
  /\ AdbTypeOK
  /\ Traffic
  /\ AnnouncedOnce
  /\ ToAnnounce
  /\ CnxnFirst
  /\ AtTheEnd
  /\ WritesCarryEveryByte

-----------------------------------------------------------------------------
(* A partial function is a function on some of the arguments.              *)
LEMMA PartialFunctionsDef ==
  ASSUME NEW S, NEW T, NEW f
  PROVE  f \in PartialFunctions(S, T) <=> DOMAIN f \subseteq S /\ f \in [DOMAIN f -> T]
  BY DEF PartialFunctions

(* The empty map is one of any kind.                                       *)
LEMMA NoneIsPartial ==
  ASSUME NEW S, NEW T
  PROVE  << >> \in PartialFunctions(S, T)
<1>1. << >> \in [{} -> T]
  <2>1. << >> \in Seq(T) /\ Len(<< >>) = 0
    OBVIOUS
  <2>2. << >> \in [1 .. Len(<< >>) -> T]
    BY <2>1, LenProperties
  <2>3. 1 .. Len(<< >>) = {}
    BY <2>1
  <2> QED
    BY <2>2, <2>3
<1> QED
  BY <1>1 DEF PartialFunctions

(* A map with one more stream is a map.                                    *)
LEMMA WithType ==
  ASSUME NEW S, NEW T, NEW f \in PartialFunctions(S, T), NEW x \in S, NEW v \in T
  PROVE  With(f, x, v) \in PartialFunctions(S, T)
<1>1. DOMAIN f \subseteq S /\ f \in [DOMAIN f -> T]
  BY PartialFunctionsDef
<1>2. With(f, x, v) \in [DOMAIN f \cup {x} -> T]
  BY <1>1 DEF With
<1> QED
  BY <1>1, <1>2 DEF PartialFunctions

(* A map that loses a stream is a map.                                     *)
LEMMA WithoutType ==
  ASSUME NEW S, NEW T, NEW f \in PartialFunctions(S, T), NEW x
  PROVE  Without(f, x) \in PartialFunctions(S, T)
<1>1. DOMAIN f \subseteq S /\ f \in [DOMAIN f -> T]
  BY PartialFunctionsDef
<1>2. Without(f, x) \in [DOMAIN f \ {x} -> T]
  BY <1>1 DEF Without
<1> QED
  BY <1>1, <1>2 DEF PartialFunctions

(* A map whose stream changed is a map.                                    *)
LEMMA UpdateType ==
  ASSUME NEW S, NEW T, NEW f \in PartialFunctions(S, T), NEW x \in DOMAIN f, NEW v \in T
  PROVE  [f EXCEPT ![x] = v] \in PartialFunctions(S, T)
<1>1. DOMAIN f \subseteq S /\ f \in [DOMAIN f -> T]
  BY PartialFunctionsDef
<1>2. [f EXCEPT ![x] = v] \in [DOMAIN f -> T]
  BY <1>1
<1> QED
  BY <1>1, <1>2 DEF PartialFunctions

(* A sequence of some kind is one of every wider kind.                     *)
LEMMA WiderSeq ==
  ASSUME NEW S, NEW T, S \subseteq T, NEW s \in Seq(S)
  PROVE  s \in Seq(T)
  BY SeqDef

(* A sequence that loses an element is one of the same kind of elements.   *)
LEMMA RemoveAtType ==
  ASSUME NEW S, NEW s \in Seq(S), NEW i \in DOMAIN s
  PROVE  RemoveAt(s, i) \in Seq(S)
<1>1. i \in 1 .. Len(s) /\ Len(s) \in Nat
  BY LenProperties
<1>2. SubSeq(s, 1, i - 1) \in Seq(S)
  <2>1. \A k \in 1 .. (i - 1) : s[k] \in S
    BY <1>1, ElementOfSeq
  <2> QED
    BY <1>1, <2>1, SubSeqProperties
<1>3. SubSeq(s, i + 1, Len(s)) \in Seq(S)
  <2>1. \A k \in (i + 1) .. Len(s) : s[k] \in S
    BY <1>1, ElementOfSeq
  <2> QED
    BY <1>1, <2>1, SubSeqProperties
<1> QED
  BY <1>2, <1>3, ConcatProperties DEF RemoveAt

(* Good traffic is well-typed.                                             *)
LEMMA TrafficTypes ==
  /\ \A s \in Seq(GoodPart) : s \in Seq(Part)
  /\ \A s \in Seq(DeviceMessage) : s \in Seq(AdbMessage)
  /\ \A f \in [Calls -> GoodCall] : f \in [Calls -> Call]
<1>1. GoodPart \subseteq Part /\ DeviceMessage \subseteq AdbMessage
  BY DEF GoodPart, DeviceMessage
<1>2. GoodCall \subseteq Call
  BY DEF GoodCall
<1> QED
  BY <1>1, <1>2, WiderSeq

(* The wire takes another good part.                                       *)
LEMMA LinkWriteKeeps ==
  ASSUME wire \in Seq(GoodPart), NEW part \in GoodPart, LinkWrite(part)
  PROVE  wire' \in Seq(GoodPart)
  BY DEF LinkWrite

(* A reply of the device is added behind what is on its way.               *)
LEMMA RepliesKeep ==
  ASSUME toHost \in Seq(DeviceMessage), NEW msg \in DeviceMessage, Replies(<<msg>>)
  PROVE  /\ toHost' \in Seq(DeviceMessage)
         /\ toHost' # << >>
         /\ toHost # << >> => Head(toHost') = Head(toHost)
         /\ toHost = << >> => Head(toHost') = msg
<1>1. <<msg>> \in Seq(DeviceMessage) /\ Len(<<msg>>) = 1
  OBVIOUS
<1>2. toHost' \in Seq(DeviceMessage) /\ Len(toHost') = Len(toHost) + 1
  BY <1>1, ConcatProperties DEF Replies
<1>3. toHost'[1] = IF Len(toHost) >= 1 THEN toHost[1] ELSE msg
  BY <1>1, <1>2, ConcatProperties, LenProperties DEF Replies
<1> QED
  BY <1>2, <1>3, LenProperties, EmptySeq, HeadTailProperties

(* The first step of a call that sends a message with a body.              *)
LEMMA SendHeaderEffect ==
  ASSUME AdbTypeOK, Traffic, NEW c \in Calls, NEW msg \in HostMessage,
         NEW from \in Nat, NEW to \in Nat, to >= from, SendHeader(c, msg, from, to)
  PROVE  /\ wire' \in Seq(GoodPart)
         /\ calls' \in [Calls -> GoodCall]
         /\ calls' = [calls EXCEPT ![c] = [step |-> "header", msg |-> msg,
                                           from |-> from, to |-> to]]
<1>1. to - from \in Nat /\ msg \in AdbMessage
  BY DEF HostMessage
<1>2. Header(c, msg, to - from) \in GoodPart
  BY <1>1 DEF Header, GoodPart, Part
<1>3. wire' \in Seq(GoodPart)
  BY <1>2, LinkWriteKeeps DEF SendHeader, Traffic
<1> QED
  BY <1>1, <1>3 DEF SendHeader, Traffic, AdbTypeOK, Call, GoodCall

(* Stream ids are positive numbers.                                        *)
LEMMA IdsAreNumbers ==
  /\ LocalIds \subseteq Nat \ {0} /\ RemoteIds \subseteq Nat \ {0} /\ NoId = 0
  /\ MaxStreams \in Nat /\ LegacyMaxPayload \in Nat \ {0} /\ DeviceMaxPayload \in Nat \ {0}
  BY AdbAssumption DEF LocalIds, RemoteIds, NoId

(* What a stream of the device and its peer are known by.                  *)
LEMMA PeersAreNumbers ==
  /\ \A s \in DeviceStream : s.peer \in Nat
  /\ \A id \in RemoteIds : id \in Nat
<1>1. \A n \in LocalIds \cup {NoId} : n \in Nat
  <2>1. NoId \in Nat
    BY IdsAreNumbers
  <2> QED
    BY <2>1, IdsAreNumbers
<1>2. \A s \in DeviceStream : s.peer \in LocalIds \cup {NoId}
  BY DEF DeviceStream
<1>3. \A id \in RemoteIds : id \in Nat
  BY IdsAreNumbers
<1> QED
  BY <1>1, <1>2, <1>3

(* A stream of the map has ids that are numbers.                           *)
LEMMA StreamTypes ==
  ASSUME AdbTypeOK, NEW id \in DOMAIN streams
  PROVE  /\ id \in LocalIds /\ id \in Nat
         /\ streams[id] \in [remoteId: RemoteIds \cup {NoId}, open: BOOLEAN]
         /\ streams[id].remoteId \in Nat
<1>1. DOMAIN streams \subseteq LocalIds /\
      streams \in [DOMAIN streams -> [remoteId: RemoteIds \cup {NoId}, open: BOOLEAN]]
  BY PartialFunctionsDef DEF AdbTypeOK
<1> QED
  BY <1>1, IdsAreNumbers

(* An idle call of open or connect, or of write, is of no other kind.      *)
LEMMA KindsOfCalls ==
  /\ Connector \in Calls /\ Connector \notin Writes
  /\ \A o \in Opens : o \in Calls /\ o \notin Writes
  /\ Writes \subseteq Calls
  BY AdbAssumption DEF Calls, Connector

(* A message without payload leaves the calls and the traffic good.        *)
LEMMA SendEmptyKeeps ==
  ASSUME Traffic, NEW msg \in HostMessage, SendEmpty(msg)
  PROVE  wire' \in Seq(GoodPart)
<1>1. Header(Nobody, msg, 0) \in GoodPart
  BY DEF Header, GoodPart, Part, HostMessage
<1> QED
  BY <1>1, LinkWriteKeeps DEF SendEmpty, Traffic

(* What the writes keep when no write's call and no slice changes.         *)
LEMMA OtherCallKeeps ==
  ASSUME AtTheEnd, WritesCarryEveryByte, UNCHANGED slices,
         \A w \in Writes : calls'[w] = calls[w]
  PROVE  AtTheEnd' /\ WritesCarryEveryByte'
  BY DEF AtTheEnd, WritesCarryEveryByte

(* The initial state is good.                                              *)
LEMMA InitInv ==
  ASSUME Init
  PROVE  AdbInv
<1> USE DEF Init
<1>1. NewCall \in GoodCall /\ NoHeader \in GoodPart
  BY DEF NewCall, Call, GoodCall, Msg, HostMessage, AdbMessage, Commands, NoHeader,
         Header, GoodPart, Part
<1>2. Traffic
  BY <1>1 DEF Traffic
<1>3. << >> \in PartialFunctions(LocalIds, [remoteId: RemoteIds \cup {NoId}, open: BOOLEAN])
      /\ << >> \in PartialFunctions(RemoteIds, DeviceStream)
  BY NoneIsPartial
<1>4. AdbTypeOK
  <2>1. NoHeader \in Part
    BY <1>1 DEF GoodPart
  <2>2. remote \in [online: BOOLEAN, nextId: 1 .. 2 * MaxStreams + 1, awaits: Part,
                    streams: PartialFunctions(RemoteIds, DeviceStream)]
    BY <1>3, <2>1, IdsAreNumbers
  <2>3. nextLocalId \in 1 .. 2 * MaxStreams + 1
    BY IdsAreNumbers
  <2>4. slices \in [Writes -> Seq(Nat \X Nat)]
    <3>1. << >> \in Seq(Nat \X Nat)
      OBVIOUS
    <3> QED
      BY <3>1
  <2>5. wire \in Seq(Part) /\ toHost \in Seq(AdbMessage) /\ calls \in [Calls -> Call]
    BY <1>2, TrafficTypes DEF Traffic
  <2>6. streams \in PartialFunctions(LocalIds, [remoteId: RemoteIds \cup {NoId},
                                                open: BOOLEAN])
    BY <1>3
  <2>7. announced \in [LocalIds -> Nat] /\ accepting \subseteq LocalIds
        /\ maxPayload \in {LegacyMaxPayload, DeviceMaxPayload}
        /\ {connected, reported, linkUp} \subseteq BOOLEAN
    OBVIOUS
  <2> QED
    BY <2>2, <2>3, <2>4, <2>5, <2>6, <2>7 DEF AdbTypeOK
<1>5. AnnouncedOnce
  BY DEF AnnouncedOnce
<1>6. ToAnnounce
  BY DEF ToAnnounce
<1>7. CnxnFirst
  BY KindsOfCalls DEF CnxnFirst, NewCall
<1>8. AtTheEnd
  BY KindsOfCalls DEF AtTheEnd, NewCall
<1>9. WritesCarryEveryByte
  BY KindsOfCalls DEF WritesCarryEveryByte, NewCall
<1> QED
  BY <1>2, <1>4, <1>5, <1>6, <1>7, <1>8, <1>9 DEF AdbInv

(* What a step that is only about the calls and the link has to show.      *)
LEMMA CallStepKeeps ==
  ASSUME AdbInv, UNCHANGED <<hostVars, linkUp, toHost, remote>>,
         wire' \in Seq(GoodPart), calls' \in [Calls -> GoodCall],
         slices' \in [Writes -> Seq(Nat \X Nat)], reported' \in BOOLEAN,
         ~connected => \A w \in Writes : calls'[w].step = "idle",
         AtTheEnd', WritesCarryEveryByte'
  PROVE  AdbInv'
<1>1. Traffic'
  BY DEF AdbInv, Traffic
<1>2. AdbTypeOK'
  <2>1. wire' \in Seq(Part) /\ calls' \in [Calls -> Call]
    BY TrafficTypes
  <2> QED
    BY <2>1 DEF AdbInv, AdbTypeOK, hostVars
<1>3. AnnouncedOnce'
  BY DEF AdbInv, AnnouncedOnce, hostVars
<1>4. ToAnnounce'
  BY DEF AdbInv, ToAnnounce, hostVars
<1>5. CnxnFirst'
  BY DEF AdbInv, CnxnFirst, hostVars
<1> QED
  BY <1>1, <1>2, <1>3, <1>4, <1>5 DEF AdbInv

(* The host's CNXN.                                                        *)
LEMMA ConnectKeeps ==
  ASSUME AdbInv, Connect
  PROVE  AdbInv'
<1> DEFINE msg == Msg("CNXN", ADB_VERSION, LegacyMaxPayload)
<1>1. msg \in HostMessage
  BY IdsAreNumbers DEF HostMessage, AdbMessage, Msg, Commands, ADB_VERSION
<1>2. SendHeader(Connector, msg, 0, 1) /\ Connector \in Calls
  BY KindsOfCalls DEF Connect
<1> HIDE DEF msg
<1>3. /\ wire' \in Seq(GoodPart) /\ calls' \in [Calls -> GoodCall]
      /\ calls' = [calls EXCEPT ![Connector] = [step |-> "header", msg |-> msg,
                                                from |-> 0, to |-> 1]]
  BY <1>1, <1>2, SendHeaderEffect DEF AdbInv
<1>4. \A w \in Writes : calls'[w] = calls[w]
  BY <1>3, KindsOfCalls DEF AdbInv, AdbTypeOK
<1>5. UNCHANGED <<hostVars, slices, reported, linkUp, toHost, remote>>
  BY DEF Connect
<1>6. AtTheEnd' /\ WritesCarryEveryByte'
  BY <1>4, <1>5, OtherCallKeeps DEF AdbInv
<1>7. ~connected => \A w \in Writes : calls'[w].step = "idle"
  BY <1>4 DEF AdbInv, CnxnFirst
<1>8. slices' \in [Writes -> Seq(Nat \X Nat)] /\ reported' \in BOOLEAN
  BY <1>5 DEF AdbInv, AdbTypeOK
<1> QED
  BY <1>3, <1>5, <1>6, <1>7, <1>8, CallStepKeeps

(* A call of open takes a fresh id, which was never announced.             *)
LEMMA OpenKeeps ==
  ASSUME AdbInv, NEW o \in Opens, Open(o)
  PROVE  AdbInv'
<1> DEFINE msg == Msg("OPEN", nextLocalId, NoId)
<1>1. msg \in HostMessage
  BY IdsAreNumbers DEF Open, HostMessage, AdbMessage, Msg, Commands
<1>2. SendHeader(o, msg, 0, 1) /\ o \in Calls
  BY KindsOfCalls DEF Open
<1> HIDE DEF msg
<1>3. /\ wire' \in Seq(GoodPart) /\ calls' \in [Calls -> GoodCall]
      /\ calls' = [calls EXCEPT ![o] = [step |-> "header", msg |-> msg,
                                        from |-> 0, to |-> 1]]
  BY <1>1, <1>2, SendHeaderEffect DEF AdbInv
<1>4. \A w \in Writes : calls'[w] = calls[w]
  BY <1>3, KindsOfCalls DEF AdbInv, AdbTypeOK
<1>5. UNCHANGED <<maxPayload, connected, accepting, announced, slices, reported,
                  linkUp, toHost, remote>>
  BY DEF Open
<1>6. nextLocalId \in LocalIds /\ nextLocalId' = nextLocalId + 1
      /\ streams' = With(streams, nextLocalId, [remoteId |-> NoId, open |-> FALSE])
  BY DEF Open
<1>7. AtTheEnd' /\ WritesCarryEveryByte'
  BY <1>4, <1>5, OtherCallKeeps DEF AdbInv
<1>8. Traffic'
  BY <1>3, <1>5 DEF AdbInv, Traffic
<1>9. AdbTypeOK'
  <2>1. streams' \in PartialFunctions(LocalIds, [remoteId: RemoteIds \cup {NoId},
                                                 open: BOOLEAN])
    BY <1>6, WithType DEF AdbInv, AdbTypeOK
  <2>2. nextLocalId' \in 1 .. 2 * MaxStreams + 1
    BY <1>6, IdsAreNumbers DEF LocalIds
  <2>3. wire' \in Seq(Part) /\ calls' \in [Calls -> Call]
    BY <1>3, TrafficTypes
  <2> QED
    BY <1>3, <1>5, <2>1, <2>2, <2>3 DEF AdbInv, AdbTypeOK
<1>10. AnnouncedOnce'
  BY <1>5 DEF AdbInv, AnnouncedOnce
<1>11. ToAnnounce'
  BY <1>5, <1>6, IdsAreNumbers DEF AdbInv, ToAnnounce, With
<1>12. CnxnFirst'
  BY <1>4, <1>5 DEF AdbInv, CnxnFirst
<1> QED
  BY <1>7, <1>8, <1>9, <1>10, <1>11, <1>12 DEF AdbInv

(* A call of write starts only on a stream that was announced, and so      *)
(* after the payload size was negotiated.                                  *)
LEMMA BeginWriteKeeps ==
  ASSUME AdbInv, NEW w \in Writes, NEW id \in LocalIds, BeginWrite(w, id)
  PROVE  AdbInv'
<1> DEFINE to == Smaller(DeviceMaxPayload, Length[w])
<1>1. UNCHANGED <<hostVars, slices, reported, linkUp, toHost, remote>>
      /\ calls[w].step = "idle" /\ w \in Calls
  BY KindsOfCalls DEF BeginWrite
<1>2. connected /\ maxPayload = DeviceMaxPayload
  BY IdsAreNumbers DEF BeginWrite, AdbInv, CnxnFirst
<1>3. slices[w] = << >>
  BY <1>1 DEF AdbInv, AtTheEnd
<1>4. slices' \in [Writes -> Seq(Nat \X Nat)] /\ reported' \in BOOLEAN
  BY <1>1 DEF AdbInv, AdbTypeOK
<1>5. to = Smaller(0 + DeviceMaxPayload, Length[w]) /\ to \in Nat /\ to > 0 /\ Length[w] > 0
  BY IdsAreNumbers, AdbAssumption DEF Smaller
<1>6. CASE id \in DOMAIN streams /\ streams[id].open
  <2> DEFINE msg == Msg("WRTE", id, streams[id].remoteId)
  <2>1. msg \in HostMessage
    <3>1. id \in Nat /\ streams[id].remoteId \in Nat
      BY <1>6, StreamTypes DEF AdbInv
    <3> QED
      BY <3>1 DEF HostMessage, AdbMessage, Msg, Commands
  <2>2. SendHeader(w, msg, 0, to)
    BY <1>2, <1>5, <1>6 DEF BeginWrite, SliceEnd
  <2> HIDE DEF msg, to
  <2>3. /\ wire' \in Seq(GoodPart) /\ calls' \in [Calls -> GoodCall]
        /\ calls' = [calls EXCEPT ![w] = [step |-> "header", msg |-> msg,
                                          from |-> 0, to |-> to]]
    BY <1>1, <1>5, <2>1, <2>2, SendHeaderEffect DEF AdbInv
  <2>4. /\ calls'[w] = [step |-> "header", msg |-> msg, from |-> 0, to |-> to]
        /\ \A v \in Writes \ {w} : calls'[v] = calls[v]
    BY <1>1, <2>3, KindsOfCalls DEF AdbInv, AdbTypeOK
  <2>5. AtTheEnd'
    BY <1>1, <1>3, <1>5, <2>4 DEF AdbInv, AtTheEnd
  <2>6. WritesCarryEveryByte'
    BY <1>1, <2>4 DEF AdbInv, WritesCarryEveryByte
  <2> QED
    BY <1>1, <1>2, <1>4, <2>3, <2>5, <2>6, CallStepKeeps
<1>7. CASE ~(id \in DOMAIN streams /\ streams[id].open)
  <2>1. calls' = [calls EXCEPT ![w].step = "failed"] /\ UNCHANGED wire
    BY <1>7 DEF BeginWrite
  <2>2. /\ calls' \in [Calls -> GoodCall]
        /\ wire' \in Seq(GoodPart)
    BY <1>1, <2>1 DEF AdbInv, Call, GoodCall, Traffic
  <2>3. calls'[w].step = "failed" /\ \A v \in Writes \ {w} : calls'[v] = calls[v]
    BY <1>1, <2>1, KindsOfCalls DEF AdbInv, AdbTypeOK, Call
  <2>4. AtTheEnd' /\ WritesCarryEveryByte'
    BY <1>1, <2>3 DEF AdbInv, AtTheEnd, WritesCarryEveryByte
  <2> QED
    BY <1>1, <1>2, <1>4, <2>2, <2>4, CallStepKeeps
<1> QED
  BY <1>6, <1>7

(* The body's write adds a slice that starts where the last one ended.     *)
LEMMA SendBodyKeeps ==
  ASSUME AdbInv, NEW c \in Calls, SendBody(c)
  PROVE  AdbInv'
<1>1. UNCHANGED <<hostVars, reported, linkUp, toHost, remote>>
      /\ calls[c].step = "header" /\ calls' = [calls EXCEPT ![c].step = "body"]
  BY DEF SendBody
<1>2. calls[c] \in GoodCall /\ calls \in [Calls -> GoodCall]
  BY DEF AdbInv, Traffic
<1>3. /\ calls' \in [Calls -> GoodCall]
      /\ \A d \in Calls \ {c} : calls'[d] = calls[d]
      /\ calls'[c].step = "body" /\ calls'[c].from = calls[c].from
      /\ calls'[c].to = calls[c].to
  BY <1>1, <1>2 DEF Call, GoodCall
<1>4. reported' \in BOOLEAN
  BY <1>1 DEF AdbInv, AdbTypeOK
<1>5. ~connected => \A w \in Writes : calls'[w].step = "idle"
  BY <1>1, <1>3, KindsOfCalls DEF AdbInv, CnxnFirst
<1>6. wire' \in Seq(GoodPart)
  <2> DEFINE part == Body(c, calls[c].msg, calls[c].to - calls[c].from)
  <2>1. calls[c].to - calls[c].from \in Nat /\ calls[c].msg \in HostMessage
    BY <1>2 DEF GoodCall, Call
  <2>2. part \in GoodPart
    BY <2>1 DEF Body, GoodPart, Part, HostMessage
  <2>3. LinkWrite(part)
    BY DEF SendBody
  <2> QED
    BY <2>2, <2>3, LinkWriteKeeps DEF AdbInv, Traffic
<1>7. CASE c \notin Writes
  <2>1. UNCHANGED slices /\ \A w \in Writes : calls'[w] = calls[w]
    BY <1>3, <1>7, KindsOfCalls DEF SendBody
  <2>2. AtTheEnd' /\ WritesCarryEveryByte'
    BY <2>1, OtherCallKeeps DEF AdbInv
  <2>3. slices' \in [Writes -> Seq(Nat \X Nat)]
    BY <2>1 DEF AdbInv, AdbTypeOK
  <2> QED
    BY <1>1, <1>3, <1>4, <1>5, <1>6, <2>2, <2>3, CallStepKeeps
<1>8. CASE c \in Writes
  <2> DEFINE slice == <<calls[c].from, calls[c].to>>
  <2>1. slices' = [slices EXCEPT ![c] = Append(@, slice)]
    BY <1>8 DEF SendBody
  <2>2. slice \in Nat \X Nat /\ slice[1] = calls[c].from /\ slice[2] = calls[c].to
    BY <1>2 DEF GoodCall, Call
  <2>3. slices \in [Writes -> Seq(Nat \X Nat)]
    BY DEF AdbInv, AdbTypeOK
  <2> HIDE DEF slice
  <2>4. slices' \in [Writes -> Seq(Nat \X Nat)]
    <3>1. Append(slices[c], slice) \in Seq(Nat \X Nat)
      BY <1>8, <2>2, <2>3, AppendProperties
    <3> QED
      BY <2>1, <2>3, <3>1
  <2>5. /\ \A w \in Writes \ {c} : calls'[w] = calls[w] /\ slices'[w] = slices[w]
        /\ slices[c] \in Seq(Nat \X Nat) /\ slices'[c] = Append(slices[c], slice)
    BY <1>3, <1>8, <2>1, <2>3, KindsOfCalls
  <2>6. /\ calls[c].from < Length[c]
        /\ calls[c].to = Smaller(calls[c].from + DeviceMaxPayload, Length[c])
        /\ calls[c].from = IF slices[c] = << >> THEN 0 ELSE slices[c][Len(slices[c])][2]
    BY <1>1, <1>8 DEF AdbInv, AtTheEnd
  <2>7. calls[c].from < calls[c].to /\ calls[c].to - calls[c].from <= DeviceMaxPayload
    BY <1>2, <1>8, <2>6, IdsAreNumbers, AdbAssumption DEF Smaller, GoodCall, Call
  <2>8. /\ Len(slices'[c]) = Len(slices[c]) + 1 /\ Len(slices[c]) \in Nat
        /\ slices'[c] # << >> /\ slices'[c][Len(slices[c]) + 1] = slice
        /\ \A i \in 1 .. Len(slices[c]) : slices'[c][i] = slices[c][i]
        /\ DOMAIN slices'[c] = 1 .. Len(slices[c]) + 1
        /\ DOMAIN slices[c] = 1 .. Len(slices[c])
    <3>1. Len(Append(slices[c], slice)) = Len(slices[c]) + 1 /\ Len(slices[c]) \in Nat
      BY <2>2, <2>5, AppendProperties, LenProperties
    <3> QED
      BY <2>2, <2>4, <2>5, <3>1, AppendProperties, LenProperties, EmptySeq
  <2>9. AtTheEnd'
    <3>1. slice = <<calls[c].from, calls[c].to>>
      BY DEF slice
    <3>2. SUFFICES ASSUME NEW w \in Writes
                   PROVE  /\ calls'[w].step = "idle" => slices'[w] = << >>
                          /\ calls'[w].step \in {"header", "body"} =>
                               /\ calls'[w].from < Length[w]
                               /\ calls'[w].to = Smaller(calls'[w].from + DeviceMaxPayload,
                                                         Length[w])
                          /\ calls'[w].step = "header" => calls'[w].from =
                               (IF slices'[w] = << >> THEN 0
                                ELSE slices'[w][Len(slices'[w])][2])
                          /\ calls'[w].step = "body" =>
                               /\ slices'[w] # << >>
                               /\ slices'[w][Len(slices'[w])] = <<calls'[w].from, calls'[w].to>>
      BY DEF AtTheEnd
    <3>3. CASE w = c
      BY <1>3, <2>6, <2>8, <3>1, <3>3
    <3>4. CASE w # c
      BY <2>5, <3>4 DEF AdbInv, AtTheEnd
    <3> QED
      BY <3>3, <3>4
  <2>10. WritesCarryEveryByte'
    <3>1. SUFFICES ASSUME NEW w \in Writes
                   PROVE  /\ \A i \in DOMAIN slices'[w] :
                               /\ slices'[w][i][1] = IF i = 1 THEN 0 ELSE slices'[w][i - 1][2]
                               /\ slices'[w][i][1] < slices'[w][i][2]
                               /\ slices'[w][i][2] - slices'[w][i][1] <= DeviceMaxPayload
                          /\ calls'[w].step = "done" =>
                               slices'[w] # << >> /\ Last(slices'[w])[2] = Length[w]
      BY DEF WritesCarryEveryByte
    <3>2. CASE w # c
      BY <2>5, <3>2 DEF AdbInv, WritesCarryEveryByte
    <3>3. CASE w = c
      <4>1. \A i \in 1 .. Len(slices[c]) :
              /\ slices[c][i][1] = IF i = 1 THEN 0 ELSE slices[c][i - 1][2]
              /\ slices[c][i][1] < slices[c][i][2]
              /\ slices[c][i][2] - slices[c][i][1] <= DeviceMaxPayload
        BY <1>8, <2>8 DEF AdbInv, WritesCarryEveryByte
      <4>2. slices[c] = << >> <=> Len(slices[c]) = 0
        BY <2>5, EmptySeq
      <4>3. /\ slice[1] = IF Len(slices[c]) + 1 = 1 THEN 0 ELSE slices[c][Len(slices[c])][2]
            /\ slice[1] < slice[2] /\ slice[2] - slice[1] <= DeviceMaxPayload
        BY <2>2, <2>6, <2>7, <2>8, <4>2
      <4>4. ASSUME NEW i \in 1 .. Len(slices[c]) + 1
            PROVE  /\ slices'[c][i][1] = IF i = 1 THEN 0 ELSE slices'[c][i - 1][2]
                   /\ slices'[c][i][1] < slices'[c][i][2]
                   /\ slices'[c][i][2] - slices'[c][i][1] <= DeviceMaxPayload
        <5>1. CASE i = Len(slices[c]) + 1
          <6>1. i # 1 => i - 1 \in 1 .. Len(slices[c]) /\ i - 1 = Len(slices[c])
            BY <2>8, <5>1
          <6> QED
            BY <2>8, <4>3, <5>1, <6>1
        <5>2. CASE i # Len(slices[c]) + 1
          <6>1. i \in 1 .. Len(slices[c]) /\ (i # 1 => i - 1 \in 1 .. Len(slices[c]))
            BY <2>8, <5>2
          <6> QED
            BY <2>8, <4>1, <6>1
        <5> QED
          BY <5>1, <5>2
      <4> QED
        BY <1>3, <2>8, <3>3, <4>4
    <3> QED
      BY <3>2, <3>3
  <2> QED
    BY <1>1, <1>3, <1>4, <1>5, <1>6, <2>4, <2>9, <2>10, CallStepKeeps
<1> QED
  BY <1>7, <1>8

(* The next slice starts where the last one ended; without a next one the  *)
(* write has sent its last byte.                                           *)
LEMMA BodyWrittenKeeps ==
  ASSUME AdbInv, NEW c \in Calls, BodyWritten(c)
  PROVE  AdbInv'
<1>1. UNCHANGED <<hostVars, slices, reported, linkUp, toHost, remote>>
      /\ calls[c].step = "body"
  BY DEF BodyWritten
<1>2. calls[c] \in GoodCall /\ calls \in [Calls -> GoodCall]
  BY DEF AdbInv, Traffic
<1>3. slices' \in [Writes -> Seq(Nat \X Nat)] /\ reported' \in BOOLEAN
  BY <1>1 DEF AdbInv, AdbTypeOK
<1>4. c \in Writes => connected /\ maxPayload = DeviceMaxPayload
  BY <1>1 DEF AdbInv, CnxnFirst
<1>5. c \in Writes =>
        /\ calls[c].from < Length[c]
        /\ calls[c].to = Smaller(calls[c].from + DeviceMaxPayload, Length[c])
        /\ slices[c] # << >>
        /\ slices[c][Len(slices[c])] = <<calls[c].from, calls[c].to>>
  BY <1>1 DEF AdbInv, AtTheEnd
<1>6. calls[c].from \in Nat /\ calls[c].to \in Nat /\ (c \in Writes => Length[c] \in Nat)
      /\ calls[c].msg \in HostMessage
  BY <1>2, AdbAssumption DEF GoodCall, Call
<1>7. CASE c \in Writes /\ NextSlice(c) < Length[c]
  <2> DEFINE from == calls[c].from + DeviceMaxPayload
             to == Smaller(from + DeviceMaxPayload, Length[c])
  <2>1. /\ from \in Nat /\ to \in Nat /\ to >= from /\ from < Length[c]
        /\ calls[c].to = from
    BY <1>4, <1>5, <1>6, <1>7, IdsAreNumbers DEF Smaller, NextSlice
  <2>2. SendHeader(c, calls[c].msg, from, to)
    BY <1>4, <1>7 DEF BodyWritten, NextSlice, SliceEnd
  <2>3. to = Smaller(from + DeviceMaxPayload, Length[c])
    OBVIOUS
  <2> HIDE DEF from, to
  <2>4. /\ wire' \in Seq(GoodPart) /\ calls' \in [Calls -> GoodCall]
        /\ calls' = [calls EXCEPT ![c] = [step |-> "header", msg |-> calls[c].msg,
                                          from |-> from, to |-> to]]
    BY <1>6, <2>1, <2>2, SendHeaderEffect DEF AdbInv
  <2>5. /\ calls'[c] = [step |-> "header", msg |-> calls[c].msg, from |-> from, to |-> to]
        /\ \A w \in Writes \ {c} : calls'[w] = calls[w]
    BY <1>2, <2>4, KindsOfCalls
  <2>6. slices[c][Len(slices[c])][2] = from
    BY <1>5, <1>7, <2>1
  <2>7. AtTheEnd'
    BY <1>1, <1>5, <1>7, <2>1, <2>3, <2>5, <2>6 DEF AdbInv, AtTheEnd
  <2>8. WritesCarryEveryByte'
    BY <1>1, <2>5 DEF AdbInv, WritesCarryEveryByte
  <2> QED
    BY <1>1, <1>3, <1>4, <1>7, <2>4, <2>7, <2>8, CallStepKeeps
<1>8. CASE ~(c \in Writes /\ NextSlice(c) < Length[c])
  <2>1. calls' = [calls EXCEPT ![c].step = "done"] /\ UNCHANGED wire
    BY <1>8 DEF BodyWritten
  <2>2. /\ calls' \in [Calls -> GoodCall] /\ calls'[c].step = "done"
        /\ \A w \in Writes \ {c} : calls'[w] = calls[w]
    BY <1>2, <2>1, KindsOfCalls DEF GoodCall, Call
  <2>3. wire' \in Seq(GoodPart)
    BY <2>1 DEF AdbInv, Traffic
  <2>4. c \in Writes => slices[c] # << >> /\ Last(slices[c])[2] = Length[c]
    BY <1>4, <1>5, <1>6, <1>8, IdsAreNumbers DEF Smaller, NextSlice, Last
  <2>5. AtTheEnd'
    BY <1>1, <2>2 DEF AdbInv, AtTheEnd
  <2>6. WritesCarryEveryByte'
    BY <1>1, <2>2, <2>4 DEF AdbInv, WritesCarryEveryByte
  <2>7. ~connected => \A w \in Writes : calls'[w].step = "idle"
    BY <1>4, <2>2 DEF AdbInv, CnxnFirst
  <2> QED
    BY <1>1, <1>3, <2>2, <2>3, <2>5, <2>6, <2>7, CallStepKeeps
<1> QED
  BY <1>7, <1>8

(* A failed write settles its call, whether or not the part got through.   *)
LEMMA CallFailsKeeps ==
  ASSUME AdbInv, NEW c \in Calls, CallFails(c)
  PROVE  AdbInv'
<1>1. /\ UNCHANGED <<hostVars, slices, linkUp, toHost, remote>>
      /\ calls[c].step \in {"header", "body"} /\ reported' = TRUE
      /\ calls' = [calls EXCEPT ![c].step = "failed"]
  BY DEF CallFails
<1>2. calls[c] \in GoodCall /\ calls \in [Calls -> GoodCall]
  BY DEF AdbInv, Traffic
<1>3. /\ calls' \in [Calls -> GoodCall] /\ calls'[c].step = "failed"
      /\ \A w \in Writes \ {c} : calls'[w] = calls[w]
  BY <1>1, <1>2, KindsOfCalls DEF GoodCall, Call
<1>4. wire' \in Seq(GoodPart)
  <2>1. wire' = wire \/ \E i \in DOMAIN wire : wire' = RemoveAt(wire, i)
    BY DEF CallFails
  <2> QED
    BY <2>1, RemoveAtType DEF AdbInv, Traffic
<1>5. AtTheEnd' /\ WritesCarryEveryByte'
  BY <1>1, <1>3 DEF AdbInv, AtTheEnd, WritesCarryEveryByte
<1>6. ~connected => \A w \in Writes : calls'[w].step = "idle"
  BY <1>1, <1>3 DEF AdbInv, CnxnFirst
<1>7. slices' \in [Writes -> Seq(Nat \X Nat)] /\ reported' \in BOOLEAN
  BY <1>1 DEF AdbInv, AdbTypeOK
<1> QED
  BY <1>1, <1>3, <1>4, <1>5, <1>6, <1>7, CallStepKeeps

-----------------------------------------------------------------------------
(* What a step of the host that leaves the calls alone has to show.        *)
LEMMA StreamStepKeeps ==
  ASSUME AdbInv, UNCHANGED <<calls, slices, linkUp, remote>>,
         streams' \in PartialFunctions(LocalIds, [remoteId: RemoteIds \cup {NoId},
                                                  open: BOOLEAN]),
         nextLocalId' \in 1 .. 2 * MaxStreams + 1,
         maxPayload' \in {LegacyMaxPayload, DeviceMaxPayload},
         connected' \in BOOLEAN, reported' \in BOOLEAN,
         accepting' \subseteq LocalIds, announced' \in [LocalIds -> Nat],
         wire' \in Seq(GoodPart), toHost' \in Seq(DeviceMessage),
         AnnouncedOnce', ToAnnounce', CnxnFirst'
  PROVE  AdbInv'
<1>1. Traffic'
  BY DEF AdbInv, Traffic
<1>2. AdbTypeOK'
  <2>1. wire' \in Seq(Part) /\ toHost' \in Seq(AdbMessage)
    BY TrafficTypes
  <2> QED
    BY <2>1 DEF AdbInv, AdbTypeOK
<1>3. AtTheEnd' /\ WritesCarryEveryByte'
  BY DEF AdbInv, AtTheEnd, WritesCarryEveryByte
<1> QED
  BY <1>1, <1>2, <1>3 DEF AdbInv

(* A failed OKAY may leave its stream without an announcement.             *)
LEMMA EmptyFailsKeeps ==
  ASSUME AdbInv, EmptyFails
  PROVE  AdbInv'
<1>1. UNCHANGED <<streams, nextLocalId, maxPayload, connected, announced, calls,
                  slices, linkUp, toHost, remote>> /\ reported' = TRUE
  BY DEF EmptyFails
<1>2. accepting' \subseteq accepting
  BY DEF EmptyFails
<1>3. wire' \in Seq(GoodPart)
  <2>1. wire' = wire \/ \E i \in DOMAIN wire : wire' = RemoveAt(wire, i)
    BY DEF EmptyFails
  <2> QED
    BY <2>1, RemoveAtType DEF AdbInv, Traffic
<1>4. AnnouncedOnce'
  BY <1>1 DEF AdbInv, AnnouncedOnce
<1>5. ToAnnounce'
  BY <1>1, <1>2 DEF AdbInv, ToAnnounce
<1>6. CnxnFirst'
  BY <1>1, <1>2 DEF AdbInv, CnxnFirst
<1> QED
  BY <1>1, <1>2, <1>3, <1>4, <1>5, <1>6, StreamStepKeeps DEF AdbInv, AdbTypeOK, Traffic

(* closeStream forgets the stream.                                         *)
LEMMA CloseStreamKeeps ==
  ASSUME AdbInv, NEW id \in LocalIds, CloseStream(id)
  PROVE  AdbInv'
<1>1. UNCHANGED <<nextLocalId, maxPayload, connected, accepting, announced, calls,
                  slices, reported, linkUp, toHost, remote>>
      /\ id \in DOMAIN streams /\ streams' = Without(streams, id)
  BY DEF CloseStream
<1>2. wire' \in Seq(GoodPart)
  <2> DEFINE msg == Msg("CLSE", id, streams[id].remoteId)
  <2>1. msg \in HostMessage
    <3>1. id \in Nat /\ streams[id].remoteId \in Nat
      BY <1>1, StreamTypes DEF AdbInv
    <3> QED
      BY <3>1 DEF HostMessage, AdbMessage, Msg, Commands
  <2>2. SendEmpty(msg)
    BY DEF CloseStream
  <2> QED
    BY <2>1, <2>2, SendEmptyKeeps DEF AdbInv
<1>3. streams' \in PartialFunctions(LocalIds, [remoteId: RemoteIds \cup {NoId},
                                               open: BOOLEAN])
  BY <1>1, WithoutType DEF AdbInv, AdbTypeOK
<1>4. AnnouncedOnce'
  BY <1>1 DEF AdbInv, AnnouncedOnce
<1>5. ToAnnounce'
  BY <1>1 DEF AdbInv, ToAnnounce, Without
<1>6. CnxnFirst'
  BY <1>1 DEF AdbInv, CnxnFirst
<1> QED
  BY <1>1, <1>2, <1>3, <1>4, <1>5, <1>6, StreamStepKeeps DEF AdbInv, AdbTypeOK, Traffic

(* The stream event of a stream the device opened.                         *)
LEMMA AcceptedKeeps ==
  ASSUME AdbInv, NEW id \in LocalIds, Accepted(id)
  PROVE  AdbInv'
<1>1. UNCHANGED <<streams, nextLocalId, maxPayload, connected, calls, slices, reported,
                  wire, linkUp, toHost, remote>>
      /\ id \in accepting /\ accepting' = accepting \ {id}
      /\ announced' = [announced EXCEPT ![id] = @ + 1]
  BY DEF Accepted
<1>2. announced \in [LocalIds -> Nat] /\ announced[id] = 0 /\ connected
  BY <1>1 DEF AdbInv, AdbTypeOK, ToAnnounce, CnxnFirst
<1>3. announced' \in [LocalIds -> Nat] /\ announced'[id] = 1
      /\ \A d \in LocalIds \ {id} : announced'[d] = announced[d]
  BY <1>1, <1>2
<1>4. AnnouncedOnce'
  BY <1>3 DEF AdbInv, AnnouncedOnce
<1>5. ToAnnounce'
  <2>1. id < nextLocalId /\ nextLocalId \in Nat /\ id \in Nat
    BY <1>1, IdsAreNumbers DEF AdbInv, ToAnnounce, AdbTypeOK
  <2> QED
    BY <1>1, <1>3, <2>1 DEF AdbInv, ToAnnounce
<1>6. CnxnFirst'
  BY <1>1, <1>2 DEF AdbInv, CnxnFirst
<1> QED
  BY <1>1, <1>3, <1>4, <1>5, <1>6, StreamStepKeeps DEF AdbInv, AdbTypeOK, Traffic

(* The oldest message of the device, and what is left of the others.       *)
LEMMA ReceivedIsGood ==
  ASSUME Traffic, NEW command, Received(command)
  PROVE  /\ Head(toHost) \in DeviceMessage /\ Head(toHost).command = command
         /\ toHost' \in Seq(DeviceMessage)
  BY HeadTailProperties DEF Received, Traffic

(* Only a CNXN is received before the connection stands.                   *)
LEMMA ReceivedConnected ==
  ASSUME CnxnFirst, NEW command, command # "CNXN", Received(command)
  PROVE  connected
  BY DEF CnxnFirst, Received

(* The CNXN of the device settles the payload size.                        *)
LEMMA OnCnxnKeeps ==
  ASSUME AdbInv, OnCnxn
  PROVE  AdbInv'
<1>1. UNCHANGED <<streams, nextLocalId, accepting, announced, calls, slices, reported,
                  wire, linkUp, remote>>
      /\ connected' = TRUE /\ maxPayload' = Advertised(Head(toHost))
  BY DEF OnCnxn
<1>2. Head(toHost) \in DeviceMessage /\ Head(toHost).command = "CNXN"
      /\ toHost' \in Seq(DeviceMessage)
  BY ReceivedIsGood DEF OnCnxn, AdbInv
<1>3. maxPayload' = DeviceMaxPayload
  BY <1>1, <1>2, IdsAreNumbers DEF Advertised, DeviceMessage
<1>4. AnnouncedOnce'
  BY <1>1 DEF AdbInv, AnnouncedOnce
<1>5. ToAnnounce'
  BY <1>1 DEF AdbInv, ToAnnounce
<1>6. CnxnFirst'
  BY <1>1, <1>3 DEF AdbInv, CnxnFirst
<1> QED
  BY <1>1, <1>2, <1>3, <1>4, <1>5, <1>6, StreamStepKeeps DEF AdbInv, AdbTypeOK, Traffic

(* An AUTH changes nothing.                                                *)
LEMMA OnAuthKeeps ==
  ASSUME AdbInv, OnAuth
  PROVE  AdbInv'
<1>1. UNCHANGED <<hostVars, calls, slices, reported, wire, linkUp, remote>>
  BY DEF OnAuth
<1>2. toHost' \in Seq(DeviceMessage) /\ connected
  BY ReceivedIsGood, ReceivedConnected DEF OnAuth, AdbInv
<1>3. AnnouncedOnce' /\ ToAnnounce'
  BY <1>1 DEF AdbInv, AnnouncedOnce, ToAnnounce, hostVars
<1>4. CnxnFirst'
  BY <1>1, <1>2 DEF AdbInv, CnxnFirst, hostVars
<1> QED
  BY <1>1, <1>2, <1>3, <1>4, StreamStepKeeps DEF AdbInv, AdbTypeOK, Traffic, hostVars

(* A stream the device opens gets a fresh id and waits for its event.      *)
LEMMA OnOpenKeeps ==
  ASSUME AdbInv, OnOpen
  PROVE  AdbInv'
<1> DEFINE id == nextLocalId
           peer == Head(toHost).arg0
<1>1. UNCHANGED <<maxPayload, connected, announced, calls, slices, reported, linkUp, remote>>
      /\ id \in LocalIds /\ nextLocalId' = id + 1
      /\ streams' = With(streams, id, [remoteId |-> peer, open |-> TRUE])
      /\ accepting' = accepting \cup {id} /\ SendEmpty(Msg("OKAY", id, peer))
  BY DEF OnOpen
<1>2. toHost' \in Seq(DeviceMessage) /\ connected /\ peer \in RemoteIds
  BY ReceivedIsGood, ReceivedConnected DEF OnOpen, AdbInv, DeviceMessage
<1>3. wire' \in Seq(GoodPart)
  <2>1. Msg("OKAY", id, peer) \in HostMessage
    BY <1>1, <1>2, IdsAreNumbers DEF HostMessage, AdbMessage, Msg, Commands
  <2> QED
    BY <1>1, <2>1, SendEmptyKeeps DEF AdbInv
<1>4. streams' \in PartialFunctions(LocalIds, [remoteId: RemoteIds \cup {NoId},
                                               open: BOOLEAN])
  BY <1>1, <1>2, WithType DEF AdbInv, AdbTypeOK
<1>5. nextLocalId' \in 1 .. 2 * MaxStreams + 1 /\ id \in Nat
  BY <1>1, IdsAreNumbers DEF LocalIds
<1>6. AnnouncedOnce'
  BY <1>1 DEF AdbInv, AnnouncedOnce
<1>7. ToAnnounce'
  BY <1>1, <1>5, IdsAreNumbers DEF AdbInv, ToAnnounce, With
<1>8. CnxnFirst'
  BY <1>1, <1>2 DEF AdbInv, CnxnFirst
<1> QED
  BY <1>1, <1>2, <1>3, <1>4, <1>5, <1>6, <1>7, <1>8, StreamStepKeeps
  DEF AdbInv, AdbTypeOK, Traffic

(* An OKAY announces its stream only when the stream was not open.         *)
LEMMA OnOkayKeeps ==
  ASSUME AdbInv, OnOkay
  PROVE  AdbInv'
<1> DEFINE id == Head(toHost).arg1
<1>1. UNCHANGED <<nextLocalId, maxPayload, connected, accepting, calls, slices, reported,
                  wire, linkUp, remote>>
  BY DEF OnOkay
<1>2. toHost' \in Seq(DeviceMessage) /\ connected /\ Head(toHost).arg0 \in RemoteIds
  BY ReceivedIsGood, ReceivedConnected DEF OnOkay, AdbInv, DeviceMessage
<1>3. CnxnFirst'
  BY <1>1, <1>2 DEF AdbInv, CnxnFirst
<1>4. CASE OpensStream(id)
  <2> DEFINE stream == [remoteId |-> Head(toHost).arg0, open |-> TRUE]
  <2>1. /\ streams' = [streams EXCEPT ![id] = stream]
        /\ announced' = [announced EXCEPT ![id] = @ + 1]
    BY <1>4 DEF OnOkay
  <2>2. id \in DOMAIN streams /\ ~streams[id].open /\ id \in LocalIds
    BY <1>4, StreamTypes DEF OpensStream, AdbInv
  <2>3. announced \in [LocalIds -> Nat] /\ announced[id] = 0 /\ id \notin accepting
    BY <2>2 DEF AdbInv, AdbTypeOK, ToAnnounce
  <2>4. announced' \in [LocalIds -> Nat] /\ announced'[id] = 1
        /\ \A d \in LocalIds \ {id} : announced'[d] = announced[d]
    BY <2>1, <2>2, <2>3
  <2>5. stream \in [remoteId: RemoteIds \cup {NoId}, open: BOOLEAN] /\ stream.open
    BY <1>2
  <2> HIDE DEF id, stream
  <2>6. streams' \in PartialFunctions(LocalIds, [remoteId: RemoteIds \cup {NoId},
                                                 open: BOOLEAN])
    BY <2>1, <2>2, <2>5, UpdateType DEF AdbInv, AdbTypeOK
  <2>7. DOMAIN streams' = DOMAIN streams /\ streams'[id] = stream
        /\ \A d \in DOMAIN streams \ {id} : streams'[d] = streams[d]
    <3>1. streams \in [DOMAIN streams -> [remoteId: RemoteIds \cup {NoId}, open: BOOLEAN]]
      BY PartialFunctionsDef DEF AdbInv, AdbTypeOK
    <3> QED
      BY <2>1, <2>2, <3>1
  <2>8. AnnouncedOnce'
    BY <2>4 DEF AdbInv, AnnouncedOnce
  <2>9. ToAnnounce'
    <3>1. id < nextLocalId /\ nextLocalId \in Nat /\ id \in Nat
      BY <2>2, IdsAreNumbers DEF AdbInv, ToAnnounce, AdbTypeOK
    <3> QED
      BY <1>1, <2>2, <2>3, <2>4, <2>5, <2>7, <3>1 DEF AdbInv, ToAnnounce
  <2> QED
    BY <1>1, <1>2, <1>3, <2>4, <2>6, <2>8, <2>9, StreamStepKeeps
    DEF AdbInv, AdbTypeOK, Traffic
<1>5. CASE ~OpensStream(id)
  <2>1. UNCHANGED <<streams, announced>>
    BY <1>5 DEF OnOkay
  <2>2. AnnouncedOnce' /\ ToAnnounce'
    BY <1>1, <2>1 DEF AdbInv, AnnouncedOnce, ToAnnounce
  <2> QED
    BY <1>1, <1>2, <1>3, <2>1, <2>2, StreamStepKeeps DEF AdbInv, AdbTypeOK, Traffic
<1> QED
  BY <1>4, <1>5

(* A WRTE of the device is acknowledged when its stream is known.          *)
LEMMA OnWrteKeeps ==
  ASSUME AdbInv, OnWrte
  PROVE  AdbInv'
<1> DEFINE id == Head(toHost).arg1
<1>1. UNCHANGED <<hostVars, calls, slices, reported, linkUp, remote>>
  BY DEF OnWrte
<1>2. toHost' \in Seq(DeviceMessage) /\ connected
  BY ReceivedIsGood, ReceivedConnected DEF OnWrte, AdbInv
<1>3. wire' \in Seq(GoodPart)
  <2>1. CASE id \in DOMAIN streams
    <3>1. id \in LocalIds /\ id \in Nat /\ streams[id].remoteId \in Nat
      BY <2>1, StreamTypes DEF AdbInv
    <3>2. Ack(id) \in HostMessage
      BY <3>1 DEF Ack, HostMessage, AdbMessage, Msg, Commands
    <3>3. SendEmpty(Ack(id))
      BY <2>1 DEF OnWrte
    <3> QED
      BY <3>2, <3>3, SendEmptyKeeps DEF AdbInv
  <2>2. CASE id \notin DOMAIN streams
    BY <2>2 DEF OnWrte, AdbInv, Traffic
  <2> QED
    BY <2>1, <2>2
<1>4. AnnouncedOnce' /\ ToAnnounce'
  BY <1>1 DEF AdbInv, AnnouncedOnce, ToAnnounce, hostVars
<1>5. CnxnFirst'
  BY <1>1, <1>2 DEF AdbInv, CnxnFirst, hostVars
<1> QED
  BY <1>1, <1>2, <1>3, <1>4, <1>5, StreamStepKeeps DEF AdbInv, AdbTypeOK, hostVars

(* A CLSE of the device forgets its stream, if there is one.               *)
LEMMA OnClseKeeps ==
  ASSUME AdbInv, OnClse
  PROVE  AdbInv'
<1>1. UNCHANGED <<nextLocalId, maxPayload, connected, accepting, announced, calls, slices,
                  reported, wire, linkUp, remote>>
      /\ streams' = Without(streams, Head(toHost).arg1)
  BY DEF OnClse, Forget
<1>2. toHost' \in Seq(DeviceMessage) /\ connected
  BY ReceivedIsGood, ReceivedConnected DEF OnClse, AdbInv
<1>3. streams' \in PartialFunctions(LocalIds, [remoteId: RemoteIds \cup {NoId},
                                               open: BOOLEAN])
  BY <1>1, WithoutType DEF AdbInv, AdbTypeOK
<1>4. AnnouncedOnce'
  BY <1>1 DEF AdbInv, AnnouncedOnce
<1>5. ToAnnounce'
  BY <1>1 DEF AdbInv, ToAnnounce, Without
<1>6. CnxnFirst'
  BY <1>1, <1>2 DEF AdbInv, CnxnFirst
<1> QED
  BY <1>1, <1>2, <1>3, <1>4, <1>5, <1>6, StreamStepKeeps DEF AdbInv, AdbTypeOK, Traffic

-----------------------------------------------------------------------------
(* What a step of the device has to show.                                  *)
LEMMA DeviceStepKeeps ==
  ASSUME AdbInv, UNCHANGED <<hostVars, calls, slices, reported>>, linkUp' \in BOOLEAN,
         wire' \in Seq(GoodPart), toHost' \in Seq(DeviceMessage),
         remote' \in [online: BOOLEAN, nextId: 1 .. 2 * MaxStreams + 1, awaits: Part,
                      streams: PartialFunctions(RemoteIds, DeviceStream)],
         remote'.awaits \in GoodPart,
         ~remote'.online => DOMAIN remote'.streams = {},
         ~connected => \/ toHost' = << >> /\ ~remote'.online
                       \/ toHost' # << >> /\ Head(toHost').command = "CNXN"
  PROVE  AdbInv'
<1>1. Traffic'
  BY DEF AdbInv, Traffic
<1>2. AdbTypeOK'
  <2>1. wire' \in Seq(Part) /\ toHost' \in Seq(AdbMessage)
    BY TrafficTypes
  <2> QED
    BY <2>1 DEF AdbInv, AdbTypeOK, hostVars
<1>3. AnnouncedOnce' /\ ToAnnounce'
  BY DEF AdbInv, AnnouncedOnce, ToAnnounce, hostVars
<1>4. CnxnFirst'
  BY DEF AdbInv, CnxnFirst, hostVars
<1>5. AtTheEnd' /\ WritesCarryEveryByte'
  BY DEF AdbInv, AtTheEnd, WritesCarryEveryByte
<1> QED
  BY <1>1, <1>2, <1>3, <1>4, <1>5 DEF AdbInv

(* The device as a record with its four fields.                            *)
Device == [online: BOOLEAN, nextId: 1 .. 2 * MaxStreams + 1, awaits: Part,
           streams: PartialFunctions(RemoteIds, DeviceStream)]

(* What the device has in a good state.                                    *)
LEMMA DeviceTypes ==
  ASSUME AdbInv
  PROVE  /\ remote \in Device /\ remote.awaits \in GoodPart
         /\ remote.streams \in PartialFunctions(RemoteIds, DeviceStream)
         /\ DOMAIN remote.streams \subseteq RemoteIds
         /\ remote.streams \in [DOMAIN remote.streams -> DeviceStream]
         /\ ~remote.online => DOMAIN remote.streams = {}
         /\ NoHeader \in GoodPart /\ NoHeader \in Part
         /\ remote.online \in BOOLEAN /\ remote.nextId \in Nat
<1>1. remote \in Device /\ remote.awaits \in GoodPart
  BY DEF AdbInv, AdbTypeOK, Traffic, Device
<1>2. remote.streams \in PartialFunctions(RemoteIds, DeviceStream) /\ remote.nextId \in Nat
      /\ remote.online \in BOOLEAN
  BY <1>1 DEF Device
<1>3. NoHeader \in GoodPart /\ NoHeader \in Part
  BY DEF NoHeader, Header, GoodPart, Part, Msg, HostMessage, AdbMessage, Commands
<1> QED
  BY <1>1, <1>2, <1>3, PartialFunctionsDef DEF AdbInv, CnxnFirst

(* What an online device says goes behind its CNXN.                        *)
LEMMA OnlineSays ==
  ASSUME AdbInv, remote.online, NEW msg \in DeviceMessage, Replies(<<msg>>)
  PROVE  /\ toHost' \in Seq(DeviceMessage)
         /\ ~connected => toHost' # << >> /\ Head(toHost').command = "CNXN"
  BY RepliesKeep DEF AdbInv, Traffic, CnxnFirst

(* The device handles a message that has arrived in full.                  *)
LEMMA DeviceHandlesKeeps ==
  ASSUME AdbInv, NEW msg \in HostMessage, DeviceHandles(msg)
  PROVE  /\ toHost' \in Seq(DeviceMessage)
         /\ remote' \in Device /\ remote'.awaits \in GoodPart
         /\ ~remote'.online => DOMAIN remote'.streams = {}
         /\ ~connected => \/ toHost' = << >> /\ ~remote'.online
                          \/ toHost' # << >> /\ Head(toHost').command = "CNXN"
<1> USE DeviceTypes
<1>1. /\ toHost \in Seq(DeviceMessage)
      /\ ~connected => \/ toHost = << >> /\ ~remote.online
                       \/ toHost # << >> /\ Head(toHost).command = "CNXN"
  BY DEF AdbInv, Traffic, CnxnFirst
<1>2. msg.arg0 \in Nat /\ msg.arg1 \in Nat
  BY DEF HostMessage, AdbMessage
<1>3. ASSUME remote' = [remote EXCEPT !.awaits = NoHeader]
      PROVE  /\ remote' \in Device /\ remote'.awaits \in GoodPart
             /\ remote'.online = remote.online /\ remote'.streams = remote.streams
  BY <1>3 DEF Device
<1>4. ASSUME NEW f \in PartialFunctions(RemoteIds, DeviceStream),
             remote' = [remote EXCEPT !.streams = f]
      PROVE  /\ remote' \in Device /\ remote'.awaits \in GoodPart
             /\ remote'.online = remote.online /\ remote'.streams = f
  BY <1>4 DEF Device
<1>5. CASE msg.command = "CNXN"
  <2> DEFINE reply == Msg("CNXN", ADB_VERSION, DeviceMaxPayload)
  <2>1. remote' = [remote EXCEPT !.online = TRUE, !.awaits = NoHeader] /\ Replies(<<reply>>)
    BY <1>5 DEF DeviceHandles
  <2>2. reply \in DeviceMessage /\ reply.command = "CNXN"
    BY IdsAreNumbers DEF DeviceMessage, AdbMessage, Msg, Commands, ADB_VERSION
  <2> HIDE DEF reply
  <2>3. /\ toHost' \in Seq(DeviceMessage) /\ toHost' # << >>
        /\ toHost # << >> => Head(toHost') = Head(toHost)
        /\ toHost = << >> => Head(toHost') = reply
    BY <1>1, <2>1, <2>2, RepliesKeep
  <2>4. remote' \in Device /\ remote'.awaits \in GoodPart /\ remote'.online
    BY <2>1 DEF Device
  <2> QED
    BY <1>1, <2>2, <2>3, <2>4
<1>6. CASE msg.command = "OPEN" /\ remote.online /\ remote.nextId \in RemoteIds
  <2> DEFINE yes == Msg("OKAY", remote.nextId, msg.arg0)
             no == Msg("CLSE", NoId, msg.arg0)
             stream == [peer |-> msg.arg0, waiting |-> FALSE]
  <2>1. yes \in DeviceMessage /\ no \in DeviceMessage
    BY <1>2, <1>6, IdsAreNumbers DEF DeviceMessage, AdbMessage, Msg, Commands
  <2>2. stream \in DeviceStream
    BY <1>6 DEF DeviceStream, HostMessage
  <2>3. \/ /\ remote' = [remote EXCEPT !.awaits = NoHeader, !.nextId = @ + 1,
                            !.streams = With(@, remote.nextId, stream)]
           /\ Replies(<<yes>>)
        \/ /\ remote' = [remote EXCEPT !.awaits = NoHeader]
           /\ Replies(<<no>>)
    BY <1>6 DEF DeviceHandles
  <2> HIDE DEF yes, no, stream
  <2>4. With(remote.streams, remote.nextId, stream) \in PartialFunctions(RemoteIds, DeviceStream)
    BY <1>6, <2>2, WithType
  <2>5. remote.nextId + 1 \in 1 .. 2 * MaxStreams + 1
    BY <1>6, IdsAreNumbers DEF RemoteIds
  <2>6. remote' \in Device /\ remote'.awaits \in GoodPart /\ remote'.online
    <3>1. CASE remote' = [remote EXCEPT !.awaits = NoHeader, !.nextId = @ + 1,
                            !.streams = With(@, remote.nextId, stream)]
      BY <1>6, <2>4, <2>5, <3>1 DEF Device
    <3>2. CASE remote' = [remote EXCEPT !.awaits = NoHeader]
      BY <1>3, <1>6, <3>2
    <3> QED
      BY <2>3, <3>1, <3>2
  <2>7. /\ toHost' \in Seq(DeviceMessage)
        /\ ~connected => toHost' # << >> /\ Head(toHost').command = "CNXN"
    BY <1>6, <2>1, <2>3, OnlineSays
  <2> QED
    BY <2>6, <2>7
<1>7. CASE msg.command = "OKAY" /\ msg.arg1 \in DOMAIN remote.streams
  <2> DEFINE stream == [peer |-> msg.arg0, waiting |-> FALSE]
  <2>1. /\ remote' = [remote EXCEPT !.streams[msg.arg1] = stream] /\ UNCHANGED toHost
    BY <1>7 DEF DeviceHandles
  <2>2. stream \in DeviceStream
    BY <1>7 DEF DeviceStream, HostMessage
  <2> HIDE DEF stream
  <2>3. [remote.streams EXCEPT ![msg.arg1] = stream] \in PartialFunctions(RemoteIds, DeviceStream)
    BY <1>7, <2>2, UpdateType
  <2>4. remote' = [remote EXCEPT !.streams = [remote.streams EXCEPT ![msg.arg1] = stream]]
    BY <2>1 DEF Device
  <2>5. remote' \in Device /\ remote'.awaits \in GoodPart /\ remote'.online = remote.online
    BY <1>4, <2>3, <2>4
  <2> QED
    BY <1>1, <1>7, <2>1, <2>5
<1>8. CASE msg.command = "WRTE" /\ msg.arg1 \in DOMAIN remote.streams
  <2>1. /\ remote' = [remote EXCEPT !.awaits = NoHeader]
        /\ Replies(<<Msg("OKAY", msg.arg1, msg.arg0)>>)
    BY <1>8 DEF DeviceHandles
  <2>2. Msg("OKAY", msg.arg1, msg.arg0) \in DeviceMessage
    BY <1>2, <1>8 DEF DeviceMessage, AdbMessage, Msg, Commands
  <2>3. remote.online
    BY <1>8
  <2>4. /\ toHost' \in Seq(DeviceMessage)
        /\ ~connected => toHost' # << >> /\ Head(toHost').command = "CNXN"
    BY <2>1, <2>2, <2>3, OnlineSays
  <2> QED
    BY <1>3, <2>1, <2>3, <2>4
<1>9. CASE msg.command = "CLSE"
  <2>1. /\ remote' = [remote EXCEPT !.streams = Without(remote.streams, msg.arg1)]
        /\ UNCHANGED toHost
    BY <1>9 DEF DeviceHandles
  <2>2. Without(remote.streams, msg.arg1) \in PartialFunctions(RemoteIds, DeviceStream)
    BY WithoutType
  <2>3. /\ remote' \in Device /\ remote'.awaits \in GoodPart /\ remote'.online = remote.online
        /\ remote'.streams = Without(remote.streams, msg.arg1)
    BY <1>4, <2>1, <2>2
  <2>4. ~remote'.online => DOMAIN remote'.streams = {}
    BY <2>3 DEF Without
  <2> QED
    BY <1>1, <2>1, <2>3, <2>4
<1>10. CASE /\ msg.command # "CNXN"
            /\ ~(msg.command = "OPEN" /\ remote.online /\ remote.nextId \in RemoteIds)
            /\ ~(msg.command = "OKAY" /\ msg.arg1 \in DOMAIN remote.streams)
            /\ ~(msg.command = "WRTE" /\ msg.arg1 \in DOMAIN remote.streams)
            /\ msg.command # "CLSE"
  <2>1. remote' = [remote EXCEPT !.awaits = NoHeader] /\ UNCHANGED toHost
    BY <1>10 DEF DeviceHandles
  <2> QED
    BY <1>1, <1>3, <2>1
<1> QED
  BY <1>5, <1>6, <1>7, <1>8, <1>9, <1>10

(* The device takes a part of the host's traffic, or drops the link.       *)
LEMMA DeviceTakesKeeps ==
  ASSUME AdbInv, DeviceTakes
  PROVE  AdbInv'
<1> DEFINE part == Head(wire)
<1>1. UNCHANGED <<hostVars, calls, slices, reported>> /\ wire # << >>
  BY DEF DeviceTakes
<1>2. wire \in Seq(GoodPart) /\ part \in GoodPart /\ Tail(wire) \in Seq(GoodPart)
      /\ part.msg \in HostMessage
  BY <1>1, HeadTailProperties DEF AdbInv, Traffic, GoodPart
<1>3. /\ toHost \in Seq(DeviceMessage)
      /\ ~connected => \/ toHost = << >> /\ ~remote.online
                       \/ toHost # << >> /\ Head(toHost).command = "CNXN"
  BY DEF AdbInv, Traffic, CnxnFirst
<1>4. linkUp' \in BOOLEAN /\ wire' \in Seq(GoodPart)
  <2>1. \/ wire' = Tail(wire) /\ linkUp' = linkUp
        \/ wire' = << >> /\ linkUp' = FALSE
    BY DEF DeviceTakes
  <2>2. << >> \in Seq(GoodPart) /\ linkUp \in BOOLEAN
    BY DEF AdbInv, AdbTypeOK
  <2> QED
    BY <1>2, <2>1, <2>2
<1>5. CASE InTurn(part) /\ DeviceHandles(part.msg)
  BY <1>1, <1>2, <1>4, <1>5, DeviceHandlesKeeps, DeviceStepKeeps DEF Device
<1>6. CASE InTurn(part) /\ remote' = [remote EXCEPT !.awaits = part] /\ UNCHANGED toHost
  <2>1. /\ remote' \in Device /\ remote'.awaits \in GoodPart
        /\ remote'.online = remote.online /\ remote'.streams = remote.streams
    BY <1>2, <1>6, DeviceTypes DEF Device, GoodPart
  <2>2. ~remote'.online => DOMAIN remote'.streams = {}
    BY <2>1, DeviceTypes
  <2> QED
    BY <1>1, <1>3, <1>4, <1>6, <2>1, <2>2, DeviceStepKeeps DEF Device
<1>7. CASE UNCHANGED <<remote, toHost>>
  BY <1>1, <1>3, <1>4, <1>7, DeviceTypes, DeviceStepKeeps DEF Device
<1> QED
  BY <1>5, <1>6, <1>7 DEF DeviceTakes

(* A message an online device sends, with its streams changed.             *)
LEMMA DeviceSaysKeeps ==
  ASSUME AdbInv, NEW msg \in DeviceMessage, DeviceSends(msg),
         remote' \in Device, remote'.awaits = remote.awaits, remote'.online = remote.online
  PROVE  AdbInv'
<1>1. UNCHANGED <<hostVars, calls, slices, reported, wire, linkUp>> /\ remote.online
      /\ Replies(<<msg>>)
  BY DEF DeviceSends
<1>2. /\ toHost' \in Seq(DeviceMessage)
      /\ ~connected => toHost' # << >> /\ Head(toHost').command = "CNXN"
  BY <1>1, OnlineSays
<1>3. wire' \in Seq(GoodPart) /\ linkUp' \in BOOLEAN /\ remote'.awaits \in GoodPart
  BY <1>1, DeviceTypes DEF AdbInv, Traffic, AdbTypeOK
<1> QED
  BY <1>1, <1>2, <1>3, DeviceStepKeeps DEF Device

(* The device opens a stream of its own.                                   *)
LEMMA DeviceOpensKeeps ==
  ASSUME AdbInv, DeviceOpens
  PROVE  AdbInv'
<1> USE DeviceTypes
<1> DEFINE stream == [peer |-> NoId, waiting |-> FALSE]
           msg == Msg("OPEN", remote.nextId, NoId)
<1>1. /\ remote.nextId <= MaxStreams /\ DeviceSends(msg)
      /\ remote' = [remote EXCEPT !.nextId = @ + 1,
                      !.streams = With(@, remote.nextId, stream)]
  BY DEF DeviceOpens
<1>2. remote.nextId \in RemoteIds /\ remote.nextId + 1 \in 1 .. 2 * MaxStreams + 1
  BY <1>1, IdsAreNumbers DEF RemoteIds, Device
<1>3. stream \in DeviceStream /\ msg \in DeviceMessage
  BY <1>2, IdsAreNumbers DEF DeviceStream, DeviceMessage, AdbMessage, Msg, Commands
<1> HIDE DEF stream, msg
<1>4. With(remote.streams, remote.nextId, stream) \in PartialFunctions(RemoteIds, DeviceStream)
  BY <1>2, <1>3, WithType
<1>5. remote' \in Device /\ remote'.awaits = remote.awaits /\ remote'.online = remote.online
  BY <1>1, <1>2, <1>4 DEF Device
<1> QED
  BY <1>1, <1>3, <1>5, DeviceSaysKeeps

(* The device writes on a stream whose peer it knows.                      *)
LEMMA DeviceWritesKeeps ==
  ASSUME AdbInv, NEW id \in RemoteIds, DeviceWrites(id)
  PROVE  AdbInv'
<1> USE DeviceTypes
<1> DEFINE stream == [remote.streams[id] EXCEPT !.waiting = TRUE]
           msg == Msg("WRTE", id, remote.streams[id].peer)
<1>1. /\ id \in DOMAIN remote.streams /\ DeviceSends(msg)
      /\ remote' = [remote EXCEPT !.streams[id].waiting = TRUE]
  BY DEF DeviceWrites
<1>2. remote.streams[id] \in DeviceStream /\ remote.streams[id].peer \in Nat /\ id \in Nat
  <2>1. remote.streams[id] \in DeviceStream
    BY <1>1
  <2> QED
    BY <2>1, PeersAreNumbers
<1>3. stream \in DeviceStream /\ msg \in DeviceMessage
  <2>1. stream \in DeviceStream
    BY <1>2 DEF DeviceStream
  <2>2. msg \in DeviceMessage
    BY <1>2 DEF DeviceMessage, AdbMessage, Msg, Commands
  <2> QED
    BY <2>1, <2>2
<1>4. remote' = [remote EXCEPT !.streams = [remote.streams EXCEPT ![id] = stream]]
  BY <1>1 DEF Device
<1> HIDE DEF stream, msg
<1>5. [remote.streams EXCEPT ![id] = stream] \in PartialFunctions(RemoteIds, DeviceStream)
  BY <1>1, <1>3, UpdateType
<1>6. remote' \in Device /\ remote'.awaits = remote.awaits /\ remote'.online = remote.online
  BY <1>4, <1>5 DEF Device
<1> QED
  BY <1>1, <1>3, <1>6, DeviceSaysKeeps

(* The device closes a stream whose peer it knows.                         *)
LEMMA DeviceClosesKeeps ==
  ASSUME AdbInv, NEW id \in RemoteIds, DeviceCloses(id)
  PROVE  AdbInv'
<1> USE DeviceTypes
<1> DEFINE msg == Msg("CLSE", id, remote.streams[id].peer)
<1>1. /\ id \in DOMAIN remote.streams /\ DeviceSends(msg)
      /\ remote' = [remote EXCEPT !.streams = Without(remote.streams, id)]
  BY DEF DeviceCloses
<1>2. remote.streams[id] \in DeviceStream /\ remote.streams[id].peer \in Nat /\ id \in Nat
  <2>1. remote.streams[id] \in DeviceStream
    BY <1>1
  <2> QED
    BY <2>1, PeersAreNumbers
<1>3. msg \in DeviceMessage
  BY <1>2 DEF DeviceMessage, AdbMessage, Msg, Commands
<1> HIDE DEF msg
<1>4. Without(remote.streams, id) \in PartialFunctions(RemoteIds, DeviceStream)
  BY WithoutType
<1>5. remote' \in Device /\ remote'.awaits = remote.awaits /\ remote'.online = remote.online
  BY <1>1, <1>4 DEF Device
<1> QED
  BY <1>1, <1>3, <1>5, DeviceSaysKeeps

(* An AUTH of the device names no stream.                                  *)
LEMMA DeviceAsksAuthKeeps ==
  ASSUME AdbInv, DeviceAsksAuth
  PROVE  AdbInv'
<1>1. Msg("AUTH", 1, 0) \in DeviceMessage
  BY DEF DeviceMessage, AdbMessage, Msg, Commands
<1> QED
  BY <1>1, DeviceTypes, DeviceSaysKeeps DEF DeviceAsksAuth

-----------------------------------------------------------------------------
(* A step that changes nothing.                                            *)
LEMMA StutterKeeps ==
  ASSUME AdbInv, UNCHANGED vars
  PROVE  AdbInv'
<1>1. AdbTypeOK' /\ Traffic'
  BY DEF AdbInv, AdbTypeOK, Traffic, vars, hostVars
<1>2. AnnouncedOnce' /\ ToAnnounce' /\ CnxnFirst'
  BY DEF AdbInv, AnnouncedOnce, ToAnnounce, CnxnFirst, vars, hostVars
<1>3. AtTheEnd' /\ WritesCarryEveryByte'
  BY DEF AdbInv, AtTheEnd, WritesCarryEveryByte, vars, hostVars
<1> QED
  BY <1>1, <1>2, <1>3 DEF AdbInv

(* Every step keeps what is good.                                          *)
LEMMA StepKeeps ==
  ASSUME AdbInv, [Next]_vars
  PROVE  AdbInv'
<1>1. CASE HostStep
  BY <1>1, ConnectKeeps, OpenKeeps, BeginWriteKeeps, SendBodyKeeps, BodyWrittenKeeps,
     CallFailsKeeps, CloseStreamKeeps, AcceptedKeeps, EmptyFailsKeeps, OnCnxnKeeps,
     OnAuthKeeps, OnOpenKeeps, OnOkayKeeps, OnWrteKeeps, OnClseKeeps
  DEF HostStep
<1>2. CASE DeviceStep
  BY <1>2, DeviceTakesKeeps, DeviceOpensKeeps, DeviceWritesKeeps, DeviceClosesKeeps,
     DeviceAsksAuthKeeps DEF DeviceStep
<1>3. CASE UNCHANGED vars
  BY <1>3, StutterKeeps
<1> QED
  BY <1>1, <1>2, <1>3 DEF Next

(* The host's invariant, from which the theorems below follow.             *)
THEOREM AdbInvariance == Spec => []AdbInv
<1>1. Init => AdbInv
  BY InitInv
<1>2. AdbInv /\ [Next]_vars => AdbInv'
  BY StepKeeps
<1> QED
  BY <1>1, <1>2, PTL DEF Spec

(* Every variable of the host and of the link keeps its type.              *)
THEOREM AdbTypeCorrect == Spec => []AdbTypeOK
<1>1. AdbInv => AdbTypeOK
  BY DEF AdbInv
<1> QED
  BY <1>1, AdbInvariance, PTL

(* However calls, OKAYs and failures interleave, no stream is announced    *)
(* twice (handleOkay, acceptStream).                                       *)
THEOREM NoStreamTwice == Spec => []AnnouncedOnce
<1>1. AdbInv => AnnouncedOnce
  BY DEF AdbInv
<1> QED
  BY <1>1, AdbInvariance, PTL

(* A write sends its bytes in order, without gap or overlap, in slices the *)
(* device can take, and all of them before it resolves (write).            *)
THEOREM EveryByteIsSent == Spec => []WritesCarryEveryByte
<1>1. AdbInv => WritesCarryEveryByte
  BY DEF AdbInv
<1> QED
  BY <1>1, AdbInvariance, PTL

-----------------------------------------------------------------------------
(* What a queue holds after one of its ends moved.                         *)
LEMMA QueueGrows ==
  ASSUME NEW S, NEW s \in Seq(S), NEW e \in S, NEW t, t = Append(s, e)
  PROVE  /\ t \in Seq(S)
         /\ Len(s) + 1 \in DOMAIN t /\ t[Len(s) + 1] = e
         /\ \A i \in DOMAIN s : i \in DOMAIN t /\ t[i] = s[i] /\ i # Len(s) + 1 /\ i \in Nat
         /\ \A i \in DOMAIN t : i = Len(s) + 1 \/ i \in DOMAIN s
<1>1. t \in Seq(S) /\ Len(s) \in Nat /\ Len(t) = Len(s) + 1
      /\ (\A i \in 1 .. Len(s) : t[i] = s[i])
      /\ t[Len(s) + 1] = e
  BY AppendProperties, LenProperties
<1>2. DOMAIN t = 1 .. Len(s) + 1 /\ DOMAIN s = 1 .. Len(s)
  BY <1>1, LenProperties
<1> QED
  BY <1>1, <1>2

(* And after it lost its first element.                                    *)
LEMMA QueueShrinks ==
  ASSUME NEW S, NEW s \in Seq(S), s # << >>, NEW t, t = Tail(s)
  PROVE  /\ t \in Seq(S) /\ Head(s) \in S
         /\ 1 \in DOMAIN s /\ s[1] = Head(s)
         /\ \A i \in DOMAIN t : i \in Nat /\ i + 1 \in DOMAIN s /\ t[i] = s[i + 1]
         /\ \A i \in DOMAIN s : i \in Nat /\ (i = 1 \/ (i - 1 \in DOMAIN t /\ t[i - 1] = s[i]))
<1>1. /\ t \in Seq(S) /\ Head(s) \in S /\ Head(s) = s[1] /\ Len(s) \in Nat \ {0}
      /\ Len(t) = Len(s) - 1 /\ \A i \in 1 .. Len(t) : t[i] = s[i + 1]
  BY HeadTailProperties, LenProperties, EmptySeq
<1>2. DOMAIN t = 1 .. Len(t) /\ DOMAIN s = 1 .. Len(s)
  BY <1>1, LenProperties
<1> QED
  BY <1>1, <1>2

(* What is on the wire after the host wrote a part, or the device took one. *)
LEMMA WireGrows ==
  ASSUME Traffic, NEW p \in GoodPart, wire' = Append(wire, p)
  PROVE  /\ \A m : OnTheWire(m)' <=> OnTheWire(m) \/ m = p.msg
         /\ \A i \in DOMAIN wire : i \in DOMAIN wire' /\ wire'[i] = wire[i] /\ i # Len(wire) + 1
         /\ \A i \in DOMAIN wire' : i = Len(wire) + 1 \/ i \in DOMAIN wire
         /\ wire'[Len(wire) + 1] = p
<1>1. /\ Len(wire) + 1 \in DOMAIN wire' /\ wire'[Len(wire) + 1] = p
      /\ \A i \in DOMAIN wire : i \in DOMAIN wire' /\ wire'[i] = wire[i] /\ i # Len(wire) + 1
      /\ \A i \in DOMAIN wire' : i = Len(wire) + 1 \/ i \in DOMAIN wire
  BY QueueGrows DEF Traffic
<1> QED
  BY <1>1 DEF OnTheWire

(* What the device took is all that is gone from the wire.                 *)
LEMMA WireShrinks ==
  ASSUME Traffic, wire # << >>, wire' = Tail(wire)
  PROVE  /\ \A m : OnTheWire(m) <=> OnTheWire(m)' \/ m = Head(wire).msg
         /\ Head(wire) \in GoodPart /\ 1 \in DOMAIN wire /\ wire[1] = Head(wire)
         /\ \A i \in DOMAIN wire' : i \in Nat /\ i + 1 \in DOMAIN wire /\ wire'[i] = wire[i + 1]
<1>1. /\ Head(wire) \in GoodPart /\ 1 \in DOMAIN wire /\ wire[1] = Head(wire)
      /\ \A i \in DOMAIN wire' : i \in Nat /\ i + 1 \in DOMAIN wire /\ wire'[i] = wire[i + 1]
      /\ \A i \in DOMAIN wire : i = 1 \/ (i - 1 \in DOMAIN wire' /\ wire'[i - 1] = wire[i])
  BY QueueShrinks DEF Traffic
<1>2. ASSUME NEW m, OnTheWire(m), m # Head(wire).msg PROVE OnTheWire(m)'
  <2>1. PICK i \in DOMAIN wire : wire[i].msg = m
    BY <1>2 DEF OnTheWire
  <2> QED
    BY <1>1, <1>2, <2>1 DEF OnTheWire
<1>3. ASSUME NEW m, OnTheWire(m)' PROVE OnTheWire(m)
  <2>1. PICK i \in DOMAIN wire' : wire'[i].msg = m
    BY <1>3 DEF OnTheWire
  <2> QED
    BY <1>1, <2>1 DEF OnTheWire
<1>4. OnTheWire(Head(wire).msg)
  BY <1>1 DEF OnTheWire
<1> QED
  BY <1>1, <1>2, <1>3, <1>4

(* What is on its way after the device spoke, or the host listened.        *)
LEMMA QueueToHostGrows ==
  ASSUME Traffic, NEW m \in DeviceMessage, Replies(<<m>>)
  PROVE  /\ \A n : OnItsWay(n)' <=> OnItsWay(n) \/ n = m
         /\ \A i \in DOMAIN toHost : i \in DOMAIN toHost' /\ toHost'[i] = toHost[i]
                                     /\ i \in 1 .. Len(toHost)
         /\ \A i \in DOMAIN toHost' : i = Len(toHost) + 1 \/ i \in DOMAIN toHost
         /\ toHost'[Len(toHost) + 1] = m /\ Len(toHost) \in Nat
         /\ DOMAIN toHost = 1 .. Len(toHost)
<1>1. toHost \in Seq(DeviceMessage)
  BY DEF Traffic
<1>2. toHost' = Append(toHost, m)
  BY <1>1 DEF Replies
<1>3. /\ Len(toHost) + 1 \in DOMAIN toHost' /\ toHost'[Len(toHost) + 1] = m
      /\ \A i \in DOMAIN toHost : i \in DOMAIN toHost' /\ toHost'[i] = toHost[i]
      /\ \A i \in DOMAIN toHost' : i = Len(toHost) + 1 \/ i \in DOMAIN toHost
  BY <1>1, <1>2, QueueGrows
<1>4. Len(toHost) \in Nat /\ DOMAIN toHost = 1 .. Len(toHost)
  BY <1>1, LenProperties
<1> QED
  BY <1>3, <1>4 DEF OnItsWay

(* What the host took is all that is no longer on its way.                 *)
LEMMA QueueToHostShrinks ==
  ASSUME Traffic, toHost # << >>, toHost' = Tail(toHost)
  PROVE  /\ \A m : OnItsWay(m) <=> OnItsWay(m)' \/ m = Head(toHost)
         /\ Head(toHost) \in DeviceMessage /\ 1 \in DOMAIN toHost /\ toHost[1] = Head(toHost)
         /\ \A i \in DOMAIN toHost' : i \in Nat /\ i + 1 \in DOMAIN toHost
                                      /\ toHost'[i] = toHost[i + 1]
         /\ \A i \in DOMAIN toHost : i \in Nat /\ i > 0
              /\ (i = 1 \/ (i - 1 \in DOMAIN toHost' /\ toHost'[i - 1] = toHost[i]))
<1>1. toHost \in Seq(DeviceMessage)
  BY DEF Traffic
<1>2. /\ Head(toHost) \in DeviceMessage /\ 1 \in DOMAIN toHost /\ toHost[1] = Head(toHost)
      /\ \A i \in DOMAIN toHost' : i \in Nat /\ i + 1 \in DOMAIN toHost
                                   /\ toHost'[i] = toHost[i + 1]
      /\ \A i \in DOMAIN toHost : i \in Nat
              /\ (i = 1 \/ (i - 1 \in DOMAIN toHost' /\ toHost'[i - 1] = toHost[i]))
  BY <1>1, QueueShrinks
<1>3. \A i \in DOMAIN toHost : i > 0
  BY <1>1, LenProperties
<1> QED
  BY <1>2, <1>3 DEF OnItsWay

(* A stream of the device and its peer.                                    *)
LEMMA RemoteTypes ==
  ASSUME AdbTypeOK
  PROVE  /\ DOMAIN remote.streams \subseteq RemoteIds
         /\ \A r \in DOMAIN remote.streams : remote.streams[r] \in DeviceStream
         /\ DOMAIN streams \subseteq LocalIds
         /\ remote.nextId \in Nat /\ nextLocalId \in Nat
         /\ 0 \notin LocalIds /\ 0 \notin RemoteIds /\ NoId = 0
         /\ \A id \in LocalIds : id \in Nat
         /\ \A r \in RemoteIds : r \in Nat
<1>1. /\ DOMAIN remote.streams \subseteq RemoteIds
      /\ remote.streams \in [DOMAIN remote.streams -> DeviceStream]
      /\ DOMAIN streams \subseteq LocalIds
  BY PartialFunctionsDef DEF AdbTypeOK
<1>2. remote.nextId \in Nat /\ nextLocalId \in Nat
  BY IdsAreNumbers DEF AdbTypeOK
<1> QED
  BY <1>1, <1>2, IdsAreNumbers

(* Messages are told apart by their parts.                                 *)
LEMMA MessagesDiffer ==
  ASSUME NEW a, NEW b, NEW c, NEW x, NEW y, NEW z, Msg(a, b, c) = Msg(x, y, z)
  PROVE  a = x /\ b = y /\ c = z
BY DEF Msg

-----------------------------------------------------------------------------
(* Most steps speak of no pair that nobody spoke of before.                *)
NoNewPair == \A id \in LocalIds, r \in RemoteIds : Paired(id, r)' => Paired(id, r)

(* Pairs match still when there is no new one.                             *)
LEMMA PairsMatchKept ==
  ASSUME AdbTypeOK, PairsMatch, NoNewPair,
         nextLocalId' \in {nextLocalId, nextLocalId + 1},
         remote'.nextId \in {remote.nextId, remote.nextId + 1},
         \A r \in DOMAIN remote'.streams : r < remote'.nextId
  PROVE  PairsMatch'
<1>1. nextLocalId' >= nextLocalId /\ remote'.nextId >= remote.nextId
      /\ \A id \in LocalIds : id < nextLocalId => id < nextLocalId'
  BY RemoteTypes
<1>2. \A r \in RemoteIds : r < remote.nextId => r < remote'.nextId
  BY RemoteTypes
<1> QED
  BY <1>1, <1>2 DEF PairsMatch, NoNewPair

(* The host asks once still when nothing it sent moved.                    *)
LEMMA HostAsksKept ==
  ASSUME AdbTypeOK, HostAsksOnce, NoNewPair, UNCHANGED <<wire, calls>>,
         nextLocalId' \in {nextLocalId, nextLocalId + 1}
  PROVE  HostAsksOnce'
<1>1. \A id \in LocalIds : id < nextLocalId => id < nextLocalId'
  BY RemoteTypes
<1> QED
  BY <1>1 DEF HostAsksOnce, NoNewPair, ToAsk, Asked

(* A call of connect or write goes on, or open writes its body.            *)
LEMMA CallKeepsAgreement ==
  ASSUME AdbInv, Agreement, linkUp,
         UNCHANGED <<streams, nextLocalId, toHost, remote>>,
         NEW c \in Calls, \A d \in Calls \ {c} : calls'[d] = calls[d],
         NEW msg, calls'[c].msg = msg, msg.command \in {"CNXN", "OPEN", "WRTE"},
         c \in Writes => msg.command # "OPEN",
         \/ msg = calls[c].msg
         \/ msg.command = "CNXN"
         \/ \E id \in LocalIds : OpenHere(id) /\ msg = Msg("WRTE", id, streams[id].remoteId),
         ~(calls'[c].step = "header" /\ msg.command = "OPEN"),
         \/ wire' = wire
         \/ \E p \in GoodPart : /\ wire' = Append(wire, p)
                                /\ p.msg = msg /\ p \in WholePart
                                /\ p.kind = "body" => calls[c].step = "header" /\ calls[c].msg = msg
  PROVE  Agreement'
<1>1. Traffic /\ AdbTypeOK
  BY DEF AdbInv
<1>2. \A m : OnTheWire(m) => OnTheWire(m)'
  BY <1>1, WireGrows DEF OnTheWire
<1>3. \A m : OnTheWire(m)' => OnTheWire(m) \/ m = msg
  BY <1>1, WireGrows DEF OnTheWire
<1>4. \A k, x, y : msg = Msg(k, x, y) => k = msg.command
  BY DEF Msg
<1>5. \A m : OnItsWay(m)' <=> OnItsWay(m)
  BY DEF OnItsWay
<1>6. \A id, r : (OpenHere(id)' <=> OpenHere(id)) /\ (HasPeer(r, id)' <=> HasPeer(r, id))
  BY DEF OpenHere, HasPeer
<1>7. NoNewPair
  <2> SUFFICES ASSUME NEW id \in LocalIds, NEW r \in RemoteIds, Paired(id, r)'
               PROVE  Paired(id, r)
    BY DEF NoNewPair
  <2>1. ASSUME NEW k \in StreamCommands, msg = Msg(k, id, r) PROVE Paired(id, r)
    <3>1. CASE msg = calls[c].msg
      BY <2>1, <3>1 DEF Paired
    <3>2. CASE msg.command = "CNXN"
      BY <1>4, <2>1, <3>2 DEF StreamCommands
    <3>3. ASSUME NEW jd \in LocalIds, OpenHere(jd), msg = Msg("WRTE", jd, streams[jd].remoteId)
          PROVE  Paired(id, r)
      <4>1. jd = id /\ streams[jd].remoteId = r
        BY <2>1, <3>3 DEF Msg
      <4> QED
        BY <3>3, <4>1 DEF Paired
    <3> QED
      BY <3>1, <3>2, <3>3
  <2>2. CASE \E k \in StreamCommands : OnTheWire(Msg(k, id, r))'
    BY <1>3, <2>1, <2>2 DEF Paired
  <2>3. CASE \E k \in StreamCommands, d \in Calls : calls'[d].msg = Msg(k, id, r)
    BY <2>1, <2>3 DEF Paired
  <2>4. CASE \/ OpenHere(id)' /\ streams'[id].remoteId = r
             \/ HasPeer(r, id)'
             \/ \E k \in StreamCommands : OnItsWay(Msg(k, r, id))'
    BY <1>5, <1>6, <2>4 DEF Paired
  <2> QED
    BY <2>2, <2>3, <2>4 DEF Paired
<1>8. PartsAreWhole'
  <2>1. \A i \in DOMAIN wire' : wire'[i] \in WholePart
    BY <1>1, WireGrows DEF Agreement, PartsAreWhole
  <2>2. \A d \in Calls : calls'[d].msg.command \in {"CNXN", "OPEN", "WRTE"}
    BY DEF Agreement, PartsAreWhole
  <2>3. \A w \in Writes : calls'[w].msg.command # "OPEN"
    BY KindsOfCalls DEF Agreement, PartsAreWhole
  <2> QED
    BY <2>1, <2>2, <2>3 DEF PartsAreWhole
<1>9. OpenHasRemote'
  BY DEF Agreement, OpenHasRemote
<1>10. PairsMatch'
  BY <1>1, <1>7, PairsMatchKept DEF Agreement, PairsMatch
<1>11. HostAsksOnce'
  <2>1. \A id : \A d \in Calls : ToAsk(d, id)' => ToAsk(d, id) /\ d # c
    BY DEF ToAsk, IsOpenOf
  <2>2. CASE wire' = wire
    BY <1>7, <2>1, <2>2 DEF Agreement, HostAsksOnce, NoNewPair, Asked
  <2>3. ASSUME NEW p \in GoodPart, wire' = Append(wire, p), p.msg = msg,
               p.kind = "body" => calls[c].step = "header" /\ calls[c].msg = msg
        PROVE  HostAsksOnce'
    <3>1. /\ \A i \in DOMAIN wire : wire'[i] = wire[i] /\ i # Len(wire) + 1
          /\ \A i \in DOMAIN wire' : i = Len(wire) + 1 \/ i \in DOMAIN wire
          /\ wire'[Len(wire) + 1] = p
      BY <1>1, <2>3, WireGrows
    <3> PICK n : n = Len(wire) + 1
      OBVIOUS
    <3>2. /\ \A i \in DOMAIN wire : wire'[i] = wire[i] /\ i # n
          /\ \A i \in DOMAIN wire' : i = n \/ i \in DOMAIN wire
          /\ wire'[n] = p
      BY <3>1
    <3>3. \A id : Asked(n, id)' => ToAsk(c, id)
      BY <2>3, <3>2 DEF Asked, ToAsk, IsOpenOf
    <3>4. \A id : \A i \in DOMAIN wire : Asked(i, id)' <=> Asked(i, id)
      BY <3>2 DEF Asked
    <3>5. ASSUME NEW id \in LocalIds, NEW d \in Calls, ToAsk(d, id)'
          PROVE  /\ id < nextLocalId /\ \A r \in RemoteIds : ~Paired(id, r)'
                 /\ \A e \in Calls : ToAsk(e, id)' => d = e
                 /\ \A i \in DOMAIN wire' : ~Asked(i, id)'
      <4>1. ToAsk(d, id) /\ d # c
        BY <2>1, <3>5
      <4>2. /\ id < nextLocalId /\ \A r \in RemoteIds : ~Paired(id, r)
            /\ \A e \in Calls : ToAsk(e, id) => d = e
            /\ \A i \in DOMAIN wire : ~Asked(i, id)
        BY <4>1 DEF Agreement, HostAsksOnce
      <4> QED
        BY <1>7, <2>1, <3>2, <3>3, <3>4, <4>1, <4>2 DEF NoNewPair
    <3>6. ASSUME NEW id \in LocalIds, NEW i \in DOMAIN wire', Asked(i, id)'
          PROVE  /\ id < nextLocalId /\ \A r \in RemoteIds : ~Paired(id, r)'
                 /\ \A k \in DOMAIN wire' : Asked(k, id)' => i = k
      <4>1. CASE i = n
        <5>1. ToAsk(c, id)
          BY <3>3, <3>6, <4>1
        <5>2. /\ id < nextLocalId /\ \A r \in RemoteIds : ~Paired(id, r)
              /\ \A k \in DOMAIN wire : ~Asked(k, id)
          BY <5>1 DEF Agreement, HostAsksOnce
        <5> QED
          BY <1>7, <3>2, <3>4, <4>1, <5>2 DEF NoNewPair
      <4>2. CASE i \in DOMAIN wire
        <5>1. Asked(i, id)
          BY <3>4, <3>6, <4>2
        <5>2. /\ id < nextLocalId /\ \A r \in RemoteIds : ~Paired(id, r)
              /\ \A k \in DOMAIN wire : Asked(k, id) => i = k
              /\ ~ToAsk(c, id)
          BY <4>2, <5>1 DEF Agreement, HostAsksOnce
        <5> QED
          BY <1>7, <3>2, <3>3, <3>4, <5>2 DEF NoNewPair
      <4> QED
        BY <3>2, <4>1, <4>2
    <3> QED
      BY <3>5, <3>6 DEF HostAsksOnce
  <2> QED
    BY <2>2, <2>3
<1>12. DeviceAsksOnce'
  BY <1>7 DEF Agreement, DeviceAsksOnce, NoNewPair
<1>13. ClosedIsForgotten'
  BY <1>3, <1>4 DEF Agreement, ClosedIsForgotten
<1>14. OkayComesFirst'
  BY <1>3, <1>4, <1>5, <1>6 DEF Agreement, OkayComesFirst
<1>15. PairsAgree'
  BY <1>2, <1>5, <1>6, <1>7 DEF Agreement, PairsAgree, NoNewPair, Agreed
<1>16. AckIsDue'
  BY <1>2, <1>5 DEF Agreement, AckIsDue
<1> QED
  BY <1>8, <1>9, <1>10, <1>11, <1>12, <1>13, <1>14, <1>15, <1>16 DEF Agreement

(* The parts the host writes are whole.                                    *)
LEMMA PartsOfMessages ==
  ASSUME NEW msg \in HostMessage
  PROVE  /\ \A c \in Calls, n \in Nat \ {0} : msg.command \notin {"OKAY", "CLSE"} =>
              /\ Header(c, msg, n) \in GoodPart /\ Header(c, msg, n) \in WholePart
              /\ Header(c, msg, n).msg = msg /\ Header(c, msg, n).kind = "header"
         /\ \A c \in Calls, n \in Nat : msg.command \notin {"OKAY", "CLSE"} =>
              /\ Body(c, msg, n) \in GoodPart /\ Body(c, msg, n) \in WholePart
              /\ Body(c, msg, n).msg = msg /\ Body(c, msg, n).kind = "body"
         /\ msg.command \in {"OKAY", "CLSE"} /\ msg.arg0 \in LocalIds =>
              /\ Header(Nobody, msg, 0) \in GoodPart /\ Header(Nobody, msg, 0) \in WholePart
              /\ Header(Nobody, msg, 0).msg = msg /\ Header(Nobody, msg, 0).kind = "header"
BY DEF Header, Body, GoodPart, Part, HostMessage, WholePart

(* The header of a CNXN, or of a WRTE of a pair.                           *)
LEMMA HeaderKeepsAgreement ==
  ASSUME AdbInv, Agreement, linkUp,
         UNCHANGED <<streams, nextLocalId, toHost, remote>>,
         NEW c \in Calls, NEW msg \in HostMessage, NEW from \in Nat, NEW to \in Nat, from < to,
         SendHeader(c, msg, from, to), msg.command \in {"CNXN", "WRTE"},
         \/ msg = calls[c].msg
         \/ msg.command = "CNXN"
         \/ \E id \in LocalIds : OpenHere(id) /\ msg = Msg("WRTE", id, streams[id].remoteId)
  PROVE  Agreement'
<1>1. to - from \in Nat \ {0}
  OBVIOUS
<1>2. /\ calls \in [Calls -> Call]
      /\ calls' = [calls EXCEPT ![c] = [step |-> "header", msg |-> msg,
                                        from |-> from, to |-> to]]
  BY DEF SendHeader, AdbInv, AdbTypeOK
<1>3. \A d \in Calls \ {c} : calls'[d] = calls[d]
  BY <1>2
<1>4. calls'[c].msg = msg
  BY <1>2
<1>5. PICK p \in GoodPart : wire' = Append(wire, p) /\ p \in WholePart /\ p.msg = msg
                            /\ p.kind = "header"
  BY <1>1, PartsOfMessages DEF SendHeader, LinkWrite
<1> QED
  BY <1>3, <1>4, <1>5, CallKeepsAgreement

(* A CNXN names no stream.                                                 *)
LEMMA ConnectKeepsAgreement ==
  ASSUME AdbInv, Agreement, linkUp, Connect
  PROVE  Agreement'
<1> DEFINE msg == Msg("CNXN", ADB_VERSION, LegacyMaxPayload)
<1>1. msg \in HostMessage /\ msg.command = "CNXN"
  BY IdsAreNumbers DEF HostMessage, AdbMessage, Msg, Commands, ADB_VERSION
<1>2. SendHeader(Connector, msg, 0, 1) /\ Connector \in Calls
      /\ UNCHANGED <<streams, nextLocalId, toHost, remote>>
  BY KindsOfCalls DEF Connect, hostVars
<1> HIDE DEF msg
<1> QED
  BY <1>1, <1>2, HeaderKeepsAgreement

(* A write names the pair of the open stream it goes to.                   *)
LEMMA BeginWriteKeepsAgreement ==
  ASSUME AdbInv, Agreement, linkUp, NEW w \in Writes, NEW id \in LocalIds, BeginWrite(w, id)
  PROVE  Agreement'
<1>1. w \in Calls /\ UNCHANGED <<streams, nextLocalId, toHost, remote>>
  BY KindsOfCalls DEF BeginWrite, hostVars
<1>2. CASE OpenHere(id)
  <2> DEFINE msg == Msg("WRTE", id, streams[id].remoteId)
             to == SliceEnd(w, 0)
  <2>1. msg \in HostMessage /\ msg.command = "WRTE"
    <3>1. id \in Nat /\ streams[id].remoteId \in Nat
      BY <1>2, StreamTypes DEF AdbInv, OpenHere
    <3> QED
      BY <3>1 DEF HostMessage, AdbMessage, Msg, Commands
  <2>2. to \in Nat /\ 0 < to
    BY IdsAreNumbers, AdbAssumption DEF AdbInv, AdbTypeOK, SliceEnd, Smaller
  <2>3. SendHeader(w, msg, 0, to)
    BY <1>2 DEF BeginWrite, OpenHere
  <2>4. msg = Msg("WRTE", id, streams[id].remoteId)
    OBVIOUS
  <2> HIDE DEF msg, to
  <2> QED
    BY <1>1, <1>2, <2>1, <2>2, <2>3, <2>4, HeaderKeepsAgreement
<1>3. CASE ~OpenHere(id)
  <2>1. calls' = [calls EXCEPT ![w].step = "failed"] /\ UNCHANGED wire
    BY <1>3 DEF BeginWrite, OpenHere
  <2>2. calls \in [Calls -> Call]
    BY DEF AdbInv, AdbTypeOK
  <2>3. /\ \A d \in Calls \ {w} : calls'[d] = calls[d]
        /\ calls'[w].msg = calls[w].msg /\ calls'[w].step = "failed"
    BY <1>1, <2>1, <2>2 DEF Call
  <2>4. calls[w].msg.command \in {"CNXN", "OPEN", "WRTE"} /\ calls[w].msg.command # "OPEN"
    BY <1>1 DEF Agreement, PartsAreWhole
  <2> QED
    BY <1>1, <2>1, <2>3, <2>4, CallKeepsAgreement
<1> QED
  BY <1>2, <1>3

(* A body says what its header said.                                       *)
LEMMA SendBodyKeepsAgreement ==
  ASSUME AdbInv, Agreement, linkUp, NEW c \in Calls, SendBody(c)
  PROVE  Agreement'
<1>1. UNCHANGED <<streams, nextLocalId, toHost, remote>> /\ calls[c].step = "header"
      /\ calls' = [calls EXCEPT ![c].step = "body"]
  BY DEF SendBody, hostVars
<1>2. calls \in [Calls -> Call] /\ calls[c].msg \in HostMessage
      /\ calls[c].to - calls[c].from \in Nat
  BY DEF AdbInv, AdbTypeOK, Traffic, GoodCall, Call
<1>3. /\ \A d \in Calls \ {c} : calls'[d] = calls[d]
      /\ calls'[c].msg = calls[c].msg /\ calls'[c].step = "body"
  BY <1>1, <1>2 DEF Call
<1>4. calls[c].msg.command \in {"CNXN", "OPEN", "WRTE"}
      /\ (c \in Writes => calls[c].msg.command # "OPEN")
  BY DEF Agreement, PartsAreWhole
<1>5. PICK p \in GoodPart : wire' = Append(wire, p) /\ p \in WholePart /\ p.msg = calls[c].msg
  BY <1>2, <1>4, PartsOfMessages DEF SendBody, LinkWrite
<1> QED
  BY <1>1, <1>3, <1>4, <1>5, CallKeepsAgreement

(* So does the next slice of a write.                                      *)
LEMMA BodyWrittenKeepsAgreement ==
  ASSUME AdbInv, Agreement, linkUp, NEW c \in Calls, BodyWritten(c)
  PROVE  Agreement'
<1>1. UNCHANGED <<streams, nextLocalId, toHost, remote>> /\ calls[c].step = "body"
  BY DEF BodyWritten, hostVars
<1>2. /\ calls \in [Calls -> Call] /\ calls[c].msg \in HostMessage
      /\ calls[c].from \in Nat
  BY DEF AdbInv, AdbTypeOK, Traffic, GoodCall, Call
<1>3. calls[c].msg.command \in {"CNXN", "OPEN", "WRTE"}
      /\ (c \in Writes => calls[c].msg.command # "OPEN")
  BY DEF Agreement, PartsAreWhole
<1>4. CASE c \in Writes /\ NextSlice(c) < Length[c]
  <2> DEFINE from == NextSlice(c)
             to == SliceEnd(c, from)
  <2>1. from \in Nat /\ to \in Nat /\ from < to
    BY <1>2, <1>4, IdsAreNumbers, AdbAssumption
       DEF AdbInv, AdbTypeOK, NextSlice, SliceEnd, Smaller
  <2>2. SendHeader(c, calls[c].msg, from, to)
    BY <1>4 DEF BodyWritten
  <2> HIDE DEF from, to
  <2> QED
    BY <1>1, <1>2, <1>3, <1>4, <2>1, <2>2, HeaderKeepsAgreement
<1>5. CASE ~(c \in Writes /\ NextSlice(c) < Length[c])
  <2>1. calls' = [calls EXCEPT ![c].step = "done"] /\ UNCHANGED wire
    BY <1>5 DEF BodyWritten
  <2>2. /\ \A d \in Calls \ {c} : calls'[d] = calls[d]
        /\ calls'[c].msg = calls[c].msg /\ calls'[c].step = "done"
    BY <1>2, <2>1 DEF Call
  <2> QED
    BY <1>1, <1>3, <2>1, <2>2, CallKeepsAgreement
<1> QED
  BY <1>4, <1>5

(* A call of open takes an id that nobody spoke of.                        *)
LEMMA OpenKeepsAgreement ==
  ASSUME AdbInv, Agreement, linkUp, NEW o \in Opens, Open(o)
  PROVE  Agreement'
<1> DEFINE jd == nextLocalId
           msg == Msg("OPEN", jd, NoId)
<1>1. /\ msg \in HostMessage /\ msg.command = "OPEN" /\ msg.arg0 = jd
      /\ \A k \in StreamCommands : \A x, y : msg # Msg(k, x, y)
  BY IdsAreNumbers DEF Open, HostMessage, AdbMessage, Msg, Commands, StreamCommands
<1>2. /\ UNCHANGED <<toHost, remote>> /\ o \in Calls /\ o \notin Writes
      /\ jd \in LocalIds /\ nextLocalId' = jd + 1 /\ jd \in Nat
      /\ SendHeader(o, msg, 0, 1)
  BY KindsOfCalls, IdsAreNumbers DEF Open
<1>3. /\ DOMAIN streams' = DOMAIN streams \cup {jd}
      /\ streams'[jd] = [remoteId |-> NoId, open |-> FALSE]
      /\ \A id \in DOMAIN streams : streams'[id] = streams[id] /\ id # jd /\ id < jd
  <2>1. \A id \in DOMAIN streams : id # jd /\ id < jd
    BY RemoteTypes DEF AdbInv, ToAnnounce
  <2> QED
    BY <2>1 DEF Open, With
<1>4. PICK p \in GoodPart : wire' = Append(wire, p) /\ p \in WholePart /\ p.msg = msg
                            /\ p.kind = "header"
  BY <1>1, <1>2, PartsOfMessages DEF SendHeader, LinkWrite
<1>5. /\ \A d \in Calls \ {o} : calls'[d] = calls[d]
      /\ calls'[o].msg = msg /\ calls'[o].step = "header"
  BY <1>2 DEF SendHeader, AdbInv, AdbTypeOK
<1>6. Traffic /\ AdbTypeOK
  BY DEF AdbInv
<1>7. \A r \in RemoteIds : ~Paired(jd, r)
  BY <1>2, RemoteTypes DEF Agreement, PairsMatch, AdbInv
<1> HIDE DEF msg
<1>8. \A m : OnTheWire(m)' <=> OnTheWire(m) \/ m = msg
  BY <1>4, <1>6, WireGrows
<1>9. \A m : OnItsWay(m)' <=> OnItsWay(m)
  BY <1>2 DEF OnItsWay
<1>10. \A id, r : (OpenHere(id)' <=> OpenHere(id)) /\ (HasPeer(r, id)' <=> HasPeer(r, id))
                  /\ (OpenHere(id) => streams'[id] = streams[id])
  BY <1>2, <1>3 DEF OpenHere, HasPeer
<1>11. NoNewPair
  BY <1>1, <1>5, <1>8, <1>9, <1>10 DEF NoNewPair, Paired
<1>12. PartsAreWhole'
  <2>1. \A i \in DOMAIN wire' : wire'[i] \in WholePart
    BY <1>4, <1>6, WireGrows DEF Agreement, PartsAreWhole
  <2>2. \A d \in Calls : calls'[d].msg.command \in {"CNXN", "OPEN", "WRTE"}
    BY <1>1, <1>5 DEF Agreement, PartsAreWhole
  <2>3. \A w \in Writes : calls'[w].msg.command # "OPEN"
    BY <1>2, <1>5, KindsOfCalls DEF Agreement, PartsAreWhole
  <2> QED
    BY <2>1, <2>2, <2>3 DEF PartsAreWhole
<1>13. OpenHasRemote'
  BY <1>3 DEF Agreement, OpenHasRemote
<1>14. PairsMatch'
  BY <1>2, <1>6, <1>11, PairsMatchKept DEF Agreement, PairsMatch
<1>15. HostAsksOnce'
  <2>1. \A id \in LocalIds : \A i \in DOMAIN wire' : Asked(i, id)' => i \in DOMAIN wire /\ Asked(i, id)
    BY <1>4, <1>6, WireGrows DEF Asked
  <2>2. \A id \in LocalIds : \A d \in Calls :
          ToAsk(d, id)' => IF d = o THEN id = jd ELSE ToAsk(d, id)
    BY <1>1, <1>5 DEF ToAsk, IsOpenOf
  <2>3. \A d \in Calls : ~ToAsk(d, jd)
    BY <1>2 DEF Agreement, HostAsksOnce
  <2>4. \A i \in DOMAIN wire : ~Asked(i, jd)
    BY <1>2 DEF Agreement, HostAsksOnce
  <2>5. \A id \in LocalIds : id < nextLocalId => id < nextLocalId'
    BY <1>2, RemoteTypes DEF AdbInv
  <2>6. jd < nextLocalId'
    BY <1>2
  <2> HIDE DEF jd
  <2>7. ASSUME NEW id \in LocalIds, NEW d \in Calls, ToAsk(d, id)'
        PROVE  /\ id < nextLocalId' /\ \A r \in RemoteIds : ~Paired(id, r)'
               /\ \A e \in Calls : ToAsk(e, id)' => d = e
               /\ \A i \in DOMAIN wire' : ~Asked(i, id)'
    <3>1. CASE d = o
      BY <1>7, <1>11, <2>1, <2>2, <2>3, <2>4, <2>6, <2>7, <3>1 DEF NoNewPair
    <3>2. CASE d # o
      <4>1. ToAsk(d, id) /\ id # jd
        BY <2>2, <2>3, <2>7, <3>2
      <4> QED
        BY <1>11, <2>1, <2>2, <2>5, <4>1 DEF Agreement, HostAsksOnce, NoNewPair
    <3> QED
      BY <3>1, <3>2
  <2>8. ASSUME NEW id \in LocalIds, NEW i \in DOMAIN wire', Asked(i, id)'
        PROVE  /\ id < nextLocalId' /\ \A r \in RemoteIds : ~Paired(id, r)'
               /\ \A k \in DOMAIN wire' : Asked(k, id)' => i = k
    BY <1>11, <2>1, <2>5, <2>8 DEF Agreement, HostAsksOnce, NoNewPair
  <2> QED
    BY <2>7, <2>8 DEF HostAsksOnce
<1>16. DeviceAsksOnce'
  BY <1>2, <1>11 DEF Agreement, DeviceAsksOnce, NoNewPair
<1>17. ClosedIsForgotten'
  <2>1. \A id \in LocalIds, r \in RemoteIds : OnTheWire(Msg("CLSE", id, r))' => OnTheWire(Msg("CLSE", id, r))
    BY <1>1, <1>8 DEF StreamCommands
  <2>2. \A id \in LocalIds : id < nextLocalId => id < nextLocalId' /\ id # jd
    BY <1>2, RemoteTypes DEF AdbInv
  <2> QED
    BY <1>3, <2>1, <2>2 DEF Agreement, ClosedIsForgotten
<1>18. OkayComesFirst'
  <2>1. ASSUME NEW r \in RemoteIds
        PROVE  /\ ~HasPeer(r, jd) /\ ~OnTheWire(Msg("OKAY", jd, r))
               /\ ~OnItsWay(Msg("WRTE", r, jd))
    BY <1>2, <1>7 DEF Paired, StreamCommands
  <2>2. \A id \in DOMAIN streams : streams'[id].open <=> streams[id].open
    BY <1>3
  <2>3. \A id, r : OnTheWire(Msg("OKAY", id, r))' => OnTheWire(Msg("OKAY", id, r))
    BY <1>1, <1>8 DEF StreamCommands
  <2>4. \A i \in DOMAIN toHost : \A r : toHost[i] = Msg("WRTE", r, jd) => OnItsWay(Msg("WRTE", r, jd))
    BY DEF OnItsWay
  <2> HIDE DEF jd
  <2> QED
    BY <1>2, <1>3, <1>9, <1>10, <2>1, <2>2, <2>3, <2>4 DEF Agreement, OkayComesFirst
<1>19. PairsAgree'
  BY <1>2, <1>3, <1>7, <1>8, <1>9, <1>10, <1>11 DEF Agreement, PairsAgree, NoNewPair, Agreed
<1>20. AckIsDue'
  <2>1. \A r \in DOMAIN remote.streams : remote.streams[r].peer # jd
    BY <1>2, <1>6, <1>7, RemoteTypes DEF Paired, HasPeer
  <2> QED
    BY <1>2, <1>3, <1>8, <1>9, <2>1 DEF Agreement, AckIsDue
<1> QED
  BY <1>12, <1>13, <1>14, <1>15, <1>16, <1>17, <1>18, <1>19, <1>20 DEF Agreement

-----------------------------------------------------------------------------
(* What is asked for after the wire grew, by no body of an OPEN, or shrank. *)
LEMMA HostAsksStill ==
  ASSUME AdbInv, HostAsksOnce, UNCHANGED calls, nextLocalId' \in {nextLocalId, nextLocalId + 1},
         \/ \E p \in GoodPart : wire' = Append(wire, p) /\ p.kind = "header"
         \/ wire # << >> /\ wire' = Tail(wire),
         \A id \in LocalIds, r \in RemoteIds :
           Paired(id, r)' => \/ Paired(id, r)
                             \/ id = nextLocalId
                             \/ wire # << >> /\ wire' = Tail(wire) /\ Asked(1, id)
  PROVE  HostAsksOnce'
<1>1. /\ \A id \in LocalIds : id < nextLocalId => id < nextLocalId' /\ id # nextLocalId
      /\ Traffic
  BY RemoteTypes DEF AdbInv
<1>2. \A id : \A d \in Calls : ToAsk(d, id)' <=> ToAsk(d, id)
  BY DEF ToAsk
<1>3. ASSUME NEW p \in GoodPart, wire' = Append(wire, p), p.kind = "header"
      PROVE  HostAsksOnce'
  <2>1. /\ \A i \in DOMAIN wire : wire'[i] = wire[i] /\ i # Len(wire) + 1
        /\ \A i \in DOMAIN wire' : i = Len(wire) + 1 \/ i \in DOMAIN wire
        /\ wire'[Len(wire) + 1] = p
    BY <1>1, <1>3, WireGrows
  <2>2. \A id : \A i \in DOMAIN wire' : Asked(i, id)' => i \in DOMAIN wire /\ Asked(i, id)
    BY <1>3, <2>1 DEF Asked
  <2>3. wire' # Tail(wire) \/ wire = << >>
    <3>1. wire \in Seq(GoodPart)
      BY <1>1 DEF Traffic
    <3>2. Len(wire') = Len(wire) + 1 /\ Len(wire) \in Nat
      BY <1>3, <3>1, AppendProperties, LenProperties
    <3>3. wire # << >> => Len(Tail(wire)) = Len(wire) - 1
      BY <3>1, HeadTailProperties
    <3> QED
      BY <3>2, <3>3
  <2>4. \A id \in LocalIds, r \in RemoteIds : Paired(id, r)' => Paired(id, r) \/ id = nextLocalId
    BY <2>3
  <2>5. ASSUME NEW id \in LocalIds, NEW d \in Calls, ToAsk(d, id)'
        PROVE  /\ id < nextLocalId' /\ \A r \in RemoteIds : ~Paired(id, r)'
               /\ \A e \in Calls : ToAsk(e, id)' => d = e
               /\ \A i \in DOMAIN wire' : ~Asked(i, id)'
    BY <1>1, <1>2, <2>2, <2>4, <2>5 DEF HostAsksOnce
  <2>6. ASSUME NEW id \in LocalIds, NEW i \in DOMAIN wire', Asked(i, id)'
        PROVE  /\ id < nextLocalId' /\ \A r \in RemoteIds : ~Paired(id, r)'
               /\ \A k \in DOMAIN wire' : Asked(k, id)' => i = k
    BY <1>1, <2>2, <2>4, <2>6 DEF HostAsksOnce
  <2> QED
    BY <2>5, <2>6 DEF HostAsksOnce
<1>4. ASSUME wire # << >>, wire' = Tail(wire)
      PROVE  HostAsksOnce'
  <2>1. 1 \in DOMAIN wire /\ \A i \in DOMAIN wire' : i \in Nat /\ i > 0 /\ i + 1 \in DOMAIN wire
                                                     /\ wire'[i] = wire[i + 1]
    <3>1. wire \in Seq(GoodPart)
      BY <1>1 DEF Traffic
    <3>2. \A i \in DOMAIN wire' : i > 0
      BY <1>4, <3>1, HeadTailProperties, LenProperties
    <3> QED
      BY <1>1, <1>4, <3>2, WireShrinks
  <2>2. ASSUME NEW id \in LocalIds, NEW i \in DOMAIN wire', Asked(i, id)'
        PROVE  \E n \in DOMAIN wire : n = i + 1 /\ Asked(n, id)
    BY <2>1, <2>2 DEF Asked
  <2>3. ASSUME NEW id \in LocalIds, NEW d \in Calls, ToAsk(d, id)'
        PROVE  /\ id < nextLocalId' /\ \A r \in RemoteIds : ~Paired(id, r)'
               /\ \A e \in Calls : ToAsk(e, id)' => d = e
               /\ \A i \in DOMAIN wire' : ~Asked(i, id)'
    <3>1. /\ id < nextLocalId /\ \A r \in RemoteIds : ~Paired(id, r)
          /\ \A e \in Calls : ToAsk(e, id) => d = e
          /\ \A i \in DOMAIN wire : ~Asked(i, id)
      BY <1>2, <2>3 DEF HostAsksOnce
    <3> QED
      BY <1>1, <1>2, <2>1, <2>2, <3>1
  <2>4. ASSUME NEW id \in LocalIds, NEW i \in DOMAIN wire', Asked(i, id)'
        PROVE  /\ id < nextLocalId' /\ \A r \in RemoteIds : ~Paired(id, r)'
               /\ \A k \in DOMAIN wire' : Asked(k, id)' => i = k
    <3>1. PICK n \in DOMAIN wire : n = i + 1 /\ Asked(n, id)
      BY <2>2, <2>4
    <3>2. /\ id < nextLocalId /\ \A r \in RemoteIds : ~Paired(id, r)
          /\ \A k \in DOMAIN wire : Asked(k, id) => n = k
      BY <3>1 DEF HostAsksOnce
    <3>3. ~Asked(1, id)
      BY <2>1, <3>1, <3>2
    <3>4. ASSUME NEW k \in DOMAIN wire', Asked(k, id)' PROVE i = k
      <4>1. PICK m \in DOMAIN wire : m = k + 1 /\ Asked(m, id)
        BY <2>2, <3>4
      <4> QED
        BY <2>1, <3>1, <3>2, <4>1
    <3> QED
      BY <1>1, <3>2, <3>3, <3>4
  <2> QED
    BY <2>3, <2>4 DEF HostAsksOnce
<1> QED
  BY <1>3, <1>4

(* The OPENs of the device that are left keep what is said of them.        *)
LEMMA DeviceAsksStill ==
  ASSUME AdbInv, DeviceAsksOnce, toHost # << >>, toHost' = Tail(toHost),
         UNCHANGED remote,
         \A id \in LocalIds, r \in RemoteIds :
           Paired(id, r)' => Paired(id, r) \/ IsOpenOf(Head(toHost), r)
  PROVE  DeviceAsksOnce'
<1>1. /\ 1 \in DOMAIN toHost /\ toHost[1] = Head(toHost)
      /\ \A i \in DOMAIN toHost' : i \in Nat /\ i > 0 /\ i + 1 \in DOMAIN toHost
                                   /\ toHost'[i] = toHost[i + 1]
  <2>1. Traffic /\ toHost' \in Seq(DeviceMessage)
    BY HeadTailProperties DEF AdbInv, Traffic
  <2>2. \A i \in DOMAIN toHost' : i > 0
    BY <2>1, LenProperties
  <2> QED
    BY <2>1, <2>2, QueueToHostShrinks
<1>2. ASSUME NEW r \in RemoteIds, NEW i \in DOMAIN toHost', IsOpenOf(toHost'[i], r)
      PROVE  /\ r \in DOMAIN remote.streams
             /\ \A id \in LocalIds : ~Paired(id, r)'
             /\ \A k \in DOMAIN toHost' : IsOpenOf(toHost'[k], r) => i = k
  <2>1. PICK n \in DOMAIN toHost : n = i + 1 /\ IsOpenOf(toHost[n], r)
    BY <1>1, <1>2
  <2>2. /\ r \in DOMAIN remote.streams
        /\ \A id \in LocalIds : ~Paired(id, r)
        /\ \A k \in DOMAIN toHost : IsOpenOf(toHost[k], r) => n = k
    BY <2>1 DEF DeviceAsksOnce
  <2>3. ~IsOpenOf(Head(toHost), r)
    BY <1>1, <2>1, <2>2
  <2>4. ASSUME NEW k \in DOMAIN toHost', IsOpenOf(toHost'[k], r) PROVE i = k
    <3>1. PICK m \in DOMAIN toHost : m = k + 1 /\ IsOpenOf(toHost[m], r)
      BY <1>1, <2>4
    <3> QED
      BY <1>1, <2>1, <2>2, <3>1
  <2> QED
    BY <2>2, <2>3, <2>4
<1> QED
  BY <1>2 DEF DeviceAsksOnce

(* No WRTE overtakes the OKAY that opens its stream.                       *)
OkayBeforeData(id, r) ==
  \A i \in DOMAIN toHost : toHost[i] = Msg("WRTE", r, id) =>
    \E k \in 1 .. i - 1 : toHost[k] = Msg("OKAY", r, id)

(* Nor does it when the host takes another message.                        *)
LEMMA OkayStillBeforeData ==
  ASSUME AdbInv, toHost # << >>, toHost' = Tail(toHost), NEW id, NEW r,
         OkayBeforeData(id, r), Head(toHost) # Msg("OKAY", r, id)
  PROVE  OkayBeforeData(id, r)'
<1>1. /\ 1 \in DOMAIN toHost /\ toHost[1] = Head(toHost)
      /\ \A i \in DOMAIN toHost' : i \in Nat /\ i + 1 \in DOMAIN toHost
                                   /\ toHost'[i] = toHost[i + 1]
      /\ \A i \in DOMAIN toHost : i \in Nat /\ i > 0
           /\ (i = 1 \/ (i - 1 \in DOMAIN toHost' /\ toHost'[i - 1] = toHost[i]))
      /\ DOMAIN toHost = 1 .. Len(toHost) /\ Len(toHost) \in Nat
  BY QueueToHostShrinks, LenProperties DEF AdbInv, Traffic
<1>2. ASSUME NEW i \in DOMAIN toHost', toHost'[i] = Msg("WRTE", r, id)
      PROVE  \E k \in 1 .. i - 1 : toHost'[k] = Msg("OKAY", r, id)
  <2>1. PICK n \in DOMAIN toHost : n = i + 1 /\ toHost[n] = Msg("WRTE", r, id)
    BY <1>1, <1>2
  <2>2. PICK k \in 1 .. n - 1 : toHost[k] = Msg("OKAY", r, id)
    BY <2>1 DEF OkayBeforeData
  <2>3. k \in DOMAIN toHost /\ k # 1
    BY <1>1, <2>1, <2>2
  <2>4. k - 1 \in 1 .. i - 1 /\ toHost'[k - 1] = toHost[k]
    BY <1>1, <2>1, <2>2, <2>3
  <2> QED
    BY <2>2, <2>4
<1> QED
  BY <1>2 DEF OkayBeforeData

-----------------------------------------------------------------------------
(* The host takes a message and says nothing.                              *)
LEMMA ListenKeepsAgreement ==
  ASSUME AdbInv, Agreement, UNCHANGED <<nextLocalId, calls, wire, remote>>,
         toHost # << >>, toHost' = Tail(toHost),
         DOMAIN streams' \subseteq DOMAIN streams,
         \A id \in DOMAIN streams' :
           \/ streams'[id] = streams[id]
           \/ /\ Head(toHost) = Msg("OKAY", streams'[id].remoteId, id)
              /\ streams'[id].open /\ streams'[id].remoteId \in RemoteIds,
         \A id \in DOMAIN streams', r \in RemoteIds :
           Head(toHost) = Msg("OKAY", r, id) => streams'[id].open,
         \A id \in DOMAIN streams', r \in RemoteIds : Head(toHost) # Msg("CLSE", r, id),
         \A id \in DOMAIN streams', r \in RemoteIds : Head(toHost) # Msg("WRTE", r, id)
  PROVE  Agreement'
<1>1. Traffic /\ AdbTypeOK /\ DOMAIN streams \subseteq LocalIds
      /\ DOMAIN remote.streams \subseteq RemoteIds
  BY RemoteTypes DEF AdbInv
<1>2. \A m : OnTheWire(m)' <=> OnTheWire(m)
  BY DEF OnTheWire
<1>3. \A m : OnItsWay(m) <=> OnItsWay(m)' \/ m = Head(toHost)
  BY <1>1, QueueToHostShrinks
<1>4. \A id, r : HasPeer(r, id)' <=> HasPeer(r, id)
  BY DEF HasPeer
<1>5. NoNewPair
  <2> SUFFICES ASSUME NEW id \in LocalIds, NEW r \in RemoteIds, Paired(id, r)'
               PROVE  Paired(id, r)
    BY DEF NoNewPair
  <2>1. CASE OpenHere(id)' /\ streams'[id].remoteId = r
    <3>1. id \in DOMAIN streams' /\ id \in DOMAIN streams
      BY <2>1 DEF OpenHere
    <3>2. CASE streams'[id] = streams[id]
      BY <2>1, <3>1, <3>2 DEF Paired, OpenHere
    <3>3. CASE Head(toHost) = Msg("OKAY", streams'[id].remoteId, id)
      BY <1>3, <2>1, <3>3 DEF Paired, StreamCommands
    <3> QED
      BY <3>1, <3>2, <3>3
  <2>2. CASE HasPeer(r, id)' \/ \E k \in StreamCommands : OnTheWire(Msg(k, id, r))'
    BY <1>2, <1>4, <2>2 DEF Paired
  <2>3. CASE \E k \in StreamCommands : OnItsWay(Msg(k, r, id))'
    BY <1>3, <2>3 DEF Paired
  <2>4. CASE \E k \in StreamCommands, c \in Calls : calls'[c].msg = Msg(k, id, r)
    BY <2>4 DEF Paired
  <2> QED
    BY <2>1, <2>2, <2>3, <2>4 DEF Paired
<1>6. PartsAreWhole'
  BY DEF Agreement, PartsAreWhole
<1>7. OpenHasRemote'
  BY DEF Agreement, OpenHasRemote
<1>8. PairsMatch'
  BY <1>1, <1>5, PairsMatchKept DEF Agreement, PairsMatch
<1>9. HostAsksOnce'
  BY <1>1, <1>5, HostAsksKept DEF Agreement
<1>10. DeviceAsksOnce'
  BY <1>5, DeviceAsksStill DEF Agreement, NoNewPair
<1>11. ClosedIsForgotten'
  BY <1>2 DEF Agreement, ClosedIsForgotten
<1>12. OkayComesFirst'
  <2> SUFFICES ASSUME NEW id \in DOMAIN streams', NEW r \in RemoteIds, ~streams'[id].open
               PROVE  /\ HasPeer(r, id)' => OnItsWay(Msg("OKAY", r, id))'
                      /\ ~OnTheWire(Msg("OKAY", id, r))'
                      /\ OkayBeforeData(id, r)'
    BY DEF OkayComesFirst, OkayBeforeData
  <2>1. id \in DOMAIN streams /\ ~streams[id].open /\ Head(toHost) # Msg("OKAY", r, id)
    OBVIOUS
  <2>2. /\ HasPeer(r, id) => OnItsWay(Msg("OKAY", r, id))
        /\ ~OnTheWire(Msg("OKAY", id, r))
        /\ OkayBeforeData(id, r)
    BY <2>1 DEF Agreement, OkayComesFirst, OkayBeforeData
  <2>3. OkayBeforeData(id, r)'
    BY <2>1, <2>2, OkayStillBeforeData
  <2> QED
    BY <1>2, <1>3, <1>4, <2>1, <2>2, <2>3
<1>13. PairsAgree'
  <2> SUFFICES ASSUME NEW id \in LocalIds, NEW r \in RemoteIds, Paired(id, r)',
                      id \in DOMAIN streams'
               PROVE  Agreed(id, r)'
    BY DEF PairsAgree
  <2>1. Agreed(id, r)
    BY <1>5 DEF Agreement, PairsAgree, NoNewPair
  <2> QED
    BY <1>2, <1>3, <1>4, <2>1 DEF Agreed
<1>14. AckIsDue'
  <2> SUFFICES ASSUME NEW r \in DOMAIN remote.streams, remote.streams[r].waiting,
                      remote.streams[r].peer \in DOMAIN streams'
               PROVE  \/ OnItsWay(Msg("WRTE", r, remote.streams[r].peer))'
                      \/ OnTheWire(Msg("OKAY", remote.streams[r].peer, r))'
    BY DEF AckIsDue
  <2>1. r \in RemoteIds /\ remote.streams[r].peer \in DOMAIN streams
    BY <1>1
  <2>2. \/ OnItsWay(Msg("WRTE", r, remote.streams[r].peer))
        \/ OnTheWire(Msg("OKAY", remote.streams[r].peer, r))
    BY <2>1 DEF Agreement, AckIsDue
  <2> QED
    BY <1>2, <1>3, <2>1, <2>2
<1> QED
  BY <1>6, <1>7, <1>8, <1>9, <1>10, <1>11, <1>12, <1>13, <1>14 DEF Agreement

(* The message received is the one its fields say.                         *)
LEMMA MessageIsItsFields ==
  /\ \A m \in AdbMessage : m = Msg(m.command, m.arg0, m.arg1)
  /\ \A k, x, y : /\ Msg(k, x, y).command = k
                  /\ Msg(k, x, y).arg0 = x
                  /\ Msg(k, x, y).arg1 = y
BY DEF AdbMessage, Msg

(* A CNXN, an AUTH, or a message about a stream that is not there.         *)
LEMMA IgnoredKeepsAgreement ==
  ASSUME AdbInv, Agreement, UNCHANGED <<streams, nextLocalId, calls, wire, remote>>,
         toHost # << >>, toHost' = Tail(toHost),
         \/ Head(toHost).command \in {"CNXN", "AUTH"}
         \/ Head(toHost).arg1 \notin DOMAIN streams
         \/ Head(toHost).command = "OKAY" /\ streams[Head(toHost).arg1].open
  PROVE  Agreement'
<1> PICK m : m = Head(toHost)
  OBVIOUS
<1>1. m.command \in {"CNXN", "AUTH"} \/ m.arg1 \notin DOMAIN streams
      \/ (m.command = "OKAY" /\ streams[m.arg1].open)
  OBVIOUS
<1>2. ASSUME NEW k, NEW id \in DOMAIN streams, NEW r, m = Msg(k, r, id)
      PROVE  k \in {"CNXN", "AUTH"} \/ (k = "OKAY" /\ streams[id].open)
  BY <1>1, <1>2, MessageIsItsFields
<1>3. \A id \in DOMAIN streams', r \in RemoteIds : m = Msg("OKAY", r, id) => streams'[id].open
  BY <1>2
<1>4. \A id \in DOMAIN streams', r \in RemoteIds : m # Msg("CLSE", r, id) /\ m # Msg("WRTE", r, id)
  BY <1>2
<1> QED
  BY <1>3, <1>4, ListenKeepsAgreement

(* The host takes a CNXN.                                                  *)
LEMMA OnCnxnKeepsAgreement ==
  ASSUME AdbInv, Agreement, OnCnxn PROVE Agreement'
BY IgnoredKeepsAgreement DEF OnCnxn, Received

(* The host takes an AUTH.                                                 *)
LEMMA OnAuthKeepsAgreement ==
  ASSUME AdbInv, Agreement, OnAuth PROVE Agreement'
BY IgnoredKeepsAgreement DEF OnAuth, Received, hostVars

(* An OKAY opens the stream with the remote id of its pair.                *)
LEMMA OnOkayKeepsAgreement ==
  ASSUME AdbInv, Agreement, OnOkay PROVE Agreement'
<1> PICK m : m = Head(toHost)
  OBVIOUS
<1>1. /\ UNCHANGED <<nextLocalId, calls, wire, remote>> /\ toHost # << >> /\ toHost' = Tail(toHost)
      /\ m.command = "OKAY"
  BY DEF OnOkay, Received
<1>2. m \in DeviceMessage
  BY <1>1, QueueToHostShrinks DEF AdbInv
<1>3. m = Msg("OKAY", m.arg0, m.arg1) /\ m.arg0 \in RemoteIds
  BY <1>1, <1>2, MessageIsItsFields DEF DeviceMessage
<1>4. CASE OpensStream(m.arg1)
  <2> PICK id : id = m.arg1
    OBVIOUS
  <2>1. /\ streams' = [streams EXCEPT ![id] = [remoteId |-> m.arg0, open |-> TRUE]]
        /\ id \in DOMAIN streams
    BY <1>4 DEF OnOkay, OpensStream
  <2>2. /\ DOMAIN streams' = DOMAIN streams
        /\ streams'[id].open /\ streams'[id].remoteId = m.arg0
        /\ \A jd \in DOMAIN streams : jd # id => streams'[jd] = streams[jd]
    BY <2>1
  <2>3. \A jd, r : m = Msg("OKAY", r, jd) => jd = id
    BY MessageIsItsFields
  <2>4. \A jd, r : m # Msg("CLSE", r, jd) /\ m # Msg("WRTE", r, jd)
    BY <1>1, MessageIsItsFields
  <2> QED
    BY <1>1, <1>3, <2>2, <2>3, <2>4, ListenKeepsAgreement
<1>5. CASE ~OpensStream(m.arg1)
  <2>1. UNCHANGED streams
    BY <1>5 DEF OnOkay
  <2>2. m.arg1 \notin DOMAIN streams \/ streams[m.arg1].open
    BY <1>5 DEF OpensStream
  <2> QED
    BY <1>1, <2>1, <2>2, IgnoredKeepsAgreement
<1> QED
  BY <1>4, <1>5

(* A CLSE ends the host's end of the pair.                                 *)
LEMMA OnClseKeepsAgreement ==
  ASSUME AdbInv, Agreement, OnClse PROVE Agreement'
<1> PICK m : m = Head(toHost)
  OBVIOUS
<1>1. /\ UNCHANGED <<nextLocalId, calls, wire, remote>> /\ toHost # << >> /\ toHost' = Tail(toHost)
      /\ m.command = "CLSE" /\ streams' = Without(streams, m.arg1)
  BY DEF OnClse, Received, Forget
<1>2. /\ DOMAIN streams' = DOMAIN streams \ {m.arg1}
      /\ \A id \in DOMAIN streams' : streams'[id] = streams[id]
  BY <1>1 DEF Without
<1>3. \A id \in DOMAIN streams' : \A r :
        m # Msg("OKAY", r, id) /\ m # Msg("CLSE", r, id) /\ m # Msg("WRTE", r, id)
  BY <1>1, <1>2, MessageIsItsFields
<1> QED
  BY <1>1, <1>2, <1>3, ListenKeepsAgreement

-----------------------------------------------------------------------------
(* Nothing that either end speaks of changes.                              *)
LEMMA UnchangedKeepsAgreement ==
  ASSUME Agreement, UNCHANGED <<streams, nextLocalId, calls, wire, toHost, remote>>
  PROVE  Agreement'
<1>1. PartsAreWhole' /\ OpenHasRemote'
  BY DEF Agreement, PartsAreWhole, OpenHasRemote
<1>2. /\ \A id, r : Paired(id, r)' <=> Paired(id, r)
      /\ \A m : (OnItsWay(m)' <=> OnItsWay(m)) /\ (OnTheWire(m)' <=> OnTheWire(m))
      /\ \A id, r : HasPeer(r, id)' <=> HasPeer(r, id)
  BY DEF Paired, OpenHere, HasPeer, OnTheWire, OnItsWay
<1>3. PairsMatch'
  BY <1>2 DEF Agreement, PairsMatch
<1>4. HostAsksOnce'
  BY <1>2 DEF Agreement, HostAsksOnce, ToAsk, Asked
<1>5. DeviceAsksOnce'
  BY <1>2 DEF Agreement, DeviceAsksOnce
<1>6. ClosedIsForgotten'
  BY <1>2 DEF Agreement, ClosedIsForgotten
<1>7. OkayComesFirst'
  BY <1>2 DEF Agreement, OkayComesFirst
<1>8. PairsAgree'
  BY <1>2 DEF Agreement, PairsAgree, Agreed
<1>9. AckIsDue'
  BY <1>2 DEF Agreement, AckIsDue
<1> QED
  BY <1>1, <1>3, <1>4, <1>5, <1>6, <1>7, <1>8, <1>9 DEF Agreement

(* A WRTE for a stream the host has finds it open, and the acknowledgement *)
(* goes to the stream it came from.                                        *)
LEMMA OnWrteKeepsAgreement ==
  ASSUME AdbInv, Agreement, linkUp, OnWrte PROVE Agreement'
<1> PICK m : m = Head(toHost)
  OBVIOUS
<1> PICK id : id = m.arg1
  OBVIOUS
<1>1. /\ UNCHANGED <<streams, nextLocalId, calls, remote>> /\ toHost # << >>
      /\ toHost' = Tail(toHost) /\ m.command = "WRTE"
      /\ (id \in DOMAIN streams /\ SendEmpty(Ack(id))) \/ (id \notin DOMAIN streams /\ UNCHANGED wire)
  BY DEF OnWrte, Received, hostVars
<1>2. m \in DeviceMessage /\ 1 \in DOMAIN toHost /\ toHost[1] = m
      /\ \A n : OnItsWay(n) <=> OnItsWay(n)' \/ n = m
  BY <1>1, QueueToHostShrinks DEF AdbInv
<1>3. CASE id \notin DOMAIN streams
  BY <1>1, <1>3, IgnoredKeepsAgreement
<1>4. CASE id \in DOMAIN streams
  <2> PICK r \in RemoteIds : r = m.arg0
    BY <1>1, <1>2 DEF DeviceMessage
  <2>1. m = Msg("WRTE", r, id) /\ id \in LocalIds
    BY <1>1, <1>2, <1>4, MessageIsItsFields, RemoteTypes DEF DeviceMessage, AdbInv
  <2>2. streams[id].open
    <3>1. SUFFICES ASSUME ~streams[id].open PROVE FALSE
      OBVIOUS
    <3>2. \E k \in 1 .. 1 - 1 : toHost[k] = Msg("OKAY", r, id)
      BY <1>2, <1>4, <2>1, <3>1 DEF Agreement, OkayComesFirst
    <3> QED
      BY <3>2
  <2>3. streams[id].remoteId = r
    <3>1. OnItsWay(Msg("WRTE", r, id))
      BY <1>2, <2>1
    <3>2. Paired(id, r)
      BY <3>1 DEF Paired, StreamCommands
    <3>3. streams[id].remoteId \in RemoteIds
      BY <1>4, <2>2 DEF Agreement, OpenHasRemote
    <3>4. Paired(id, streams[id].remoteId)
      BY <1>4, <2>2 DEF Paired, OpenHere
    <3> QED
      BY <2>1, <3>2, <3>3, <3>4 DEF Agreement, PairsMatch
  <2> PICK ack : ack = Msg("OKAY", id, r)
    OBVIOUS
  <2>4. ack \in HostMessage /\ ack.command = "OKAY" /\ ack.arg0 = id
    BY <2>1, IdsAreNumbers DEF HostMessage, AdbMessage, Msg, Commands
  <2>5. PICK p \in GoodPart : /\ wire' = Append(wire, p) /\ p \in WholePart /\ p.msg = ack
                              /\ p.kind = "header"
    <3>1. SendEmpty(ack)
      BY <1>1, <1>4, <2>3 DEF Ack
    <3>2. wire' = Append(wire, Header(Nobody, ack, 0))
      BY <3>1 DEF SendEmpty, LinkWrite
    <3>3. /\ Header(Nobody, ack, 0) \in GoodPart /\ Header(Nobody, ack, 0) \in WholePart
          /\ Header(Nobody, ack, 0).msg = ack /\ Header(Nobody, ack, 0).kind = "header"
      BY <2>1, <2>4, PartsOfMessages
    <3> QED
      BY <3>2, <3>3
  <2>6. Traffic /\ AdbTypeOK /\ DOMAIN streams \subseteq LocalIds
        /\ DOMAIN remote.streams \subseteq RemoteIds
    BY RemoteTypes DEF AdbInv
  <2>7. \A n : OnTheWire(n)' <=> OnTheWire(n) \/ n = ack
    BY <2>5, <2>6, WireGrows
  <2>8. \A jd, s : (OpenHere(jd)' <=> OpenHere(jd)) /\ (HasPeer(s, jd)' <=> HasPeer(s, jd))
    BY <1>1 DEF OpenHere, HasPeer
  <2>9. NoNewPair
    <3>1. Paired(id, r)
      BY <1>4, <2>2, <2>3 DEF Paired, OpenHere
    <3>2. \A k, jd, s : ack = Msg(k, jd, s) => jd = id /\ s = r
      BY MessageIsItsFields
    <3> SUFFICES ASSUME NEW jd \in LocalIds, NEW s \in RemoteIds, Paired(jd, s)'
                 PROVE  Paired(jd, s)
      BY DEF NoNewPair
    <3>3. CASE OpenHere(jd)' /\ streams'[jd].remoteId = s
      BY <1>1, <2>8, <3>3 DEF Paired
    <3>4. CASE \E k \in StreamCommands : OnTheWire(Msg(k, jd, s))'
      BY <2>7, <3>1, <3>2, <3>4 DEF Paired
    <3>5. CASE \/ HasPeer(s, jd)'
               \/ \E k \in StreamCommands : OnItsWay(Msg(k, s, jd))'
               \/ \E k \in StreamCommands, c \in Calls : calls'[c].msg = Msg(k, jd, s)
      BY <1>1, <1>2, <2>8, <3>5 DEF Paired
    <3> QED
      BY <3>3, <3>4, <3>5 DEF Paired
  <2>10. PartsAreWhole'
    <3>1. \A i \in DOMAIN wire' : wire'[i] \in WholePart
      BY <2>5, <2>6, WireGrows DEF Agreement, PartsAreWhole
    <3> QED
      BY <1>1, <3>1 DEF Agreement, PartsAreWhole
  <2>11. OpenHasRemote'
    BY <1>1 DEF Agreement, OpenHasRemote
  <2>12. PairsMatch'
    BY <1>1, <2>6, <2>9, PairsMatchKept DEF Agreement, PairsMatch
  <2>13. HostAsksOnce'
    BY <1>1, <2>5, <2>9, HostAsksStill DEF Agreement, NoNewPair
  <2>14. DeviceAsksOnce'
    BY <1>1, <2>9, DeviceAsksStill DEF Agreement, NoNewPair
  <2>15. ClosedIsForgotten'
    BY <1>1, <2>4, <2>7, MessageIsItsFields DEF Agreement, ClosedIsForgotten
  <2>16. OkayComesFirst'
    <3> SUFFICES ASSUME NEW jd \in DOMAIN streams, NEW s \in RemoteIds, ~streams[jd].open
                 PROVE  /\ HasPeer(s, jd)' => OnItsWay(Msg("OKAY", s, jd))'
                        /\ ~OnTheWire(Msg("OKAY", jd, s))'
                        /\ OkayBeforeData(jd, s)'
      BY <1>1 DEF OkayComesFirst, OkayBeforeData
    <3>1. /\ HasPeer(s, jd) => OnItsWay(Msg("OKAY", s, jd))
          /\ ~OnTheWire(Msg("OKAY", jd, s))
          /\ OkayBeforeData(jd, s)
      BY DEF Agreement, OkayComesFirst, OkayBeforeData
    <3>2. m # Msg("OKAY", s, jd)
      BY <1>1, MessageIsItsFields
    <3>3. ack # Msg("OKAY", jd, s)
      BY <2>2, <2>4, MessageIsItsFields
    <3>4. OkayBeforeData(jd, s)'
      BY <1>1, <3>1, <3>2, OkayStillBeforeData
    <3> QED
      BY <1>2, <2>7, <2>8, <3>1, <3>2, <3>3, <3>4
  <2>17. PairsAgree'
    <3>1. \A jd, s : m # Msg("CLSE", s, jd)
      BY <1>1, MessageIsItsFields
    <3>2. \A n : OnTheWire(n) => OnTheWire(n)'
      BY <2>7
    <3>3. \A jd, s : OnItsWay(Msg("CLSE", s, jd)) => OnItsWay(Msg("CLSE", s, jd))'
      BY <1>2, <3>1
    <3>4. \A jd, s : Agreed(jd, s) => Agreed(jd, s)'
      BY <1>1, <2>8, <3>2, <3>3 DEF Agreed
    <3> QED
      BY <1>1, <2>9, <3>4 DEF Agreement, PairsAgree, NoNewPair
  <2>18. AckIsDue'
    <3> SUFFICES ASSUME NEW s \in DOMAIN remote.streams, NEW jd \in DOMAIN streams,
                        remote.streams[s].waiting, remote.streams[s].peer = jd
                 PROVE  OnItsWay(Msg("WRTE", s, jd))' \/ OnTheWire(Msg("OKAY", jd, s))'
      BY <1>1 DEF AckIsDue
    <3>1. OnItsWay(Msg("WRTE", s, jd)) \/ OnTheWire(Msg("OKAY", jd, s))
      BY DEF Agreement, AckIsDue
    <3>2. m = Msg("WRTE", s, jd) => s = r /\ jd = id
      BY MessageIsItsFields
    <3> QED
      BY <1>2, <2>7, <3>1, <3>2
  <2> QED
    BY <2>10, <2>11, <2>12, <2>13, <2>14, <2>15, <2>16, <2>17, <2>18 DEF Agreement
<1> QED
  BY <1>3, <1>4

-----------------------------------------------------------------------------
(* The CLSE of the host comes after it forgot the stream.                  *)
LEMMA CloseStreamKeepsAgreement ==
  ASSUME AdbInv, Agreement, linkUp, NEW id \in LocalIds, CloseStream(id)
  PROVE  Agreement'
<1> PICK r : r = streams[id].remoteId
  OBVIOUS
<1> PICK clse : clse = Msg("CLSE", id, r)
  OBVIOUS
<1>1. /\ UNCHANGED <<nextLocalId, calls, toHost, remote>> /\ id \in DOMAIN streams
      /\ streams' = Without(streams, id) /\ SendEmpty(clse)
  BY DEF CloseStream
<1>2. /\ DOMAIN streams' = DOMAIN streams \ {id}
      /\ \A jd \in DOMAIN streams' : streams'[jd] = streams[jd]
  BY <1>1 DEF Without
<1>3. /\ Traffic /\ AdbTypeOK /\ DOMAIN streams \subseteq LocalIds
      /\ DOMAIN remote.streams \subseteq RemoteIds /\ r \in Nat /\ id < nextLocalId
  BY <1>1, RemoteTypes, StreamTypes DEF AdbInv, ToAnnounce
<1>4. clse \in HostMessage /\ clse.command = "CLSE" /\ clse.arg0 = id
  BY <1>3, IdsAreNumbers DEF HostMessage, AdbMessage, Msg, Commands
<1>5. PICK p \in GoodPart : /\ wire' = Append(wire, p) /\ p \in WholePart /\ p.msg = clse
                            /\ p.kind = "header"
  <2>1. wire' = Append(wire, Header(Nobody, clse, 0))
    BY <1>1 DEF SendEmpty, LinkWrite
  <2>2. /\ Header(Nobody, clse, 0) \in GoodPart /\ Header(Nobody, clse, 0) \in WholePart
        /\ Header(Nobody, clse, 0).msg = clse /\ Header(Nobody, clse, 0).kind = "header"
    BY <1>4, PartsOfMessages
  <2> QED
    BY <2>1, <2>2
<1>6. \A n : OnTheWire(n)' <=> OnTheWire(n) \/ n = clse
  BY <1>3, <1>5, WireGrows
<1>7. \A n : OnItsWay(n)' <=> OnItsWay(n)
  BY <1>1 DEF OnItsWay
<1>8. \A jd, s : (OpenHere(jd)' => OpenHere(jd)) /\ (HasPeer(s, jd)' <=> HasPeer(s, jd))
  BY <1>1, <1>2 DEF OpenHere, HasPeer
<1>9. NoNewPair
  <2>1. \A k, jd, s : clse = Msg(k, jd, s) => jd = id /\ s = r
    BY MessageIsItsFields
  <2>2. r \in RemoteIds => Paired(id, r)
    <3>1. r \in RemoteIds => streams[id].open
      BY <1>1, IdsAreNumbers DEF Agreement, OpenHasRemote
    <3> QED
      BY <1>1, <3>1 DEF Paired, OpenHere
  <2> SUFFICES ASSUME NEW jd \in LocalIds, NEW s \in RemoteIds, Paired(jd, s)'
               PROVE  Paired(jd, s)
    BY DEF NoNewPair
  <2>3. CASE OpenHere(jd)' /\ streams'[jd].remoteId = s
    BY <1>2, <1>8, <2>3 DEF Paired, OpenHere
  <2>4. CASE \E k \in StreamCommands : OnTheWire(Msg(k, jd, s))'
    BY <1>6, <2>1, <2>2, <2>4 DEF Paired
  <2>5. CASE \/ HasPeer(s, jd)'
             \/ \E k \in StreamCommands : OnItsWay(Msg(k, s, jd))'
             \/ \E k \in StreamCommands, c \in Calls : calls'[c].msg = Msg(k, jd, s)
    BY <1>1, <1>7, <1>8, <2>5 DEF Paired
  <2> QED
    BY <2>3, <2>4, <2>5 DEF Paired
<1>10. PartsAreWhole'
  <2>1. \A i \in DOMAIN wire' : wire'[i] \in WholePart
    BY <1>3, <1>5, WireGrows DEF Agreement, PartsAreWhole
  <2> QED
    BY <1>1, <2>1 DEF Agreement, PartsAreWhole
<1>11. OpenHasRemote'
  BY <1>2 DEF Agreement, OpenHasRemote
<1>12. PairsMatch'
  BY <1>1, <1>3, <1>9, PairsMatchKept DEF Agreement, PairsMatch
<1>13. HostAsksOnce'
  BY <1>1, <1>5, <1>9, HostAsksStill DEF Agreement, NoNewPair
<1>14. DeviceAsksOnce'
  BY <1>1, <1>9 DEF Agreement, DeviceAsksOnce, NoNewPair
<1>15. ClosedIsForgotten'
  <2> SUFFICES ASSUME NEW jd \in LocalIds, NEW s \in RemoteIds, OnTheWire(Msg("CLSE", jd, s))'
               PROVE  jd \notin DOMAIN streams' /\ jd < nextLocalId
    BY <1>1 DEF ClosedIsForgotten
  <2>1. OnTheWire(Msg("CLSE", jd, s)) \/ jd = id
    BY <1>6, MessageIsItsFields
  <2> QED
    BY <1>2, <1>3, <2>1 DEF Agreement, ClosedIsForgotten
<1>16. OkayComesFirst'
  <2>1. \A jd, s : clse # Msg("OKAY", jd, s)
    BY MessageIsItsFields
  <2> SUFFICES ASSUME NEW jd \in DOMAIN streams', NEW s \in RemoteIds, ~streams'[jd].open
               PROVE  /\ HasPeer(s, jd)' => OnItsWay(Msg("OKAY", s, jd))'
                      /\ ~OnTheWire(Msg("OKAY", jd, s))'
                      /\ OkayBeforeData(jd, s)
    BY <1>1 DEF OkayComesFirst, OkayBeforeData
  <2>2. /\ HasPeer(s, jd) => OnItsWay(Msg("OKAY", s, jd))
        /\ ~OnTheWire(Msg("OKAY", jd, s))
        /\ OkayBeforeData(jd, s)
    BY <1>2 DEF Agreement, OkayComesFirst, OkayBeforeData
  <2> QED
    BY <1>6, <1>7, <1>8, <2>1, <2>2
<1>17. PairsAgree'
  <2>1. \A jd, s : Agreed(jd, s) => Agreed(jd, s)'
    BY <1>1, <1>6, <1>7, <1>8 DEF Agreed
  <2> QED
    BY <1>2, <1>9, <2>1 DEF Agreement, PairsAgree, NoNewPair
<1>18. AckIsDue'
  <2> SUFFICES ASSUME NEW s \in DOMAIN remote.streams, NEW jd \in DOMAIN streams,
                      remote.streams[s].waiting, remote.streams[s].peer = jd
               PROVE  OnItsWay(Msg("WRTE", s, jd))' \/ OnTheWire(Msg("OKAY", jd, s))'
    BY <1>1, <1>2 DEF AckIsDue
  <2>1. OnItsWay(Msg("WRTE", s, jd)) \/ OnTheWire(Msg("OKAY", jd, s))
    BY DEF Agreement, AckIsDue
  <2> QED
    BY <1>6, <1>7, <2>1
<1> QED
  BY <1>10, <1>11, <1>12, <1>13, <1>14, <1>15, <1>16, <1>17, <1>18 DEF Agreement

(* The host accepts a stream of the device: an id that is in no pair is    *)
(* paired with the one that the device keeps for it.                       *)
LEMMA OnOpenKeepsAgreement ==
  ASSUME AdbInv, Agreement, linkUp, OnOpen
  PROVE  Agreement'
<1> PICK m : m = Head(toHost)
  OBVIOUS
<1> PICK id : id = nextLocalId
  OBVIOUS
<1>1. /\ UNCHANGED <<calls, remote>> /\ toHost # << >> /\ toHost' = Tail(toHost)
      /\ m.command = "OPEN" /\ id \in LocalIds /\ nextLocalId' = id + 1
      /\ streams' = With(streams, id, [remoteId |-> m.arg0, open |-> TRUE])
      /\ SendEmpty(Msg("OKAY", id, m.arg0))
  BY DEF OnOpen, Received
<1>2. m \in DeviceMessage /\ 1 \in DOMAIN toHost /\ toHost[1] = m
      /\ \A n : OnItsWay(n) <=> OnItsWay(n)' \/ n = m
  BY <1>1, QueueToHostShrinks DEF AdbInv
<1> PICK r \in RemoteIds : r = m.arg0
  BY <1>1, <1>2 DEF DeviceMessage
<1> PICK ack : ack = Msg("OKAY", id, r)
  OBVIOUS
<1>3. IsOpenOf(m, r) /\ \A s \in RemoteIds : IsOpenOf(m, s) => s = r
  BY <1>1 DEF IsOpenOf
<1>4. /\ Traffic /\ AdbTypeOK /\ DOMAIN streams \subseteq LocalIds
      /\ DOMAIN remote.streams \subseteq RemoteIds /\ id \in Nat /\ r \in Nat
      /\ \A jd \in LocalIds : jd < id => jd < id + 1 /\ jd # id
      /\ id < id + 1
  BY <1>1, RemoteTypes, IdsAreNumbers DEF AdbInv
<1>5. /\ DOMAIN streams' = DOMAIN streams \cup {id}
      /\ streams'[id].remoteId = r /\ streams'[id].open
      /\ \A jd \in DOMAIN streams : streams'[jd] = streams[jd] /\ jd # id
  <2>1. \A jd \in DOMAIN streams : jd # id
    BY <1>4 DEF AdbInv, ToAnnounce
  <2> QED
    BY <1>1, <2>1 DEF With
<1>6. r \in DOMAIN remote.streams /\ \A jd \in LocalIds : ~Paired(jd, r)
  BY <1>2, <1>3 DEF Agreement, DeviceAsksOnce
<1>7. \A s \in RemoteIds : ~Paired(id, s)
  BY <1>1, <1>4 DEF Agreement, PairsMatch
<1>8. ack \in HostMessage /\ ack.command = "OKAY" /\ ack.arg0 = id
  BY <1>1, <1>4 DEF HostMessage, AdbMessage, Msg, Commands
<1>9. PICK p \in GoodPart : /\ wire' = Append(wire, p) /\ p \in WholePart /\ p.msg = ack
                            /\ p.kind = "header"
  <2>1. wire' = Append(wire, Header(Nobody, ack, 0))
    BY <1>1 DEF SendEmpty, LinkWrite
  <2>2. /\ Header(Nobody, ack, 0) \in GoodPart /\ Header(Nobody, ack, 0) \in WholePart
        /\ Header(Nobody, ack, 0).msg = ack /\ Header(Nobody, ack, 0).kind = "header"
    BY <1>1, <1>8, PartsOfMessages
  <2> QED
    BY <2>1, <2>2
<1>10. \A n : OnTheWire(n)' <=> OnTheWire(n) \/ n = ack
  BY <1>4, <1>9, WireGrows
<1>11. \A jd, s : HasPeer(s, jd)' <=> HasPeer(s, jd)
  BY <1>1 DEF HasPeer
<1>12. \A k, jd, s : ack = Msg(k, jd, s) => k = "OKAY" /\ jd = id /\ s = r
  BY MessageIsItsFields
<1>13. \A k, jd, s : m = Msg(k, s, jd) => k = "OPEN"
  BY <1>1, MessageIsItsFields
<1>14. \A jd \in LocalIds, s \in RemoteIds :
         Paired(jd, s)' => Paired(jd, s) \/ (jd = id /\ s = r)
  <2> SUFFICES ASSUME NEW jd \in LocalIds, NEW s \in RemoteIds, Paired(jd, s)'
               PROVE  Paired(jd, s) \/ (jd = id /\ s = r)
    OBVIOUS
  <2>1. CASE OpenHere(jd)' /\ streams'[jd].remoteId = s
    BY <1>5, <2>1 DEF Paired, OpenHere
  <2>2. CASE \E k \in StreamCommands : OnTheWire(Msg(k, jd, s))'
    BY <1>10, <1>12, <2>2 DEF Paired
  <2>3. CASE \/ HasPeer(s, jd)'
             \/ \E k \in StreamCommands : OnItsWay(Msg(k, s, jd))'
             \/ \E k \in StreamCommands, c \in Calls : calls'[c].msg = Msg(k, jd, s)
    BY <1>1, <1>2, <1>11, <2>3 DEF Paired
  <2> QED
    BY <2>1, <2>2, <2>3 DEF Paired
<1>15. PartsAreWhole'
  <2>1. \A i \in DOMAIN wire' : wire'[i] \in WholePart
    BY <1>4, <1>9, WireGrows DEF Agreement, PartsAreWhole
  <2> QED
    BY <1>1, <2>1 DEF Agreement, PartsAreWhole
<1>16. OpenHasRemote'
  BY <1>5 DEF Agreement, OpenHasRemote
<1>17. PairsMatch'
  <2>1. \A jd \in LocalIds, s \in RemoteIds : Paired(jd, s)' => jd < nextLocalId' /\ s < remote'.nextId
    BY <1>1, <1>4, <1>6, <1>14 DEF Agreement, PairsMatch
  <2>2. ASSUME NEW jd \in LocalIds, NEW kd \in LocalIds, NEW s \in RemoteIds, NEW t \in RemoteIds,
               Paired(jd, s)', Paired(kd, t)'
        PROVE  jd = kd <=> s = t
    <3>1. /\ Paired(jd, s) \/ (jd = id /\ s = r)
          /\ Paired(kd, t) \/ (kd = id /\ t = r)
      BY <1>14, <2>2
    <3>2. Paired(jd, s) /\ Paired(kd, t) => (jd = kd <=> s = t)
      BY DEF Agreement, PairsMatch
    <3> QED
      BY <1>6, <1>7, <3>1, <3>2
  <2>3. \A s \in DOMAIN remote'.streams : s < remote'.nextId
    BY <1>1 DEF Agreement, PairsMatch
  <2> QED
    BY <2>1, <2>2, <2>3 DEF PairsMatch
<1>18. HostAsksOnce'
  BY <1>1, <1>9, <1>14, HostAsksStill DEF Agreement
<1>19. DeviceAsksOnce'
  BY <1>1, <1>3, <1>14, DeviceAsksStill DEF Agreement
<1>20. ClosedIsForgotten'
  <2> SUFFICES ASSUME NEW jd \in LocalIds, NEW s \in RemoteIds, OnTheWire(Msg("CLSE", jd, s))'
               PROVE  jd \notin DOMAIN streams' /\ jd < nextLocalId'
    BY DEF ClosedIsForgotten
  <2>1. OnTheWire(Msg("CLSE", jd, s))
    BY <1>10, <1>12
  <2> QED
    BY <1>1, <1>4, <1>5, <2>1 DEF Agreement, ClosedIsForgotten
<1>21. OkayComesFirst'
  <2> SUFFICES ASSUME NEW jd \in DOMAIN streams', NEW s \in RemoteIds, ~streams'[jd].open
               PROVE  /\ HasPeer(s, jd)' => OnItsWay(Msg("OKAY", s, jd))'
                      /\ ~OnTheWire(Msg("OKAY", jd, s))'
                      /\ OkayBeforeData(jd, s)'
    BY DEF OkayComesFirst, OkayBeforeData
  <2>1. jd \in DOMAIN streams /\ jd # id /\ ~streams[jd].open
    BY <1>5
  <2>2. /\ HasPeer(s, jd) => OnItsWay(Msg("OKAY", s, jd))
        /\ ~OnTheWire(Msg("OKAY", jd, s))
        /\ OkayBeforeData(jd, s)
    BY <2>1 DEF Agreement, OkayComesFirst, OkayBeforeData
  <2>3. OkayBeforeData(jd, s)'
    BY <1>1, <1>13, <2>2, OkayStillBeforeData
  <2> QED
    BY <1>2, <1>10, <1>11, <1>12, <1>13, <2>1, <2>2, <2>3
<1>22. PairsAgree'
  <2> SUFFICES ASSUME NEW jd \in LocalIds, NEW s \in RemoteIds, Paired(jd, s)',
                      jd \in DOMAIN streams'
               PROVE  Agreed(jd, s)'
    BY DEF PairsAgree
  <2>1. CASE Paired(jd, s)
    <3>1. Agreed(jd, s)
      BY <1>5, <1>7, <2>1 DEF Agreement, PairsAgree
    <3>2. OnItsWay(Msg("CLSE", s, jd)) => OnItsWay(Msg("CLSE", s, jd))'
      BY <1>2, <1>13
    <3>3. OnTheWire(Msg("OKAY", jd, s)) => OnTheWire(Msg("OKAY", jd, s))'
      BY <1>10
    <3> QED
      BY <1>1, <1>11, <3>1, <3>2, <3>3 DEF Agreed
  <2>2. CASE jd = id /\ s = r
    BY <1>1, <1>6, <1>10, <2>2 DEF Agreed
  <2> QED
    BY <1>14, <2>1, <2>2
<1>23. AckIsDue'
  <2> SUFFICES ASSUME NEW s \in DOMAIN remote.streams, NEW jd \in DOMAIN streams',
                      remote.streams[s].waiting, remote.streams[s].peer = jd
               PROVE  OnItsWay(Msg("WRTE", s, jd))' \/ OnTheWire(Msg("OKAY", jd, s))'
    BY <1>1 DEF AckIsDue
  <2>1. Paired(jd, s) /\ s \in RemoteIds
    BY <1>4 DEF Paired, HasPeer
  <2>2. jd \in DOMAIN streams
    BY <1>5, <1>7, <2>1
  <2>3. OnItsWay(Msg("WRTE", s, jd)) \/ OnTheWire(Msg("OKAY", jd, s))
    BY <2>2 DEF Agreement, AckIsDue
  <2> QED
    BY <1>2, <1>10, <1>13, <2>3
<1> QED
  BY <1>15, <1>16, <1>17, <1>18, <1>19, <1>20, <1>21, <1>22, <1>23 DEF Agreement

-----------------------------------------------------------------------------
(* The device said one thing more, or nothing.                             *)
Says(m) == Replies(<<m>>) \/ UNCHANGED toHost

(* What is on its way then: the OPENs keep what is said of them, and data  *)
(* still follows the OKAY of its stream.                                   *)
LEMMA SaidAsksNothing ==
  ASSUME AdbInv, DeviceAsksOnce, NEW m \in DeviceMessage, Says(m), m.command # "OPEN",
         \A r \in RemoteIds, i \in DOMAIN toHost : IsOpenOf(toHost[i], r) =>
           r \in DOMAIN remote'.streams /\ \A id \in LocalIds : ~Paired(id, r)'
  PROVE  DeviceAsksOnce'
<1>1. ASSUME NEW r \in RemoteIds, NEW i \in DOMAIN toHost', IsOpenOf(toHost'[i], r)
      PROVE  i \in DOMAIN toHost /\ IsOpenOf(toHost[i], r)
  <2>1. CASE UNCHANGED toHost
    BY <1>1, <2>1
  <2>2. CASE Replies(<<m>>)
    <3>1. /\ \A n \in DOMAIN toHost : toHost'[n] = toHost[n]
          /\ \A n \in DOMAIN toHost' : n = Len(toHost) + 1 \/ n \in DOMAIN toHost
          /\ toHost'[Len(toHost) + 1] = m
      BY <2>2, QueueToHostGrows DEF AdbInv
    <3>2. ~IsOpenOf(m, r)
      BY DEF IsOpenOf
    <3> QED
      BY <1>1, <3>1, <3>2
  <2> QED
    BY <2>1, <2>2 DEF Says
<1> QED
  BY <1>1 DEF DeviceAsksOnce

(* A WRTE is said only after the OKAY of its stream.                       *)
LEMMA SaidAfterOkay ==
  ASSUME AdbInv, NEW id, NEW r, OkayBeforeData(id, r), NEW m \in DeviceMessage, Says(m),
         m = Msg("WRTE", r, id) => OnItsWay(Msg("OKAY", r, id))
  PROVE  OkayBeforeData(id, r)'
<1>1. CASE UNCHANGED toHost
  BY <1>1 DEF OkayBeforeData
<1>2. CASE Replies(<<m>>)
  <2>1. /\ \A i \in DOMAIN toHost : toHost'[i] = toHost[i] /\ i \in 1 .. Len(toHost)
        /\ \A i \in DOMAIN toHost' : i = Len(toHost) + 1 \/ i \in DOMAIN toHost
        /\ toHost'[Len(toHost) + 1] = m /\ Len(toHost) \in Nat
        /\ DOMAIN toHost = 1 .. Len(toHost)
    BY <1>2, QueueToHostGrows DEF AdbInv
  <2>2. ASSUME NEW i \in DOMAIN toHost', toHost'[i] = Msg("WRTE", r, id)
        PROVE  \E k \in 1 .. i - 1 : toHost'[k] = Msg("OKAY", r, id)
    <3>1. CASE i \in DOMAIN toHost
      <4>1. PICK k \in 1 .. i - 1 : toHost[k] = Msg("OKAY", r, id)
        BY <2>1, <2>2, <3>1 DEF OkayBeforeData
      <4>2. k \in DOMAIN toHost
        BY <2>1, <3>1, <4>1
      <4> QED
        BY <2>1, <4>1, <4>2
    <3>2. CASE i = Len(toHost) + 1
      <4>1. OnItsWay(Msg("OKAY", r, id))
        BY <2>1, <2>2, <3>2
      <4>2. PICK k \in DOMAIN toHost : toHost[k] = Msg("OKAY", r, id)
        BY <4>1 DEF OnItsWay
      <4>3. k \in 1 .. i - 1 /\ toHost'[k] = toHost[k]
        BY <2>1, <3>2, <4>2
      <4> QED
        BY <4>2, <4>3
    <3> QED
      BY <2>1, <3>1, <3>2
  <2> QED
    BY <2>2 DEF OkayBeforeData
<1> QED
  BY <1>1, <1>2 DEF Says

(* What was said is on its way, with all that was.                         *)
LEMMA SaidIsOnItsWay ==
  ASSUME AdbInv, NEW m \in DeviceMessage, Says(m)
  PROVE  /\ \A n : OnItsWay(n) => OnItsWay(n)'
         /\ \A n : OnItsWay(n)' => OnItsWay(n) \/ n = m
         /\ Replies(<<m>>) => OnItsWay(m)'
<1>1. CASE UNCHANGED toHost /\ ~Replies(<<m>>)
  BY <1>1 DEF OnItsWay
<1>2. CASE Replies(<<m>>)
  BY <1>2, QueueToHostGrows DEF AdbInv
<1> QED
  BY <1>1, <1>2 DEF Says

(* The part the device took, if it took one, is gone from the wire.        *)
Takes == UNCHANGED wire \/ (wire # << >> /\ wire' = Tail(wire))

(* Parts that are left are whole, and ask once.                            *)
LEMMA TakenFromTheWire ==
  ASSUME AdbInv, Agreement, Takes, UNCHANGED calls, nextLocalId' = nextLocalId
  PROVE  /\ \A n : OnTheWire(n)' => OnTheWire(n)
         /\ \A n : OnTheWire(n) => OnTheWire(n)' \/ (wire # << >> /\ wire' = Tail(wire)
                                                     /\ n = Head(wire).msg)
         /\ PartsAreWhole'
         /\ NoNewPair => HostAsksOnce'
<1>1. CASE UNCHANGED wire
  <2>1. \A n : OnTheWire(n)' <=> OnTheWire(n)
    BY <1>1 DEF OnTheWire
  <2>2. PartsAreWhole'
    BY <1>1 DEF Agreement, PartsAreWhole
  <2>3. NoNewPair => HostAsksOnce'
    BY <1>1, HostAsksKept DEF AdbInv, Agreement
  <2> QED
    BY <2>1, <2>2, <2>3
<1>2. CASE wire # << >> /\ wire' = Tail(wire)
  <2>1. /\ \A n : OnTheWire(n) <=> OnTheWire(n)' \/ n = Head(wire).msg
        /\ \A i \in DOMAIN wire' : i \in Nat /\ i + 1 \in DOMAIN wire /\ wire'[i] = wire[i + 1]
    BY <1>2, WireShrinks DEF AdbInv
  <2>2. PartsAreWhole'
    BY <2>1 DEF Agreement, PartsAreWhole
  <2>3. NoNewPair => HostAsksOnce'
    BY <1>2, HostAsksStill DEF Agreement, NoNewPair
  <2> QED
    BY <1>2, <2>1, <2>2, <2>3
<1> QED
  BY <1>1, <1>2 DEF Takes

(* The device answers and keeps its streams as they are.                   *)
LEMMA AnswerKeepsAgreement ==
  ASSUME AdbInv, Agreement, UNCHANGED <<streams, nextLocalId, calls>>,
         remote'.streams = remote.streams, remote'.nextId = remote.nextId,
         Takes, wire # << >> /\ wire' = Tail(wire) =>
                  \A id \in LocalIds, r \in DOMAIN remote.streams : Head(wire).msg # Msg("OKAY", id, r),
         NEW m \in DeviceMessage, Says(m), m.command \notin {"OPEN", "WRTE"},
         Replies(<<m>>) => \A k \in StreamCommands, id \in LocalIds, r \in RemoteIds :
                             m = Msg(k, r, id) => Paired(id, r)
  PROVE  Agreement'
<1>1. /\ AdbTypeOK /\ DOMAIN streams \subseteq LocalIds
      /\ DOMAIN remote.streams \subseteq RemoteIds
  BY RemoteTypes DEF AdbInv
<1>2. /\ \A n : OnTheWire(n)' => OnTheWire(n)
      /\ \A n : OnTheWire(n) => OnTheWire(n)' \/ (wire # << >> /\ wire' = Tail(wire)
                                                  /\ n = Head(wire).msg)
      /\ PartsAreWhole'
      /\ NoNewPair => HostAsksOnce'
  BY TakenFromTheWire
<1>3. /\ \A n : OnItsWay(n) => OnItsWay(n)'
      /\ \A n : OnItsWay(n)' => OnItsWay(n) \/ n = m
  BY SaidIsOnItsWay
<1>4. \A id, r : (OpenHere(id)' <=> OpenHere(id)) /\ (HasPeer(r, id)' <=> HasPeer(r, id))
  BY DEF OpenHere, HasPeer
<1>5. \A id \in LocalIds, r \in DOMAIN remote.streams :
        OnTheWire(Msg("OKAY", id, r)) => OnTheWire(Msg("OKAY", id, r))'
  BY <1>2
<1>6. NoNewPair
  <2> SUFFICES ASSUME NEW id \in LocalIds, NEW r \in RemoteIds, Paired(id, r)'
               PROVE  Paired(id, r)
    BY DEF NoNewPair
  <2>1. CASE \E k \in StreamCommands : OnItsWay(Msg(k, r, id))'
    <3>1. PICK k \in StreamCommands : OnItsWay(Msg(k, r, id))'
      BY <2>1
    <3>2. CASE OnItsWay(Msg(k, r, id))
      BY <3>2 DEF Paired
    <3>3. CASE ~OnItsWay(Msg(k, r, id))
      <4>1. m = Msg(k, r, id) /\ ~UNCHANGED toHost
        BY <1>3, <3>1, <3>3 DEF OnItsWay
      <4> QED
        BY <4>1 DEF Says
    <3> QED
      BY <3>2, <3>3
  <2>2. CASE \/ OpenHere(id)' /\ streams'[id].remoteId = r
             \/ HasPeer(r, id)'
             \/ \E k \in StreamCommands : OnTheWire(Msg(k, id, r))'
             \/ \E k \in StreamCommands, c \in Calls : calls'[c].msg = Msg(k, id, r)
    BY <1>2, <1>4, <2>2 DEF Paired
  <2> QED
    BY <2>1, <2>2 DEF Paired
<1>7. OpenHasRemote'
  BY DEF Agreement, OpenHasRemote
<1>8. PairsMatch'
  BY <1>1, <1>6, PairsMatchKept DEF Agreement, PairsMatch
<1>9. DeviceAsksOnce'
  <2>1. \A r \in RemoteIds, i \in DOMAIN toHost : IsOpenOf(toHost[i], r) =>
           r \in DOMAIN remote'.streams /\ \A id \in LocalIds : ~Paired(id, r)'
    BY <1>6 DEF Agreement, DeviceAsksOnce, NoNewPair
  <2> QED
    BY <2>1, SaidAsksNothing DEF Agreement
<1>10. ClosedIsForgotten'
  BY <1>2 DEF Agreement, ClosedIsForgotten
<1>11. OkayComesFirst'
  <2> SUFFICES ASSUME NEW id \in DOMAIN streams, NEW r \in RemoteIds, ~streams[id].open
               PROVE  /\ HasPeer(r, id)' => OnItsWay(Msg("OKAY", r, id))'
                      /\ ~OnTheWire(Msg("OKAY", id, r))'
                      /\ OkayBeforeData(id, r)'
    BY DEF OkayComesFirst, OkayBeforeData
  <2>1. /\ HasPeer(r, id) => OnItsWay(Msg("OKAY", r, id))
        /\ ~OnTheWire(Msg("OKAY", id, r))
        /\ OkayBeforeData(id, r)
    BY DEF Agreement, OkayComesFirst, OkayBeforeData
  <2>2. OkayBeforeData(id, r)'
    <3>1. m # Msg("WRTE", r, id)
      BY MessageIsItsFields
    <3> QED
      BY <2>1, <3>1, SaidAfterOkay
  <2> QED
    BY <1>2, <1>3, <1>4, <2>1, <2>2
<1>12. PairsAgree'
  <2>1. \A id \in LocalIds, r \in RemoteIds : Agreed(id, r) => Agreed(id, r)'
    BY <1>3, <1>4, <1>5 DEF Agreed
  <2> QED
    BY <1>6, <2>1 DEF Agreement, PairsAgree, NoNewPair
<1>13. AckIsDue'
  <2> SUFFICES ASSUME NEW r \in DOMAIN remote.streams, NEW id \in DOMAIN streams,
                      remote.streams[r].waiting, remote.streams[r].peer = id
               PROVE  OnItsWay(Msg("WRTE", r, id))' \/ OnTheWire(Msg("OKAY", id, r))'
    BY DEF AckIsDue
  <2>1. OnItsWay(Msg("WRTE", r, id)) \/ OnTheWire(Msg("OKAY", id, r))
    BY DEF Agreement, AckIsDue
  <2> QED
    BY <1>1, <1>3, <1>5, <2>1
<1> QED
  BY <1>2, <1>6, <1>7, <1>8, <1>9, <1>10, <1>11, <1>12, <1>13 DEF Agreement

(* An AUTH names no stream.                                                *)
LEMMA DeviceAsksAuthKeepsAgreement ==
  ASSUME AdbInv, Agreement, DeviceAsksAuth
  PROVE  Agreement'
<1> PICK m : m = Msg("AUTH", 1, 0)
  OBVIOUS
<1>1. /\ UNCHANGED <<streams, nextLocalId, calls, remote, wire>> /\ Replies(<<m>>)
  BY DEF DeviceAsksAuth, DeviceSends, hostVars
<1>2. m \in DeviceMessage /\ m.command = "AUTH"
  BY DEF DeviceMessage, AdbMessage, Msg, Commands
<1>3. \A k \in StreamCommands : \A id, r : m # Msg(k, r, id)
  BY <1>2, MessageIsItsFields DEF StreamCommands
<1>4. Takes /\ Says(m) /\ (wire # << >> /\ wire' = Tail(wire) => wire' = wire)
  BY <1>1 DEF Takes, Says
<1>5. ~(wire # << >> /\ wire' = Tail(wire))
  <2>1. wire \in Seq(GoodPart)
    BY DEF AdbInv, Traffic
  <2>2. wire # << >> => Len(Tail(wire)) # Len(wire)
    BY <2>1, HeadTailProperties, LenProperties, EmptySeq
  <2> QED
    BY <1>1, <2>2
<1> QED
  BY <1>1, <1>2, <1>3, <1>4, <1>5, AnswerKeepsAgreement

-----------------------------------------------------------------------------
(* What the device says of its own accord leaves the host and the wire.    *)
LEMMA SendsSays ==
  ASSUME AdbInv, Agreement, NEW m \in DeviceMessage, DeviceSends(m)
  PROVE  /\ UNCHANGED <<streams, nextLocalId, calls, wire>> /\ Replies(<<m>>) /\ Says(m)
         /\ \A n : OnItsWay(n) => OnItsWay(n)'
         /\ \A n : OnItsWay(n)' => OnItsWay(n) \/ n = m
         /\ OnItsWay(m)'
         /\ \A n : OnTheWire(n)' <=> OnTheWire(n)
         /\ \A id : OpenHere(id)' <=> OpenHere(id)
         /\ PartsAreWhole' /\ OpenHasRemote'
         /\ NoNewPair => HostAsksOnce'
         /\ ClosedIsForgotten'
<1>1. UNCHANGED <<streams, nextLocalId, calls, wire>> /\ Replies(<<m>>) /\ Says(m)
  BY DEF DeviceSends, Says, hostVars
<1>2. /\ \A n : OnItsWay(n) => OnItsWay(n)'
      /\ \A n : OnItsWay(n)' => OnItsWay(n) \/ n = m
      /\ OnItsWay(m)'
  BY <1>1, SaidIsOnItsWay
<1>3. \A n : OnTheWire(n)' <=> OnTheWire(n)
  BY <1>1 DEF OnTheWire
<1>4. PartsAreWhole' /\ OpenHasRemote'
  BY <1>1 DEF Agreement, PartsAreWhole, OpenHasRemote
<1>5. NoNewPair => HostAsksOnce'
  BY <1>1, HostAsksKept DEF AdbInv, Agreement
<1>6. ClosedIsForgotten'
  BY <1>1, <1>3 DEF Agreement, ClosedIsForgotten
<1>7. \A id : OpenHere(id)' <=> OpenHere(id)
  BY <1>1 DEF OpenHere
<1> QED
  BY <1>1, <1>2, <1>3, <1>4, <1>5, <1>6, <1>7

(* The device asks for a stream under an id that is in no pair.            *)
LEMMA DeviceOpensKeepsAgreement ==
  ASSUME AdbInv, Agreement, DeviceOpens
  PROVE  Agreement'
<1> PICK r : r = remote.nextId
  OBVIOUS
<1> PICK m : m = Msg("OPEN", r, NoId)
  OBVIOUS
<1>1. /\ r <= MaxStreams /\ DeviceSends(m)
      /\ remote' = [remote EXCEPT !.nextId = @ + 1,
                      !.streams = With(@, r, [peer |-> NoId, waiting |-> FALSE])]
  BY DEF DeviceOpens
<1>2. /\ AdbTypeOK /\ DOMAIN streams \subseteq LocalIds
      /\ DOMAIN remote.streams \subseteq RemoteIds /\ r \in Nat /\ remote \in Device
  BY RemoteTypes, DeviceTypes DEF AdbInv
<1>3. r \in RemoteIds
  BY <1>1, <1>2, IdsAreNumbers, DeviceTypes DEF RemoteIds, Device
<1>4. /\ DOMAIN remote'.streams = DOMAIN remote.streams \cup {r}
      /\ remote'.streams[r].peer = NoId /\ ~remote'.streams[r].waiting
      /\ remote'.nextId = remote.nextId + 1
      /\ \A s \in DOMAIN remote.streams : remote'.streams[s] = remote.streams[s] /\ s # r
                                          /\ s < r
  <2>1. \A s \in DOMAIN remote.streams : s < r /\ s # r
    BY <1>2, IdsAreNumbers DEF Agreement, PairsMatch
  <2> QED
    BY <1>1, <1>2, <2>1 DEF With, Device
<1>5. m \in DeviceMessage /\ m.command = "OPEN"
  BY <1>3, IdsAreNumbers DEF DeviceMessage, AdbMessage, Msg, Commands
<1>6. /\ UNCHANGED <<streams, nextLocalId, calls, wire>> /\ Replies(<<m>>) /\ Says(m)
      /\ \A n : OnItsWay(n) => OnItsWay(n)'
      /\ \A n : OnItsWay(n)' => OnItsWay(n) \/ n = m
      /\ \A n : OnTheWire(n)' <=> OnTheWire(n)
      /\ \A id : OpenHere(id)' <=> OpenHere(id)
      /\ PartsAreWhole' /\ OpenHasRemote'
      /\ NoNewPair => HostAsksOnce'
      /\ ClosedIsForgotten'
  BY <1>1, <1>5, SendsSays
<1>7. \A id \in LocalIds : \A s : HasPeer(s, id)' <=> HasPeer(s, id)
  BY <1>4, IdsAreNumbers DEF HasPeer
<1>8. \A k \in StreamCommands : \A id, s : m # Msg(k, s, id)
  BY <1>5, MessageIsItsFields DEF StreamCommands
<1>9. NoNewPair
  <2> SUFFICES ASSUME NEW id \in LocalIds, NEW s \in RemoteIds, Paired(id, s)'
               PROVE  Paired(id, s)
    BY DEF NoNewPair
  <2>1. \A k \in StreamCommands : OnItsWay(Msg(k, s, id))' => OnItsWay(Msg(k, s, id))
    BY <1>6, <1>8
  <2> QED
    BY <1>6, <1>7, <2>1 DEF Paired
<1>10. PairsMatch'
  <2>1. \A s \in DOMAIN remote'.streams : s < remote'.nextId
    <3>1. \A s \in DOMAIN remote.streams : s \in Nat /\ s < r
      BY <1>2, <1>4, IdsAreNumbers
    <3>2. r < r + 1 /\ \A s \in DOMAIN remote.streams : s < r + 1
      BY <1>2, <3>1
    <3> QED
      BY <1>4, <3>2
  <2> QED
    BY <1>2, <1>4, <1>6, <1>9, <2>1, PairsMatchKept DEF Agreement
<1>11. DeviceAsksOnce'
  <2>1. /\ \A i \in DOMAIN toHost : i \in DOMAIN toHost' /\ toHost'[i] = toHost[i]
                                    /\ i \in 1 .. Len(toHost)
        /\ \A i \in DOMAIN toHost' : i = Len(toHost) + 1 \/ i \in DOMAIN toHost
        /\ toHost'[Len(toHost) + 1] = m /\ Len(toHost) \in Nat
    BY <1>5, <1>6, QueueToHostGrows DEF AdbInv
  <2> PICK n : n = Len(toHost) + 1
    OBVIOUS
  <2>2. /\ \A i \in DOMAIN toHost : toHost'[i] = toHost[i]
        /\ \A i \in DOMAIN toHost' : i = n \/ i \in DOMAIN toHost
        /\ toHost'[n] = m
    BY <2>1
  <2>3. \A s : IsOpenOf(m, s) => s = r
    BY MessageIsItsFields DEF IsOpenOf
  <2>4. \A id \in LocalIds : ~Paired(id, r)
    BY <1>2, <1>3 DEF Agreement, PairsMatch
  <2>5. \A i \in DOMAIN toHost : ~IsOpenOf(toHost[i], r)
    BY <1>3, <1>4 DEF Agreement, DeviceAsksOnce
  <2> SUFFICES ASSUME NEW s \in RemoteIds, NEW i \in DOMAIN toHost', IsOpenOf(toHost'[i], s)
               PROVE  /\ s \in DOMAIN remote'.streams
                      /\ \A id \in LocalIds : ~Paired(id, s)'
                      /\ \A k \in DOMAIN toHost' : IsOpenOf(toHost'[k], s) => i = k
    BY DEF DeviceAsksOnce
  <2>6. CASE i = n
    BY <1>4, <1>9, <2>2, <2>3, <2>4, <2>5, <2>6 DEF NoNewPair
  <2>7. CASE i \in DOMAIN toHost
    <3>1. IsOpenOf(toHost[i], s) /\ s # r
      BY <2>2, <2>5, <2>7
    <3>2. /\ s \in DOMAIN remote.streams
          /\ \A id \in LocalIds : ~Paired(id, s)
          /\ \A k \in DOMAIN toHost : IsOpenOf(toHost[k], s) => i = k
      BY <2>7, <3>1 DEF Agreement, DeviceAsksOnce
    <3> QED
      BY <1>4, <1>9, <2>2, <2>3, <3>1, <3>2 DEF NoNewPair
  <2> QED
    BY <2>2, <2>6, <2>7
<1>12. OkayComesFirst'
  <2> SUFFICES ASSUME NEW id \in DOMAIN streams, NEW s \in RemoteIds, ~streams[id].open
               PROVE  /\ HasPeer(s, id)' => OnItsWay(Msg("OKAY", s, id))'
                      /\ ~OnTheWire(Msg("OKAY", id, s))'
                      /\ OkayBeforeData(id, s)'
    BY <1>6 DEF OkayComesFirst, OkayBeforeData
  <2>1. /\ HasPeer(s, id) => OnItsWay(Msg("OKAY", s, id))
        /\ ~OnTheWire(Msg("OKAY", id, s))
        /\ OkayBeforeData(id, s)
    BY DEF Agreement, OkayComesFirst, OkayBeforeData
  <2>2. m # Msg("WRTE", s, id)
    BY <1>8 DEF StreamCommands
  <2>3. OkayBeforeData(id, s)'
    BY <1>5, <1>6, <2>1, <2>2, SaidAfterOkay
  <2> QED
    BY <1>2, <1>6, <1>7, <2>1, <2>3
<1>13. PairsAgree'
  <2>1. \A id \in LocalIds, s \in RemoteIds : Agreed(id, s) => Agreed(id, s)'
    BY <1>4, <1>6, <1>7 DEF Agreed
  <2> QED
    BY <1>6, <1>9, <2>1 DEF Agreement, PairsAgree, NoNewPair
<1>14. AckIsDue'
  <2> SUFFICES ASSUME NEW s \in DOMAIN remote'.streams, NEW id \in DOMAIN streams,
                      remote'.streams[s].waiting, remote'.streams[s].peer = id
               PROVE  OnItsWay(Msg("WRTE", s, id))' \/ OnTheWire(Msg("OKAY", id, s))'
    BY <1>6 DEF AckIsDue
  <2>1. s \in DOMAIN remote.streams /\ remote.streams[s].waiting /\ remote.streams[s].peer = id
    BY <1>4
  <2>2. OnItsWay(Msg("WRTE", s, id)) \/ OnTheWire(Msg("OKAY", id, s))
    BY <2>1 DEF Agreement, AckIsDue
  <2> QED
    BY <1>6, <2>2
<1> QED
  BY <1>6, <1>9, <1>10, <1>11, <1>12, <1>13, <1>14 DEF Agreement

(* The device writes on a stream whose OKAY it sent, or was sent.          *)
LEMMA DeviceWritesKeepsAgreement ==
  ASSUME AdbInv, Agreement, NEW r \in RemoteIds, DeviceWrites(r)
  PROVE  Agreement'
<1> PICK p : p = remote.streams[r].peer
  OBVIOUS
<1> PICK m : m = Msg("WRTE", r, p)
  OBVIOUS
<1>1. /\ r \in DOMAIN remote.streams /\ DeviceSends(m)
      /\ remote' = [remote EXCEPT !.streams[r].waiting = TRUE]
  BY DEF DeviceWrites
<1>2. /\ AdbTypeOK /\ DOMAIN streams \subseteq LocalIds
      /\ DOMAIN remote.streams \subseteq RemoteIds /\ p \in Nat /\ r \in Nat
      /\ remote \in Device /\ remote.streams \in [DOMAIN remote.streams -> DeviceStream]
  BY <1>1, RemoteTypes, PeersAreNumbers, DeviceTypes DEF AdbInv
<1>3. /\ DOMAIN remote'.streams = DOMAIN remote.streams /\ remote'.nextId = remote.nextId
      /\ \A s \in DOMAIN remote.streams : remote'.streams[s].peer = remote.streams[s].peer
      /\ \A s \in DOMAIN remote.streams : s # r => remote'.streams[s] = remote.streams[s]
  BY <1>1, <1>2 DEF Device, DeviceStream
<1>4. m \in DeviceMessage /\ m.command = "WRTE"
  BY <1>2 DEF DeviceMessage, AdbMessage, Msg, Commands
<1>5. /\ UNCHANGED <<streams, nextLocalId, calls, wire>> /\ Replies(<<m>>) /\ Says(m)
      /\ \A n : OnItsWay(n) => OnItsWay(n)'
      /\ \A n : OnItsWay(n)' => OnItsWay(n) \/ n = m
      /\ OnItsWay(m)'
      /\ \A n : OnTheWire(n)' <=> OnTheWire(n)
      /\ \A id : OpenHere(id)' <=> OpenHere(id)
      /\ PartsAreWhole' /\ OpenHasRemote'
      /\ NoNewPair => HostAsksOnce'
      /\ ClosedIsForgotten'
  BY <1>1, <1>4, SendsSays
<1>6. \A id, s : HasPeer(s, id)' <=> HasPeer(s, id)
  BY <1>3 DEF HasPeer
<1>7. \A k, id, s : m = Msg(k, s, id) => k = "WRTE" /\ s = r /\ id = p
  BY MessageIsItsFields
<1>8. HasPeer(r, p)
  BY <1>1 DEF HasPeer
<1>9. NoNewPair
  <2> SUFFICES ASSUME NEW id \in LocalIds, NEW s \in RemoteIds, Paired(id, s)'
               PROVE  Paired(id, s)
    BY DEF NoNewPair
  <2>1. CASE \E k \in StreamCommands : OnItsWay(Msg(k, s, id))'
    BY <1>5, <1>7, <1>8, <2>1 DEF Paired
  <2>2. CASE ~\E k \in StreamCommands : OnItsWay(Msg(k, s, id))'
    BY <1>5, <1>6, <2>2 DEF Paired
  <2> QED
    BY <2>1, <2>2
<1>10. PairsMatch'
  BY <1>2, <1>3, <1>5, <1>9, PairsMatchKept DEF Agreement, PairsMatch
<1>11. DeviceAsksOnce'
  BY <1>4, <1>5, <1>3, <1>9, SaidAsksNothing DEF Agreement, DeviceAsksOnce, NoNewPair
<1>12. OkayComesFirst'
  <2> SUFFICES ASSUME NEW id \in DOMAIN streams, NEW s \in RemoteIds, ~streams[id].open
               PROVE  /\ HasPeer(s, id)' => OnItsWay(Msg("OKAY", s, id))'
                      /\ ~OnTheWire(Msg("OKAY", id, s))'
                      /\ OkayBeforeData(id, s)'
    BY <1>5 DEF OkayComesFirst, OkayBeforeData
  <2>1. /\ HasPeer(s, id) => OnItsWay(Msg("OKAY", s, id))
        /\ ~OnTheWire(Msg("OKAY", id, s))
        /\ OkayBeforeData(id, s)
    BY DEF Agreement, OkayComesFirst, OkayBeforeData
  <2>2. OkayBeforeData(id, s)'
    BY <1>4, <1>5, <1>7, <1>8, <2>1, SaidAfterOkay
  <2> QED
    BY <1>5, <1>6, <2>1, <2>2
<1>13. PairsAgree'
  <2>1. \A id \in LocalIds, s \in RemoteIds : Agreed(id, s) => Agreed(id, s)'
    BY <1>3, <1>5, <1>6 DEF Agreed
  <2> QED
    BY <1>5, <1>9, <2>1 DEF Agreement, PairsAgree, NoNewPair
<1>14. AckIsDue'
  <2> SUFFICES ASSUME NEW s \in DOMAIN remote'.streams, NEW id \in DOMAIN streams,
                      remote'.streams[s].waiting, remote'.streams[s].peer = id
               PROVE  OnItsWay(Msg("WRTE", s, id))' \/ OnTheWire(Msg("OKAY", id, s))'
    BY <1>5 DEF AckIsDue
  <2>1. CASE s = r
    BY <1>3, <1>5, <2>1
  <2>2. CASE s # r
    <3>1. s \in DOMAIN remote.streams /\ remote.streams[s].waiting /\ remote.streams[s].peer = id
      BY <1>3, <2>2
    <3>2. OnItsWay(Msg("WRTE", s, id)) \/ OnTheWire(Msg("OKAY", id, s))
      BY <3>1 DEF Agreement, AckIsDue
    <3> QED
      BY <1>5, <3>2
  <2> QED
    BY <2>1, <2>2
<1> QED
  BY <1>5, <1>9, <1>10, <1>11, <1>12, <1>13, <1>14 DEF Agreement

(* The device forgets its end of a pair, and its CLSE is on the way.       *)
LEMMA DeviceClosesKeepsAgreement ==
  ASSUME AdbInv, Agreement, NEW r \in RemoteIds, DeviceCloses(r)
  PROVE  Agreement'
<1> PICK p : p = remote.streams[r].peer
  OBVIOUS
<1> PICK m : m = Msg("CLSE", r, p)
  OBVIOUS
<1>1. /\ r \in DOMAIN remote.streams /\ DeviceSends(m) /\ p # NoId
      /\ remote' = [remote EXCEPT !.streams = Without(@, r)]
  BY DEF DeviceCloses
<1>2. /\ AdbTypeOK /\ DOMAIN streams \subseteq LocalIds
      /\ DOMAIN remote.streams \subseteq RemoteIds /\ p \in Nat /\ r \in Nat
      /\ remote \in Device /\ p \in LocalIds
  BY <1>1, RemoteTypes, PeersAreNumbers, DeviceTypes DEF AdbInv, DeviceStream
<1>3. /\ DOMAIN remote'.streams = DOMAIN remote.streams \ {r} /\ remote'.nextId = remote.nextId
      /\ \A s \in DOMAIN remote'.streams : remote'.streams[s] = remote.streams[s]
  BY <1>1, <1>2 DEF Device, Without
<1>4. m \in DeviceMessage /\ m.command = "CLSE"
  BY <1>2 DEF DeviceMessage, AdbMessage, Msg, Commands
<1>5. /\ UNCHANGED <<streams, nextLocalId, calls, wire>> /\ Replies(<<m>>) /\ Says(m)
      /\ \A n : OnItsWay(n) => OnItsWay(n)'
      /\ \A n : OnItsWay(n)' => OnItsWay(n) \/ n = m
      /\ OnItsWay(m)'
      /\ \A n : OnTheWire(n)' <=> OnTheWire(n)
      /\ \A id : OpenHere(id)' <=> OpenHere(id)
      /\ PartsAreWhole' /\ OpenHasRemote'
      /\ NoNewPair => HostAsksOnce'
      /\ ClosedIsForgotten'
  BY <1>1, <1>4, SendsSays
<1>6. \A id, s : HasPeer(s, id)' <=> HasPeer(s, id) /\ s # r
  BY <1>3 DEF HasPeer
<1>7. \A k, id, s : m = Msg(k, s, id) => k = "CLSE" /\ s = r /\ id = p
  BY MessageIsItsFields
<1>8. Paired(p, r)
  BY <1>1 DEF HasPeer, Paired
<1>9. NoNewPair
  <2> SUFFICES ASSUME NEW id \in LocalIds, NEW s \in RemoteIds, Paired(id, s)'
               PROVE  Paired(id, s)
    BY DEF NoNewPair
  <2>1. CASE \E k \in StreamCommands : OnItsWay(Msg(k, s, id))'
    BY <1>5, <1>7, <1>8, <2>1 DEF Paired
  <2>2. CASE ~\E k \in StreamCommands : OnItsWay(Msg(k, s, id))'
    BY <1>5, <1>6, <2>2 DEF Paired
  <2> QED
    BY <2>1, <2>2
<1>10. PairsMatch'
  BY <1>2, <1>3, <1>5, <1>9, PairsMatchKept DEF Agreement, PairsMatch
<1>11. DeviceAsksOnce'
  <2>1. \A i \in DOMAIN toHost : ~IsOpenOf(toHost[i], r)
    BY <1>2, <1>8 DEF Agreement, DeviceAsksOnce
  <2>2. \A s \in RemoteIds, i \in DOMAIN toHost : IsOpenOf(toHost[i], s) =>
           s \in DOMAIN remote'.streams /\ \A id \in LocalIds : ~Paired(id, s)'
    BY <1>3, <1>9, <2>1 DEF Agreement, DeviceAsksOnce, NoNewPair
  <2> QED
    BY <1>4, <1>5, <2>2, SaidAsksNothing DEF Agreement
<1>12. OkayComesFirst'
  <2> SUFFICES ASSUME NEW id \in DOMAIN streams, NEW s \in RemoteIds, ~streams[id].open
               PROVE  /\ HasPeer(s, id)' => OnItsWay(Msg("OKAY", s, id))'
                      /\ ~OnTheWire(Msg("OKAY", id, s))'
                      /\ OkayBeforeData(id, s)'
    BY <1>5 DEF OkayComesFirst, OkayBeforeData
  <2>1. /\ HasPeer(s, id) => OnItsWay(Msg("OKAY", s, id))
        /\ ~OnTheWire(Msg("OKAY", id, s))
        /\ OkayBeforeData(id, s)
    BY DEF Agreement, OkayComesFirst, OkayBeforeData
  <2>2. m # Msg("WRTE", s, id)
    BY <1>7
  <2>3. OkayBeforeData(id, s)'
    BY <1>4, <1>5, <2>1, <2>2, SaidAfterOkay
  <2> QED
    BY <1>5, <1>6, <2>1, <2>3
<1>13. PairsAgree'
  <2> SUFFICES ASSUME NEW id \in LocalIds, NEW s \in RemoteIds, Paired(id, s),
                      id \in DOMAIN streams
               PROVE  Agreed(id, s)'
    BY <1>5, <1>9 DEF PairsAgree, NoNewPair
  <2>1. CASE s = r
    <3>1. id = p
      BY <1>2, <1>8, <2>1 DEF Agreement, PairsMatch
    <3> QED
      BY <1>5, <2>1, <3>1 DEF Agreed
  <2>2. CASE s # r
    <3>1. Agreed(id, s)
      BY DEF Agreement, PairsAgree
    <3> QED
      BY <1>3, <1>5, <1>6, <2>2, <3>1 DEF Agreed
  <2> QED
    BY <2>1, <2>2
<1>14. AckIsDue'
  <2> SUFFICES ASSUME NEW s \in DOMAIN remote'.streams, NEW id \in DOMAIN streams,
                      remote'.streams[s].waiting, remote'.streams[s].peer = id
               PROVE  OnItsWay(Msg("WRTE", s, id))' \/ OnTheWire(Msg("OKAY", id, s))'
    BY <1>5 DEF AckIsDue
  <2>1. s \in DOMAIN remote.streams /\ remote.streams[s].waiting /\ remote.streams[s].peer = id
    BY <1>3
  <2>2. OnItsWay(Msg("WRTE", s, id)) \/ OnTheWire(Msg("OKAY", id, s))
    BY <2>1 DEF Agreement, AckIsDue
  <2> QED
    BY <1>5, <2>2
<1> QED
  BY <1>5, <1>9, <1>10, <1>11, <1>12, <1>13, <1>14 DEF Agreement

-----------------------------------------------------------------------------
(* The device took the oldest part of the wire.                            *)
Took(p) == /\ wire # << >> /\ p = Head(wire) /\ wire' = Tail(wire)
           /\ UNCHANGED <<streams, nextLocalId, calls>>

(* What is left of the wire then.                                          *)
LEMMA TookFacts ==
  ASSUME AdbInv, Agreement, NEW p, Took(p)
  PROVE  /\ \A n : OnTheWire(n) <=> OnTheWire(n)' \/ n = p.msg
         /\ p \in GoodPart /\ p \in WholePart /\ p.msg \in HostMessage
         /\ p.msg = Msg(p.msg.command, p.msg.arg0, p.msg.arg1)
         /\ 1 \in DOMAIN wire /\ wire[1] = p
         /\ PartsAreWhole' /\ OpenHasRemote' /\ ClosedIsForgotten'
         /\ \A id : OpenHere(id)' <=> OpenHere(id)
         /\ Takes
         /\ NoNewPair => HostAsksOnce'
<1>1. /\ \A n : OnTheWire(n) <=> OnTheWire(n)' \/ n = p.msg
      /\ p \in GoodPart /\ 1 \in DOMAIN wire /\ wire[1] = p
  BY WireShrinks DEF AdbInv, Took
<1>2. p \in WholePart
  BY <1>1 DEF Agreement, PartsAreWhole
<1>3. p.msg \in HostMessage /\ p.msg = Msg(p.msg.command, p.msg.arg0, p.msg.arg1)
  <2>1. p.msg \in HostMessage /\ p.msg \in AdbMessage
    BY <1>1 DEF GoodPart, HostMessage
  <2> QED
    BY <2>1, MessageIsItsFields
<1>4. Takes
  BY DEF Takes, Took
<1>5. PartsAreWhole' /\ (NoNewPair => HostAsksOnce')
  BY <1>4, TakenFromTheWire DEF Took
<1>6. OpenHasRemote' /\ \A id : OpenHere(id)' <=> OpenHere(id)
  BY DEF Agreement, OpenHasRemote, OpenHere, Took
<1>7. ClosedIsForgotten'
  BY <1>1 DEF Agreement, ClosedIsForgotten, Took
<1> QED
  BY <1>1, <1>2, <1>3, <1>4, <1>5, <1>6, <1>7

(* The device accepts a stream of the host under an id that is in no pair, *)
(* and says so.                                                            *)
LEMMA AcceptKeepsAgreement ==
  ASSUME AdbInv, Agreement, NEW p, Took(p), p.kind = "body", p.msg.command = "OPEN",
         remote.nextId \in RemoteIds,
         remote' = [remote EXCEPT !.awaits = NoHeader, !.nextId = @ + 1,
                      !.streams = With(@, remote.nextId,
                                       [peer |-> p.msg.arg0, waiting |-> FALSE])],
         Replies(<<Msg("OKAY", remote.nextId, p.msg.arg0)>>)
  PROVE  Agreement'
<1> PICK r \in RemoteIds : r = remote.nextId
  OBVIOUS
<1>1. /\ \A n : OnTheWire(n) <=> OnTheWire(n)' \/ n = p.msg
      /\ p \in GoodPart /\ p.msg \in HostMessage
      /\ 1 \in DOMAIN wire /\ wire[1] = p
      /\ PartsAreWhole' /\ OpenHasRemote' /\ ClosedIsForgotten'
      /\ \A id : OpenHere(id)' <=> OpenHere(id)
  BY TookFacts
<1> PICK id \in LocalIds : id = p.msg.arg0
  BY <1>1 DEF HostMessage
<1> PICK m : m = Msg("OKAY", r, id)
  OBVIOUS
<1>2. /\ UNCHANGED <<streams, nextLocalId, calls>> /\ wire # << >> /\ wire' = Tail(wire)
  BY DEF Took
<1>3. /\ AdbTypeOK /\ DOMAIN streams \subseteq LocalIds /\ remote \in Device
      /\ DOMAIN remote.streams \subseteq RemoteIds /\ r \in Nat /\ id \in Nat
      /\ \A s \in RemoteIds : s \in Nat
      /\ 0 \notin RemoteIds
  BY RemoteTypes, DeviceTypes DEF AdbInv
<1>4. /\ DOMAIN remote'.streams = DOMAIN remote.streams \cup {r}
      /\ remote'.streams[r].peer = id /\ ~remote'.streams[r].waiting
      /\ remote'.nextId = remote.nextId + 1
      /\ \A s \in DOMAIN remote.streams : remote'.streams[s] = remote.streams[s] /\ s # r
                                          /\ s < r
  <2>1. \A s \in DOMAIN remote.streams : s < r /\ s # r
    BY <1>3 DEF Agreement, PairsMatch
  <2> QED
    BY <1>3, <2>1 DEF With, Device
<1>5. m \in DeviceMessage /\ m.command = "OKAY" /\ Replies(<<m>>) /\ Says(m)
  BY <1>3 DEF DeviceMessage, AdbMessage, Msg, Commands, Says
<1>6. /\ \A n : OnItsWay(n) => OnItsWay(n)'
      /\ \A n : OnItsWay(n)' => OnItsWay(n) \/ n = m
      /\ OnItsWay(m)'
  BY <1>5, SaidIsOnItsWay
<1>7. Asked(1, id)
  BY <1>1 DEF Asked, IsOpenOf
<1>8. id < nextLocalId /\ \A s \in RemoteIds : ~Paired(id, s)
  BY <1>1, <1>7 DEF Agreement, HostAsksOnce
<1>9. \A jd \in LocalIds : ~Paired(jd, r)
  BY <1>3 DEF Agreement, PairsMatch
<1>10. \A jd, s : HasPeer(s, jd)' <=> HasPeer(s, jd) \/ (s = r /\ jd = id)
  BY <1>4 DEF HasPeer
<1>11. \A k, jd, s : m = Msg(k, s, jd) => k = "OKAY" /\ s = r /\ jd = id
  BY MessageIsItsFields
<1>12. \A jd \in LocalIds, s \in RemoteIds :
         Paired(jd, s)' => Paired(jd, s) \/ (jd = id /\ s = r)
  <2> SUFFICES ASSUME NEW jd \in LocalIds, NEW s \in RemoteIds, Paired(jd, s)'
               PROVE  Paired(jd, s) \/ (jd = id /\ s = r)
    OBVIOUS
  <2>1. CASE \E k \in StreamCommands : OnItsWay(Msg(k, s, jd))'
    BY <1>6, <1>11, <2>1 DEF Paired
  <2>2. CASE \/ OpenHere(jd)' /\ streams'[jd].remoteId = s
             \/ HasPeer(s, jd)'
             \/ \E k \in StreamCommands : OnTheWire(Msg(k, jd, s))'
             \/ \E k \in StreamCommands, c \in Calls : calls'[c].msg = Msg(k, jd, s)
    BY <1>1, <1>2, <1>10, <2>2 DEF Paired
  <2> QED
    BY <2>1, <2>2 DEF Paired
<1>13. \A s \in DOMAIN remote'.streams : s < remote'.nextId
  <2>1. \A s \in DOMAIN remote.streams : s \in Nat /\ s < r
    BY <1>3, <1>4
  <2>2. r < r + 1 /\ \A s \in DOMAIN remote.streams : s < r + 1
    BY <1>3, <2>1
  <2> QED
    BY <1>4, <2>2
<1>14. PairsMatch'
  <2>1. ASSUME NEW jd \in LocalIds, NEW s \in RemoteIds, Paired(jd, s)'
        PROVE  jd < nextLocalId' /\ s < remote'.nextId
    <3>1. CASE Paired(jd, s)
      <4>1. jd < nextLocalId /\ s < r
        BY <3>1 DEF Agreement, PairsMatch
      <4> QED
        BY <1>2, <1>3, <1>4, <4>1
    <3>2. CASE jd = id /\ s = r
      BY <1>2, <1>4, <1>8, <1>13, <3>2
    <3> QED
      BY <1>12, <2>1, <3>1, <3>2
  <2>2. ASSUME NEW jd \in LocalIds, NEW kd \in LocalIds, NEW s \in RemoteIds, NEW t \in RemoteIds,
               Paired(jd, s)', Paired(kd, t)'
        PROVE  jd = kd <=> s = t
    <3>1. /\ Paired(jd, s) \/ (jd = id /\ s = r)
          /\ Paired(kd, t) \/ (kd = id /\ t = r)
      BY <1>12, <2>2
    <3>2. Paired(jd, s) /\ Paired(kd, t) => (jd = kd <=> s = t)
      BY DEF Agreement, PairsMatch
    <3> QED
      BY <1>8, <1>9, <3>1, <3>2
  <2> QED
    BY <1>13, <2>1, <2>2 DEF PairsMatch
<1>15. HostAsksOnce'
  <2>1. \A jd \in LocalIds, s \in RemoteIds :
          Paired(jd, s)' => \/ Paired(jd, s)
                            \/ jd = nextLocalId
                            \/ wire # << >> /\ wire' = Tail(wire) /\ Asked(1, jd)
    BY <1>2, <1>7, <1>12
  <2> QED
    BY <1>2, <2>1, HostAsksStill DEF Agreement
<1>16. DeviceAsksOnce'
  <2>1. \A s \in RemoteIds, i \in DOMAIN toHost : IsOpenOf(toHost[i], s) =>
           s \in DOMAIN remote'.streams /\ \A jd \in LocalIds : ~Paired(jd, s)'
    BY <1>4, <1>12 DEF Agreement, DeviceAsksOnce
  <2> QED
    BY <1>5, <2>1, SaidAsksNothing DEF Agreement
<1>17. OkayComesFirst'
  <2> SUFFICES ASSUME NEW jd \in DOMAIN streams, NEW s \in RemoteIds, ~streams[jd].open
               PROVE  /\ HasPeer(s, jd)' => OnItsWay(Msg("OKAY", s, jd))'
                      /\ ~OnTheWire(Msg("OKAY", jd, s))'
                      /\ OkayBeforeData(jd, s)'
    BY <1>2 DEF OkayComesFirst, OkayBeforeData
  <2>1. /\ HasPeer(s, jd) => OnItsWay(Msg("OKAY", s, jd))
        /\ ~OnTheWire(Msg("OKAY", jd, s))
        /\ OkayBeforeData(jd, s)
    BY DEF Agreement, OkayComesFirst, OkayBeforeData
  <2>2. m # Msg("WRTE", s, jd)
    BY <1>11
  <2>3. OkayBeforeData(jd, s)'
    BY <1>5, <2>1, <2>2, SaidAfterOkay
  <2> QED
    BY <1>1, <1>6, <1>10, <2>1, <2>3
<1>18. PairsAgree'
  <2> SUFFICES ASSUME NEW jd \in LocalIds, NEW s \in RemoteIds, Paired(jd, s)',
                      jd \in DOMAIN streams
               PROVE  Agreed(jd, s)'
    BY <1>2 DEF PairsAgree
  <2>1. CASE Paired(jd, s)
    <3>1. Agreed(jd, s)
      BY <2>1 DEF Agreement, PairsAgree
    <3>2. p.msg # Msg("OKAY", jd, s)
      BY MessageIsItsFields
    <3>3. OnTheWire(Msg("OKAY", jd, s)) => OnTheWire(Msg("OKAY", jd, s))'
      BY <1>1, <3>2
    <3> QED
      BY <1>4, <1>6, <1>10, <3>1, <3>3 DEF Agreed
  <2>2. CASE jd = id /\ s = r
    BY <1>10, <2>2 DEF Agreed
  <2> QED
    BY <1>12, <2>1, <2>2
<1>19. AckIsDue'
  <2> SUFFICES ASSUME NEW s \in DOMAIN remote'.streams, NEW jd \in DOMAIN streams,
                      remote'.streams[s].waiting, remote'.streams[s].peer = jd
               PROVE  OnItsWay(Msg("WRTE", s, jd))' \/ OnTheWire(Msg("OKAY", jd, s))'
    BY <1>2 DEF AckIsDue
  <2>1. s \in DOMAIN remote.streams /\ remote.streams[s].waiting /\ remote.streams[s].peer = jd
    BY <1>4
  <2>2. OnItsWay(Msg("WRTE", s, jd)) \/ OnTheWire(Msg("OKAY", jd, s))
    BY <2>1 DEF Agreement, AckIsDue
  <2>3. p.msg # Msg("OKAY", jd, s)
    BY MessageIsItsFields
  <2> QED
    BY <1>1, <1>6, <2>2, <2>3
<1> QED
  BY <1>1, <1>14, <1>15, <1>16, <1>17, <1>18, <1>19 DEF Agreement

-----------------------------------------------------------------------------
(* The OKAY of the host gives the device's stream its peer, or             *)
(* acknowledges what the device wrote on it.                               *)
LEMMA OkayKeepsAgreement ==
  ASSUME AdbInv, Agreement, NEW p, Took(p), p.msg.command = "OKAY",
         p.msg.arg1 \in DOMAIN remote.streams,
         remote' = [remote EXCEPT !.streams[p.msg.arg1] = [peer |-> p.msg.arg0,
                                                           waiting |-> FALSE]],
         UNCHANGED toHost
  PROVE  Agreement'
<1>1. /\ \A n : OnTheWire(n) <=> OnTheWire(n)' \/ n = p.msg
      /\ p.msg \in HostMessage /\ p.msg = Msg(p.msg.command, p.msg.arg0, p.msg.arg1)
      /\ PartsAreWhole' /\ OpenHasRemote' /\ ClosedIsForgotten'
      /\ \A id : OpenHere(id)' <=> OpenHere(id)
      /\ NoNewPair => HostAsksOnce'
  BY TookFacts
<1>2. /\ AdbTypeOK /\ DOMAIN streams \subseteq LocalIds /\ remote \in Device
      /\ DOMAIN remote.streams \subseteq RemoteIds
  BY RemoteTypes, DeviceTypes DEF AdbInv
<1> PICK id \in LocalIds : id = p.msg.arg0
  BY <1>1 DEF HostMessage
<1> PICK r \in RemoteIds : r = p.msg.arg1
  BY <1>2
<1>3. UNCHANGED <<streams, nextLocalId, calls>>
  BY DEF Took
<1>4. p.msg = Msg("OKAY", id, r) /\ OnTheWire(p.msg)
  BY <1>1
<1>5. Paired(id, r)
  BY <1>4 DEF Paired, StreamCommands
<1>6. /\ DOMAIN remote'.streams = DOMAIN remote.streams /\ remote'.nextId = remote.nextId
      /\ r \in DOMAIN remote.streams
      /\ remote'.streams[r].peer = id /\ ~remote'.streams[r].waiting
      /\ \A s \in DOMAIN remote.streams : s # r => remote'.streams[s] = remote.streams[s]
  BY <1>2 DEF Device
<1>7. /\ HasPeer(r, id)'
      /\ \A jd, s : s # r => (HasPeer(s, jd)' <=> HasPeer(s, jd))
      /\ \A jd : HasPeer(r, jd)' => jd = id
  BY <1>6 DEF HasPeer
<1>8. \A n : OnItsWay(n)' <=> OnItsWay(n)
  BY DEF OnItsWay
<1>9. \A k, jd, s : p.msg = Msg(k, jd, s) => k = "OKAY" /\ jd = id /\ s = r
  <2>1. \A k, jd, s : Msg("OKAY", id, r) = Msg(k, jd, s) => k = "OKAY" /\ jd = id /\ s = r
    BY MessagesDiffer
  <2> QED
    BY <1>4, <2>1
<1>10. NoNewPair
  BY <1>1, <1>3, <1>5, <1>7, <1>8 DEF NoNewPair, Paired
<1>11. PairsMatch'
  BY <1>2, <1>3, <1>6, <1>10, PairsMatchKept DEF Agreement, PairsMatch
<1>12. DeviceAsksOnce'
  BY <1>6, <1>10 DEF Agreement, DeviceAsksOnce, NoNewPair
<1>13. OkayComesFirst'
  <2> SUFFICES ASSUME NEW jd \in DOMAIN streams, NEW s \in RemoteIds, ~streams[jd].open
               PROVE  /\ HasPeer(s, jd)' => OnItsWay(Msg("OKAY", s, jd))'
                      /\ ~OnTheWire(Msg("OKAY", jd, s))'
                      /\ OkayBeforeData(jd, s)
    BY <1>3 DEF OkayComesFirst, OkayBeforeData
  <2>1. /\ HasPeer(s, jd) => OnItsWay(Msg("OKAY", s, jd))
        /\ ~OnTheWire(Msg("OKAY", jd, s))
        /\ ~OnTheWire(Msg("OKAY", jd, r))
        /\ OkayBeforeData(jd, s)
    BY DEF Agreement, OkayComesFirst, OkayBeforeData
  <2>2. jd # id
    BY <1>4, <2>1
  <2> QED
    BY <1>1, <1>7, <1>8, <2>1, <2>2
<1>14. PairsAgree'
  <2> SUFFICES ASSUME NEW jd \in LocalIds, NEW s \in RemoteIds, Paired(jd, s),
                      jd \in DOMAIN streams
               PROVE  Agreed(jd, s)'
    BY <1>3, <1>10 DEF PairsAgree, NoNewPair
  <2>1. Agreed(jd, s) /\ (jd = id <=> s = r)
    BY <1>5 DEF Agreement, PairsAgree, PairsMatch
  <2>2. CASE s = r
    BY <1>7, <2>1, <2>2 DEF Agreed
  <2>3. CASE s # r
    BY <1>1, <1>6, <1>7, <1>8, <1>9, <2>1, <2>3 DEF Agreed
  <2> QED
    BY <2>2, <2>3
<1>15. AckIsDue'
  <2> SUFFICES ASSUME NEW s \in DOMAIN remote'.streams, NEW jd \in DOMAIN streams,
                      remote'.streams[s].waiting, remote'.streams[s].peer = jd
               PROVE  OnItsWay(Msg("WRTE", s, jd))' \/ OnTheWire(Msg("OKAY", jd, s))'
    BY <1>3 DEF AckIsDue
  <2>1. s # r /\ s \in DOMAIN remote.streams /\ remote.streams[s].waiting
        /\ remote.streams[s].peer = jd
    BY <1>6
  <2>2. OnItsWay(Msg("WRTE", s, jd)) \/ OnTheWire(Msg("OKAY", jd, s))
    BY <2>1 DEF Agreement, AckIsDue
  <2> QED
    BY <1>1, <1>8, <1>9, <2>1, <2>2
<1> QED
  BY <1>1, <1>10, <1>11, <1>12, <1>13, <1>14, <1>15 DEF Agreement

(* The CLSE of the host ends the device's end of a pair whose other end is *)
(* gone.                                                                   *)
LEMMA ForgetKeepsAgreement ==
  ASSUME AdbInv, Agreement, NEW p, Took(p), p.msg.command = "CLSE",
         remote' = [remote EXCEPT !.streams = Without(@, p.msg.arg1)],
         UNCHANGED toHost
  PROVE  Agreement'
<1> PICK r : r = p.msg.arg1
  OBVIOUS
<1> PICK id : id = p.msg.arg0
  OBVIOUS
<1>1. /\ \A n : OnTheWire(n) <=> OnTheWire(n)' \/ n = p.msg
      /\ p.msg \in HostMessage /\ p.msg = Msg("CLSE", id, r) /\ p \in WholePart
      /\ PartsAreWhole' /\ OpenHasRemote' /\ ClosedIsForgotten'
      /\ \A jd : OpenHere(jd)' <=> OpenHere(jd)
      /\ NoNewPair => HostAsksOnce'
  BY TookFacts
<1>2. /\ AdbTypeOK /\ DOMAIN streams \subseteq LocalIds /\ remote \in Device
      /\ DOMAIN remote.streams \subseteq RemoteIds /\ id \in LocalIds
  BY <1>1, RemoteTypes, DeviceTypes DEF AdbInv, WholePart
<1>3. UNCHANGED <<streams, nextLocalId, calls>>
  BY DEF Took
<1>4. /\ r \in RemoteIds => Paired(id, r)
      /\ r \in RemoteIds => id \notin DOMAIN streams
  BY <1>1, <1>2 DEF Agreement, ClosedIsForgotten, Paired, StreamCommands
<1>5. /\ DOMAIN remote'.streams = DOMAIN remote.streams \ {r} /\ remote'.nextId = remote.nextId
      /\ \A s \in DOMAIN remote'.streams : remote'.streams[s] = remote.streams[s]
  BY <1>2 DEF Device, Without
<1>6. \A jd, s : HasPeer(s, jd)' <=> HasPeer(s, jd) /\ s # r
  BY <1>5 DEF HasPeer
<1>7. \A n : OnItsWay(n)' <=> OnItsWay(n)
  BY DEF OnItsWay
<1>8. \A jd, s : p.msg # Msg("OKAY", jd, s)
  BY MessageIsItsFields
<1>9. NoNewPair
  BY <1>1, <1>3, <1>6, <1>7 DEF NoNewPair, Paired
<1>10. PairsMatch'
  BY <1>2, <1>3, <1>5, <1>9, PairsMatchKept DEF Agreement, PairsMatch
<1>11. DeviceAsksOnce'
  <2> SUFFICES ASSUME NEW s \in RemoteIds, NEW i \in DOMAIN toHost, IsOpenOf(toHost[i], s)
               PROVE  /\ s \in DOMAIN remote'.streams
                      /\ \A jd \in LocalIds : ~Paired(jd, s)'
                      /\ \A k \in DOMAIN toHost : IsOpenOf(toHost[k], s) => i = k
    BY DEF DeviceAsksOnce
  <2>1. /\ s \in DOMAIN remote.streams
        /\ \A jd \in LocalIds : ~Paired(jd, s)
        /\ \A k \in DOMAIN toHost : IsOpenOf(toHost[k], s) => i = k
    BY DEF Agreement, DeviceAsksOnce
  <2>2. s # r
    BY <1>2, <1>4, <2>1
  <2> QED
    BY <1>5, <1>9, <2>1, <2>2 DEF NoNewPair
<1>12. OkayComesFirst'
  <2> SUFFICES ASSUME NEW jd \in DOMAIN streams, NEW s \in RemoteIds, ~streams[jd].open
               PROVE  /\ HasPeer(s, jd)' => OnItsWay(Msg("OKAY", s, jd))'
                      /\ ~OnTheWire(Msg("OKAY", jd, s))'
                      /\ OkayBeforeData(jd, s)
    BY <1>3 DEF OkayComesFirst, OkayBeforeData
  <2>1. /\ HasPeer(s, jd) => OnItsWay(Msg("OKAY", s, jd))
        /\ ~OnTheWire(Msg("OKAY", jd, s))
        /\ OkayBeforeData(jd, s)
    BY DEF Agreement, OkayComesFirst, OkayBeforeData
  <2> QED
    BY <1>1, <1>6, <1>7, <2>1
<1>13. PairsAgree'
  <2> SUFFICES ASSUME NEW jd \in LocalIds, NEW s \in RemoteIds, Paired(jd, s),
                      jd \in DOMAIN streams
               PROVE  Agreed(jd, s)'
    BY <1>3, <1>9 DEF PairsAgree, NoNewPair
  <2>1. s # r
    <3>1. SUFFICES ASSUME s = r PROVE FALSE
      OBVIOUS
    <3>2. jd = id
      BY <1>2, <1>4, <3>1 DEF Agreement, PairsMatch
    <3> QED
      BY <1>4, <3>1, <3>2
  <2>2. Agreed(jd, s)
    BY DEF Agreement, PairsAgree
  <2> QED
    BY <1>1, <1>5, <1>6, <1>7, <1>8, <2>1, <2>2 DEF Agreed
<1>14. AckIsDue'
  <2> SUFFICES ASSUME NEW s \in DOMAIN remote'.streams, NEW jd \in DOMAIN streams,
                      remote'.streams[s].waiting, remote'.streams[s].peer = jd
               PROVE  OnItsWay(Msg("WRTE", s, jd))' \/ OnTheWire(Msg("OKAY", jd, s))'
    BY <1>3 DEF AckIsDue
  <2>1. s \in DOMAIN remote.streams /\ remote.streams[s].waiting /\ remote.streams[s].peer = jd
    BY <1>5
  <2>2. OnItsWay(Msg("WRTE", s, jd)) \/ OnTheWire(Msg("OKAY", jd, s))
    BY <2>1 DEF Agreement, AckIsDue
  <2> QED
    BY <1>1, <1>7, <1>8, <2>2
<1> QED
  BY <1>1, <1>9, <1>10, <1>11, <1>12, <1>13, <1>14 DEF Agreement

(* The device handles a message that has arrived in full.                  *)
LEMMA DeviceHandlesKeepsAgreement ==
  ASSUME AdbInv, Agreement, NEW p, Took(p), p.kind = "body" \/ p.length = 0,
         DeviceHandles(p.msg)
  PROVE  Agreement'
<1> PICK msg : msg = p.msg
  OBVIOUS
<1>1. /\ p \in WholePart /\ p \in GoodPart /\ msg \in HostMessage
      /\ msg = Msg(msg.command, msg.arg0, msg.arg1) /\ Takes
      /\ \A n : OnTheWire(n) <=> OnTheWire(n)' \/ n = msg
  BY TookFacts
<1>2. UNCHANGED <<streams, nextLocalId, calls>> /\ msg = Head(wire).msg
      /\ msg.arg0 \in Nat /\ msg.arg1 \in Nat
  BY <1>1 DEF Took, HostMessage, AdbMessage
<1>3. /\ DOMAIN remote.streams \subseteq RemoteIds /\ remote \in Device
      /\ NoId \notin RemoteIds
  BY DeviceTypes, IdsAreNumbers
<1>4. ASSUME remote'.streams = remote.streams, remote'.nextId = remote.nextId,
             ~(msg.command = "OKAY" /\ msg.arg1 \in DOMAIN remote.streams),
             NEW m \in DeviceMessage, Says(m), m.command \notin {"OPEN", "WRTE"},
             Replies(<<m>>) => \A k \in StreamCommands, id \in LocalIds, r \in RemoteIds :
                                 m = Msg(k, r, id) => Paired(id, r)
      PROVE  Agreement'
  <2>1. \A id \in LocalIds, r \in DOMAIN remote.streams : msg # Msg("OKAY", id, r)
    BY <1>4, MessageIsItsFields
  <2> QED
    BY <1>1, <1>2, <1>4, <2>1, AnswerKeepsAgreement
<1>5. ASSUME remote' = [remote EXCEPT !.awaits = NoHeader]
      PROVE  remote'.streams = remote.streams /\ remote'.nextId = remote.nextId
  BY <1>3, <1>5 DEF Device
<1>6. CASE msg.command = "CNXN"
  <2> PICK m : m = Msg("CNXN", ADB_VERSION, DeviceMaxPayload)
    OBVIOUS
  <2>1. remote' = [remote EXCEPT !.online = TRUE, !.awaits = NoHeader] /\ Replies(<<m>>)
    BY <1>6 DEF DeviceHandles
  <2>2. remote'.streams = remote.streams /\ remote'.nextId = remote.nextId
    BY <1>3, <2>1 DEF Device
  <2>3. m \in DeviceMessage /\ m.command = "CNXN"
    BY IdsAreNumbers DEF DeviceMessage, AdbMessage, Msg, Commands, ADB_VERSION
  <2>4. \A k \in StreamCommands : \A id, r : m # Msg(k, r, id)
    BY <2>3, MessageIsItsFields DEF StreamCommands
  <2>5. Says(m)
    BY <2>1 DEF Says
  <2> QED
    BY <1>4, <1>6, <2>2, <2>3, <2>4, <2>5
<1>7. CASE msg.command = "OPEN" /\ remote.online /\ remote.nextId \in RemoteIds
  <2>1. p.kind = "body"
    BY <1>1, <1>7 DEF WholePart, Part
  <2>2. \/ /\ remote' = [remote EXCEPT !.awaits = NoHeader, !.nextId = @ + 1,
                            !.streams = With(@, remote.nextId,
                                             [peer |-> msg.arg0, waiting |-> FALSE])]
           /\ Replies(<<Msg("OKAY", remote.nextId, msg.arg0)>>)
        \/ /\ remote' = [remote EXCEPT !.awaits = NoHeader]
           /\ Replies(<<Msg("CLSE", NoId, msg.arg0)>>)
    BY <1>7 DEF DeviceHandles
  <2>3. CASE /\ remote' = [remote EXCEPT !.awaits = NoHeader, !.nextId = @ + 1,
                            !.streams = With(@, remote.nextId,
                                             [peer |-> msg.arg0, waiting |-> FALSE])]
             /\ Replies(<<Msg("OKAY", remote.nextId, msg.arg0)>>)
    BY <1>7, <2>1, <2>3, AcceptKeepsAgreement
  <2>4. CASE /\ remote' = [remote EXCEPT !.awaits = NoHeader]
             /\ Replies(<<Msg("CLSE", NoId, msg.arg0)>>)
    <3> PICK m : m = Msg("CLSE", NoId, msg.arg0)
      OBVIOUS
    <3>1. m \in DeviceMessage /\ m.command = "CLSE" /\ Says(m)
      BY <1>2, <2>4, IdsAreNumbers DEF DeviceMessage, AdbMessage, Msg, Commands, Says
    <3>2. \A k, id, r : m = Msg(k, r, id) => r \notin RemoteIds
      BY <1>3, MessageIsItsFields
    <3> QED
      BY <1>4, <1>5, <1>7, <2>4, <3>1, <3>2
  <2> QED
    BY <2>2, <2>3, <2>4
<1>8. CASE msg.command = "OKAY" /\ msg.arg1 \in DOMAIN remote.streams
  <2>1. /\ remote' = [remote EXCEPT !.streams[msg.arg1] = [peer |-> msg.arg0,
                                                            waiting |-> FALSE]]
        /\ UNCHANGED toHost
    BY <1>8 DEF DeviceHandles
  <2> QED
    BY <1>8, <2>1, OkayKeepsAgreement
<1>9. CASE msg.command = "WRTE" /\ msg.arg1 \in DOMAIN remote.streams
  <2> PICK m : m = Msg("OKAY", msg.arg1, msg.arg0)
    OBVIOUS
  <2>1. remote' = [remote EXCEPT !.awaits = NoHeader] /\ Replies(<<m>>)
    BY <1>9 DEF DeviceHandles
  <2>2. m \in DeviceMessage /\ m.command = "OKAY" /\ Says(m)
    BY <1>2, <1>3, <1>9, <2>1 DEF DeviceMessage, AdbMessage, Msg, Commands, Says
  <2>3. ASSUME NEW k, NEW id, NEW r, m = Msg(k, r, id) PROVE Paired(id, r)
    <3>1. msg = Msg("WRTE", id, r)
      BY <1>1, <1>9, <2>3, MessageIsItsFields
    <3>2. OnTheWire(Msg("WRTE", id, r))
      BY <1>1, <3>1
    <3> QED
      BY <3>2 DEF Paired, StreamCommands
  <2> QED
    BY <1>4, <1>5, <1>9, <2>1, <2>2, <2>3
<1>10. CASE msg.command = "CLSE"
  <2>1. remote' = [remote EXCEPT !.streams = Without(@, msg.arg1)] /\ UNCHANGED toHost
    BY <1>10 DEF DeviceHandles
  <2> QED
    BY <1>10, <2>1, ForgetKeepsAgreement
<1>11. CASE /\ msg.command # "CNXN"
            /\ ~(msg.command = "OPEN" /\ remote.online /\ remote.nextId \in RemoteIds)
            /\ ~(msg.command = "OKAY" /\ msg.arg1 \in DOMAIN remote.streams)
            /\ ~(msg.command = "WRTE" /\ msg.arg1 \in DOMAIN remote.streams)
            /\ msg.command # "CLSE"
  <2>1. remote' = [remote EXCEPT !.awaits = NoHeader] /\ UNCHANGED toHost
    BY <1>11 DEF DeviceHandles
  <2> PICK m : m = Msg("AUTH", 1, 0)
    OBVIOUS
  <2>2. m \in DeviceMessage /\ m.command = "AUTH" /\ Says(m)
    BY <2>1 DEF DeviceMessage, AdbMessage, Msg, Commands, Says
  <2>3. \A k \in StreamCommands : \A id, r : m # Msg(k, r, id)
    BY <2>2, MessageIsItsFields DEF StreamCommands
  <2> QED
    BY <1>4, <1>5, <1>11, <2>1, <2>2, <2>3
<1> QED
  BY <1>6, <1>7, <1>8, <1>9, <1>10, <1>11

(* The device takes a part, unless it drops the link.                      *)
LEMMA DeviceTakesKeepsAgreement ==
  ASSUME AdbInv, Agreement, linkUp, DeviceTakes, linkUp'
  PROVE  Agreement'
<1> PICK p : p = Head(wire)
  OBVIOUS
<1>1. /\ wire # << >> /\ wire' = Tail(wire) /\ UNCHANGED <<streams, nextLocalId, calls>>
      /\ \/ /\ p.kind = "header" /\ p.length > 0
            /\ remote' = [remote EXCEPT !.awaits = p] /\ UNCHANGED toHost
         \/ (p.kind = "body" \/ p.length = 0) /\ DeviceHandles(p.msg)
  BY DEF DeviceTakes, hostVars
<1>2. Took(p)
  BY <1>1 DEF Took
<1>3. CASE /\ p.kind = "header" /\ p.length > 0
           /\ remote' = [remote EXCEPT !.awaits = p] /\ UNCHANGED toHost
  <2>1. p \in WholePart /\ Takes
    BY <1>2, TookFacts
  <2>2. p.msg.command # "OKAY"
    BY <1>3, <2>1 DEF WholePart, Part
  <2>3. \A id, r : p.msg # Msg("OKAY", id, r)
    BY <2>2, MessageIsItsFields
  <2>4. remote'.streams = remote.streams /\ remote'.nextId = remote.nextId
    BY <1>3, DeviceTypes DEF Device
  <2> PICK m : m = Msg("AUTH", 1, 0)
    OBVIOUS
  <2>5. m \in DeviceMessage /\ m.command = "AUTH" /\ Says(m)
    BY <1>3 DEF DeviceMessage, AdbMessage, Msg, Commands, Says
  <2>6. \A k \in StreamCommands : \A id, r : m # Msg(k, r, id)
    BY <2>5, MessageIsItsFields DEF StreamCommands
  <2> QED
    BY <1>1, <2>1, <2>3, <2>4, <2>5, <2>6, AnswerKeepsAgreement
<1>4. CASE (p.kind = "body" \/ p.length = 0) /\ DeviceHandles(p.msg)
  BY <1>2, <1>4, DeviceHandlesKeepsAgreement
<1> QED
  BY <1>1, <1>3, <1>4

-----------------------------------------------------------------------------
(* Nobody speaks of any stream at first.                                   *)
LEMMA InitAgreement ==
  ASSUME Init
  PROVE  Agreement
<1>1. /\ DOMAIN streams = {} /\ DOMAIN wire = {} /\ DOMAIN toHost = {}
      /\ DOMAIN remote.streams = {} /\ remote.nextId = 1
  <2>1. \A s : s = << >> => DOMAIN s = {}
    OBVIOUS
  <2> QED
    BY <2>1 DEF Init
<1>2. \A c \in Calls : calls[c].msg = Msg("CNXN", 0, 0) /\ calls[c].step = "idle"
                       /\ calls[c].msg.command = "CNXN"
  BY DEF Init, NewCall, Msg
<1>3. \A id \in LocalIds, r \in RemoteIds : ~Paired(id, r)
  BY <1>1, <1>2 DEF Paired, OpenHere, HasPeer, OnTheWire, OnItsWay, StreamCommands, Msg
<1>4. PartsAreWhole
  BY <1>1, <1>2, KindsOfCalls DEF PartsAreWhole
<1>5. HostAsksOnce
  BY <1>1, <1>2 DEF HostAsksOnce, ToAsk
<1>6. PairsMatch /\ PairsAgree
  BY <1>1, <1>3 DEF PairsMatch, PairsAgree
<1>7. OpenHasRemote /\ DeviceAsksOnce /\ OkayComesFirst /\ AckIsDue
  BY <1>1 DEF OpenHasRemote, DeviceAsksOnce, OkayComesFirst, AckIsDue
<1>8. ClosedIsForgotten
  BY <1>1 DEF ClosedIsForgotten, OnTheWire
<1> QED
  BY <1>4, <1>5, <1>6, <1>7, <1>8 DEF Agreement

(* A step of the host that fails says so; no other one disturbs it.        *)
LEMMA HostKeepsAgreement ==
  ASSUME AdbInv, Agreement, linkUp, HostStep, ~reported'
  PROVE  Agreement'
<1>1. ASSUME NEW c \in Calls, SendBody(c) \/ BodyWritten(c) \/ CallFails(c)
      PROVE  Agreement'
  BY <1>1, SendBodyKeepsAgreement, BodyWrittenKeepsAgreement DEF CallFails
<1>2. ASSUME NEW id \in LocalIds, CloseStream(id) \/ Accepted(id)
      PROVE  Agreement'
  BY <1>2, CloseStreamKeepsAgreement, UnchangedKeepsAgreement DEF Accepted
<1>3. ASSUME NEW w \in Writes, NEW id \in LocalIds, BeginWrite(w, id)
      PROVE  Agreement'
  BY <1>3, BeginWriteKeepsAgreement
<1>4. ~EmptyFails
  BY DEF EmptyFails
<1>5. ASSUME NEW o \in Opens, Open(o)
      PROVE  Agreement'
  BY <1>5, OpenKeepsAgreement
<1>6. CASE Connect
  BY <1>6, ConnectKeepsAgreement
<1>7. CASE OnCnxn \/ OnAuth \/ OnOpen \/ OnOkay \/ OnWrte \/ OnClse
  BY <1>7, OnCnxnKeepsAgreement, OnAuthKeepsAgreement, OnOpenKeepsAgreement,
     OnOkayKeepsAgreement, OnWrteKeepsAgreement, OnClseKeepsAgreement
<1> QED
  BY <1>1, <1>2, <1>3, <1>4, <1>5, <1>6, <1>7 DEF HostStep

(* Nor does any step of the device, while the link is up.                  *)
LEMMA DeviceKeepsAgreement ==
  ASSUME AdbInv, Agreement, linkUp, DeviceStep, linkUp'
  PROVE  Agreement'
BY DeviceTakesKeepsAgreement, DeviceOpensKeepsAgreement, DeviceAsksAuthKeepsAgreement,
   DeviceWritesKeepsAgreement, DeviceClosesKeepsAgreement DEF DeviceStep

(* Neither a dropped link nor a report is ever taken back.                 *)
LEMMA TroubleStays ==
  ASSUME AdbInv, [Next]_vars
  PROVE  (linkUp' => linkUp) /\ (~reported' => ~reported)
<1>1. CASE HostStep
  <2>1. ASSUME NEW c \in Calls, SendBody(c) \/ BodyWritten(c) \/ CallFails(c)
        PROVE  UNCHANGED linkUp /\ (~reported' => ~reported)
    BY <2>1 DEF SendBody, BodyWritten, CallFails
  <2>2. ASSUME NEW id \in LocalIds, CloseStream(id) \/ Accepted(id)
        PROVE  UNCHANGED linkUp /\ (~reported' => ~reported)
    BY <2>2 DEF CloseStream, Accepted
  <2>3. ASSUME NEW w \in Writes, NEW id \in LocalIds, BeginWrite(w, id)
        PROVE  UNCHANGED linkUp /\ (~reported' => ~reported)
    BY <2>3 DEF BeginWrite
  <2>4. ASSUME NEW o \in Opens, Open(o)
        PROVE  UNCHANGED linkUp /\ (~reported' => ~reported)
    BY <2>4 DEF Open
  <2>5. CASE Connect \/ EmptyFails
    BY <2>5 DEF Connect, EmptyFails
  <2>6. CASE OnCnxn \/ OnAuth \/ OnOpen \/ OnOkay \/ OnWrte \/ OnClse
    BY <2>6 DEF OnCnxn, OnAuth, OnOpen, OnOkay, OnWrte, OnClse
  <2> QED
    BY <1>1, <2>1, <2>2, <2>3, <2>4, <2>5, <2>6 DEF HostStep
<1>2. CASE DeviceStep
  <2>1. CASE DeviceTakes
    BY <2>1 DEF DeviceTakes
  <2>2. ASSUME NEW m, DeviceSends(m) PROVE UNCHANGED <<linkUp, reported>>
    BY <2>2 DEF DeviceSends
  <2> QED
    BY <1>2, <2>1, <2>2 DEF DeviceStep, DeviceOpens, DeviceAsksAuth, DeviceWrites, DeviceCloses
<1>3. CASE UNCHANGED vars
  BY <1>3 DEF vars
<1> QED
  BY <1>1, <1>2, <1>3 DEF Next

(* The agreement lasts until the link drops or a write is reported.        *)
LEMMA StepKeepsAgreement ==
  ASSUME AdbInv, StreamsInv, [Next]_vars
  PROVE  StreamsInv'
<1> SUFFICES ASSUME linkUp', ~reported'
             PROVE  Agreement'
  BY DEF StreamsInv
<1>1. linkUp /\ Agreement
  BY TroubleStays DEF StreamsInv
<1>2. CASE HostStep
  BY <1>1, <1>2, HostKeepsAgreement
<1>3. CASE DeviceStep
  BY <1>1, <1>3, DeviceKeepsAgreement
<1>4. CASE UNCHANGED vars
  BY <1>1, <1>4, UnchangedKeepsAgreement DEF vars, hostVars
<1> QED
  BY <1>2, <1>3, <1>4 DEF Next

(* However the calls of the host and the messages of both ends interleave, *)
(* what either end knows of a stream stays in agreement with the other,    *)
(* as long as the link is up and no write was reported as failed.          *)
THEOREM StreamsInvariance == Spec => []StreamsInv
<1>1. Init => StreamsInv
  BY InitAgreement DEF StreamsInv
<1>2. AdbInv /\ StreamsInv /\ [Next]_vars => StreamsInv'
  BY StepKeepsAgreement
<1> QED
  BY <1>1, <1>2, AdbInvariance, PTL DEF Spec

(* The host never holds a stream open that the device does not know as its *)
(* peer, will not learn of, or did not close (open, handleOkay,            *)
(* acceptStream, closeStream).                                             *)
THEOREM BothEndsAgree == Spec => []StreamsAgree
<1>1. AdbInv /\ StreamsInv => StreamsAgree
  <2> SUFFICES ASSUME AdbInv, Agreement, NEW id \in DOMAIN streams, streams[id].open
               PROVE  Agreed(id, streams[id].remoteId)
    BY DEF StreamsAgree, StreamsInv, Agreed, HasPeer
  <2>1. id \in LocalIds /\ streams[id].remoteId \in RemoteIds
    BY RemoteTypes DEF AdbInv, Agreement, OpenHasRemote
  <2>2. Paired(id, streams[id].remoteId)
    BY DEF Paired, OpenHere
  <2> QED
    BY <2>1, <2>2 DEF Agreement, PairsAgree
<1> QED
  BY <1>1, AdbInvariance, StreamsInvariance, PTL

(* While the device waits for an acknowledgement on a stream of the host,  *)
(* its WRTE or the host's OKAY is on the way (handleWrte).                 *)
THEOREM AcksAreKept == Spec => []NoAckIsLost
<1>1. StreamsInv => NoAckIsLost
  BY DEF StreamsInv, Agreement, AckIsDue, NoAckIsLost
<1> QED
  BY <1>1, StreamsInvariance, PTL
=============================================================================
