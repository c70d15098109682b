------------------------ MODULE PrintSystemInvariant ------------------------
(***************************************************************************)
(* Why the properties of PrintSystem hold: what host and device know of    *)
(* each other at any moment of a conversation, in three layers, each an    *)
(* inductive invariant under weaker and then stronger assumptions on the   *)
(* caller.  A frame some job is still to see counts as coming, being       *)
(* delivered or not.                                                       *)
(***************************************************************************)
EXTENDS PrintSystem

Running == {j \in Jobs : outcome[j] = "running"}

Coming == ToSet(toHost) \cup (IF todo \cap Jobs = {} THEN {} ELSE {frame})

(* In the sequence s no member of B follows a member of A.                 *)
NoneAfter(s, A, B) ==
  \A i, k \in DOMAIN s : i < k => ~(s[i] \in A /\ s[k] \in B)

(* A request of the device for the bytes from some offset on.              *)
IsRequest(f) == f.payload # <<>> /\ f = RequestFrame(f.payload[1])

(* First layer, for any caller and device: what travels is what the two    *)
(* sides can send, and a heartbeat that waits for its echo is on its way.  *)
DeviceFrame ==
  {f \in PrinterFrame :
     \/ f \in {NeedsAck, ReadyFrame, MediaInfo, FinishedFrame, FaultFrame,
               Heartbeat, InfoBlock}
     \/ IsRequest(f)
     \/ MayTearDown /\ f = TearDown}

KnownMessage ==
  {m \in GoodMessage :
     /\ m.frame.opcode = Command.SESSION_START => m.by \in Jobs
     /\ m.frame.opcode \in PrintStarts => m.frame.payload # <<>>
     /\ m.by \in Jobs => outcome[m.by] # "idle"}

DeviceFollowsJobs ==
  /\ device.phase # "quiet" => device.job \in Jobs
  /\ device.job \in Jobs => outcome[device.job] # "idle"

EchoIsDue ==
  device.awaitsEcho /\ channel = "open" /\ device.job \in Running
    => \/ Heartbeat \in ToSet(toHost)
       \/ frame = Heartbeat /\ device.job \in todo
       \/ [by |-> device.job, frame |-> HeartbeatEcho] \in ToSet(wire)

(* Host and device send each other nothing but what the other side knows,  *)
(* and no heartbeat is lost: whatever printRaw, cancel and the device      *)
(* queries write and however their writes fail.                            *)
TrafficInv ==
  /\ IInv
  /\ device \in Device
  /\ printed \subseteq Jobs
  /\ spoiled \in BOOLEAN
  /\ toHost \in Seq(DeviceFrame)
  /\ todo # {} => frame \in DeviceFrame
  /\ ToSet(wire) \subseteq KnownMessage
  /\ DeviceFollowsJobs
  /\ EchoIsDue

(* Second layer, for a caller that leaves a connection on which a job      *)
(* failed: host and device agree on which job they are at.  They are calm  *)
(* when the device is at no job and nothing that starts or ends one is on  *)
(* its way.                                                                *)
Resting == {"quiet", "finished", "gaveUp", "aborted"}

(* The frames that end a job.                                              *)
Enders == {FinishedFrame, FaultFrame, TearDown}

StartMessage == {m \in Message : m.frame.opcode = Command.SESSION_START}

Starts == ToSet(wire) \cap StartMessage

Calm == device.phase \in Resting /\ Starts = {} /\ Coming \cap Enders = {}

(* A job that runs is the one the device is at, or its start is on its     *)
(* way; while a start is, the device is at no job and ends none.           *)
DeviceIsAtTheJob ==
  /\ \A j \in Running : device.job = j \/ \E m \in Starts : m.by = j
  /\ \A m \in Starts : Running \subseteq {m.by}
  /\ Starts # {} => device.phase \in Resting /\ Coming \cap Enders = {}
  /\ NoneAfter(wire, StartMessage, StartMessage)

(* A job hears of its end once, when the device has left it.               *)
EndsOnce ==
  /\ Coming \cap Enders # {} => device.phase \in Resting
  /\ NoneAfter(toHost, Enders, Enders)
  /\ todo \cap Jobs # {} /\ frame \in Enders => ToSet(toHost) \cap Enders = {}

(* At most one job runs, and none on a connection a job failed on.         *)
OneRuns ==
  /\ \A j, k \in Running : j = k
  /\ spoiled => Running = {}

ClosedIsReset ==
  channel = "closed" => /\ ~spoiled
                        /\ device.phase = "quiet"
                        /\ toHost = <<>>
                        /\ wire = <<>>

(* Without a job that still has to hear of its end, all is calm.           *)
CalmAtRest ==
  /\ Running = {} /\ ~spoiled => Calm
  /\ \A j \in Running : session[j].finished => Calm

FinishedIsPrinted ==
  /\ FinishedFrame \in Coming => device.job \in printed
  /\ ~MayTearDown => FinishedMeansPrinted

(* Host and device agree on the job: printRaw starts one when the device   *)
(* is calm, the end of a job reaches that job once and no later one.       *)
TurnInv ==
  /\ TrafficInv
  /\ OneRuns
  /\ ClosedIsReset
  /\ CalmAtRest
  /\ DeviceIsAtTheJob
  /\ EndsOnce
  /\ FinishedIsPrinted

(* Third layer, without device queries: host and device take turns.  Apart *)
(* from heartbeats, their echoes and cancels, one frame is on its way at a *)
(* time, and it is the one its receiver is waiting for.                    *)
GivenUp == {"gaveUp", "aborted"}

(* The frames of the device that a job answers, echoes aside.              *)
Questions ==
  {f \in PrinterFrame : f \in {NeedsAck, ReadyFrame, FinishedFrame} \/ IsRequest(f)}

(* The messages of a job, echoes aside.                                    *)
Answered == {m \in Message : m.by \in Jobs /\ m.frame # HeartbeatEcho}

AckFrame == HostFrameOf(Command.ACK, 53, 0, <<>>)

(* What nobody waits for: cancels and the echoes of heartbeats, heartbeats *)
(* and reports on the media.                                               *)
Asides ==
  {m \in Message : \/ m.by = Caller /\ m.frame = EndJobFrame
                   \/ m.by \in Jobs /\ m.frame = HeartbeatEcho}

SmallTalk == {Heartbeat, MediaInfo}

Placeable ==
  {m \in Message :
     \/ m \in Asides
     \/ m.by \in Jobs /\ m.frame = StartFrame
     \/ /\ m.by = device.job
        /\ \/ /\ m.frame = AckFrame
              /\ device.phase \in {"greeting", "received"} \cup GivenUp
           \/ /\ m.frame.opcode \in PrintStarts
              /\ device.phase \in {"ready"} \cup GivenUp
           \/ /\ m.frame.opcode \in DataOpcodes
              /\ m.frame.payload[1] = device.got
              /\ m.frame.payload[2] <= session[m.by].bytesSent
              /\ device.phase \in {"pulling"} \cup GivenUp
           \/ /\ m.frame = EndJobFrame
              /\ device.phase \in {"finished"} \cup GivenUp}

Due ==
  {f \in DeviceFrame :
     \/ f \in SmallTalk
     \/ f = NeedsAck /\ device.phase \in {"greeting", "received"} \cup GivenUp
     \/ f = ReadyFrame /\ device.phase \in {"ready"} \cup GivenUp
     \/ f = RequestFrame(device.got) /\ device.phase \in {"pulling"} \cup GivenUp
     \/ f = FinishedFrame /\ device.phase \in {"finished"} \cup GivenUp
     \/ f \in {FaultFrame, TearDown} /\ device.phase \in GivenUp}

OneQuestion ==
  /\ NoneAfter(toHost, Questions \cup {TearDown}, Questions)
  /\ todo \cap Jobs # {} /\ frame \in Questions \cup {TearDown}
       => ToSet(toHost) \cap Questions = {}

OneAnswer ==
  /\ NoneAfter(wire, Answered, Answered \ StartMessage)
  /\ NoneAfter(wire, StartMessage, Answered)

Unasked == Coming \cap Questions = {}

TakesTurns ==
  /\ device.phase \in {"greeting", "ready"} => device.got = 0
  /\ ToSet(wire) \subseteq Placeable
  /\ Coming \subseteq Due
  /\ OneQuestion
  /\ OneAnswer
  /\ ToSet(wire) \cap Answered # {} => Unasked
  /\ Running = {} /\ ~spoiled => Unasked
  /\ \A j \in Running : session[j].finished => Unasked

(* Host and device take turns: what printRaw answers is what the device    *)
(* waits for, and onProgress is ahead of what the device holds.            *)
ConversationInv ==
  /\ TurnInv
  /\ PrinterNeverConfused
  /\ ProgressCoversReceipt
  /\ TakesTurns
=============================================================================
