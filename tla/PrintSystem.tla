---------------------------- MODULE PrintSystem -----------------------------
(***************************************************************************)
(* Printer and the printer it talks to, over a channel that delivers in    *)
(* order or breaks.  The device is not in the repository: it is modelled   *)
(* from how the code and its tests drive it (the job flow session.ts       *)
(* implements, the fake printer of test/printer.test.ts) and it pulls the  *)
(* image at the offsets it chooses, keeping part of each slice.            *)
(*                                                                         *)
(* The caller runs one job at a time.  Whether it keeps using a connection *)
(* after a job on it failed is a constant.                                 *)
(***************************************************************************)
EXTENDS Printer

CONSTANTS
  Keeps,              \* bytes the device keeps of one data frame
  MaxToHost,          \* bound: frames on their way to the host
  ReuseAfterFailure,  \* the caller starts a job after one failed
  BeatsWhenQuiet,     \* the device sends heartbeats outside a session too
  MayTearDown         \* the device may end the session by itself

ASSUME SystemAssumption ==
  /\ Keeps \in Nat \ {0}
  /\ MaxToHost \in Nat
  /\ {ReuseAfterFailure, BeatsWhenQuiet, MayTearDown} \subseteq BOOLEAN

VARIABLES
  device,    \* the printer
  toHost,    \* frames on their way to the host, oldest first
  printed,   \* the jobs the device printed in full
  spoiled    \* a job failed on this connection

sysVars == <<vars, device, toHost, printed, spoiled>>

NoJob == Caller

Phases == {"quiet", "greeting", "ready", "pulling", "received", "printing",
           "finished", "gaveUp", "aborted"}

Device == [phase: Phases, job: Jobs \cup {NoJob}, want: Nat, got: Nat,
           awaitsEcho: BOOLEAN, confused: BOOLEAN]

QuietDevice == [phase |-> "quiet", job |-> NoJob, want |-> 0, got |-> 0,
                awaitsEcho |-> FALSE, confused |-> FALSE]

SysTypeOK ==
  /\ TypeOK
  /\ device \in Device
  /\ toHost \in Seq(PrinterFrame)
  /\ printed \subseteq Jobs
  /\ spoiled \in BOOLEAN

SysInit ==
  /\ Init
  /\ device = QuietDevice
  /\ toHost = <<>>
  /\ printed = {}
  /\ spoiled = FALSE

-----------------------------------------------------------------------------
(* The frames of the device, as in the hardware trace of PROTOCOL.md: the  *)
(* opcode of a print state frame carries no information.                   *)
StateFrame(state, detail, payload) ==
  [opcode |-> Notification.PRINT_STATE, arg1 |-> state, arg2 |-> 0,
   arg3 |-> detail, payload |-> payload]

NotificationFrame(op, payload) ==
  [opcode |-> op, arg1 |-> 0, arg2 |-> 0, arg3 |-> 0, payload |-> payload]

NeedsAck == StateFrame(PrintState.NEEDS_ACK, 53, <<>>)
ReadyFrame == StateFrame(PrintState.READY, 28, <<>>)
RequestFrame(offset) == StateFrame(PrintState.REQUEST_DATA, 0, <<offset>>)
MediaInfo == StateFrame(PrintState.MEDIA_INFO, 1, <<>>)
FinishedFrame == StateFrame(PrintState.FINISHED, 0, <<>>)
FaultFrame == StateFrame(PrintState.REQUEST_DATA, 4, <<>>)
Heartbeat == NotificationFrame(Notification.HEARTBEAT, <<>>)
InfoBlock == NotificationFrame(Notification.DEVICE_INFO, <<0, 7>>)
TearDown == NotificationFrame(Notification.SESSION_END, <<>>)

PrintStarts == {Command.PRINT_START, Command.PRINT_START_LEGACY}

Smaller(m, n) == IF m < n THEN m ELSE n

Reaction(d, frames) == [device |-> d, frames |-> frames]

(* A frame the device cannot place: it drops it unless it has given up on  *)
(* the job anyway.                                                         *)
Unplaced(d) ==
  Reaction([d EXCEPT !.confused = d.phase \notin {"gaveUp", "aborted"}], <<>>)

(* The device takes the slice that continues what it holds.                *)
TakeSlice(d, slice) ==
  LET got == Smaller(slice[2], d.got + Keeps)
  IN  IF got = d.want
      THEN Reaction([d EXCEPT !.got = got, !.phase = "received"], <<NeedsAck>>)
      ELSE Reaction([d EXCEPT !.got = got], <<RequestFrame(got)>>)

(* What the device does with one frame of the host.                        *)
Reacts(d, m) ==
  LET f == m.frame
  IN  CASE f.opcode = Command.SESSION_START ->
             Reaction([QuietDevice EXCEPT !.phase = "greeting", !.job = m.by,
                                          !.confused = d.confused], <<NeedsAck>>)
        [] f.opcode = Command.HEARTBEAT ->
             Reaction([d EXCEPT !.awaitsEcho = FALSE], <<>>)
        [] f.opcode = Command.DEVICE_INFO ->
             Reaction(d, <<InfoBlock>>)
        [] f.opcode = Command.ACK /\ d.phase = "greeting" /\ f.arg1 = 53 ->
             Reaction([d EXCEPT !.phase = "ready"], <<ReadyFrame>>)
        [] f.opcode = Command.ACK /\ d.phase = "received" /\ f.arg1 = 53 ->
             Reaction([d EXCEPT !.phase = "printing"], <<>>)
        [] f.opcode \in PrintStarts /\ d.phase = "ready" ->
             Reaction([d EXCEPT !.phase = "pulling", !.want = f.payload[1]],
                      <<RequestFrame(0)>>)
        [] f.opcode \in DataOpcodes /\ d.phase = "pulling" /\ f.payload[1] = d.got ->
             TakeSlice(d, f.payload)
        [] f.opcode = Command.END_JOB /\ m.by = Caller ->
             Reaction([d EXCEPT !.phase = IF @ = "quiet" THEN @ ELSE "aborted",
                                !.awaitsEcho = FALSE], <<>>)
        [] f.opcode = Command.END_JOB /\ m.by # Caller /\ d.phase = "finished" ->
             Reaction([d EXCEPT !.phase = "quiet", !.awaitsEcho = FALSE], <<>>)
        [] OTHER -> Unplaced(d)

-----------------------------------------------------------------------------
(* A step of the host that leaves the device alone.                        *)
HostOnly == UNCHANGED <<device, toHost, printed>>

(* Bookkeeping of every step: a failed job spoils the connection it ran on. *)
Bookkeeping ==
  spoiled' = /\ channel' # "closed"
             /\ \/ spoiled
                \/ \E j \in Jobs : outcome[j] = "running" /\ outcome'[j] \in Failures

NoJobRuns == \A j \in Jobs : outcome[j] # "running"

SysConnect == Connect /\ HostOnly

SysDisconnect == Disconnect /\ HostOnly

(* A lost channel takes both directions with it, and the device forgets.   *)
SysCloses ==
  /\ ChannelCloses
  /\ device' = [QuietDevice EXCEPT !.confused = device.confused]
  /\ toHost' = <<>>
  /\ UNCHANGED printed

SysStartJob(j) ==
  /\ NoJobRuns
  /\ spoiled => ReuseAfterFailure
  /\ StartJob(j) \/ RefuseJob(j)
  /\ HostOnly

SysCancel ==
  /\ ~NoJobRuns
  /\ Cancel
  /\ HostOnly

(* A frame reaches the host: it goes to the listeners, or is dropped when  *)
(* there are none.                                                         *)
Deliver ==
  /\ toHost # <<>>
  /\ toHost' = Tail(toHost)
  /\ \/ BeginDelivery(Head(toHost))
     \/ Idle /\ channel # "closed" /\ frameListeners = {} /\ UNCHANGED vars
  /\ UNCHANGED <<device, printed>>

HandleDelivered ==
  /\ \/ \E j \in Jobs : OnFrame(j)
     \/ \E q \in Queries : InfoOnFrame(q)
  /\ HostOnly

HandlerStep == Deliver \/ HandleDelivered

JobWriteSettles(j) == (WriteLands(j) \/ WriteFails(j)) /\ HostOnly

SysTimeout(j) == JobTimeout(j) /\ HostOnly

SysQuery(q) ==
  /\ RequestDeviceInfo(q) \/ RequestSettles(q) \/ InfoTimeout(q)
  /\ HostOnly

-----------------------------------------------------------------------------
(* The device takes the oldest frame of the host and answers it.           *)
DeviceTakes ==
  /\ PrinterTakes
  /\ LET r == Reacts(device, Head(wire))
     IN  /\ device' = r.device
         /\ toHost' = toHost \o r.frames
  /\ UNCHANGED printed

DeviceSends(d, f) ==
  /\ channel # "closed"
  /\ Idle
  /\ device' = d
  /\ toHost' = Append(toHost, f)
  /\ UNCHANGED vars

(* The sheet is out: the device says so once.                              *)
DeviceFinishes ==
  /\ device.phase = "printing"
  /\ DeviceSends([device EXCEPT !.phase = "finished"], FinishedFrame)
  /\ printed' = printed \cup {device.job}

DeviceReportsMedia ==
  /\ device.phase = "printing"
  /\ Len(toHost) < MaxToHost
  /\ DeviceSends(device, MediaInfo)
  /\ UNCHANGED printed

(* A heartbeat, while the last one is answered.                            *)
DeviceBeats ==
  /\ ~device.awaitsEcho
  /\ device.phase \in {"quiet", "finished", "gaveUp", "aborted"} => BeatsWhenQuiet
  /\ Len(toHost) < MaxToHost
  /\ DeviceSends([device EXCEPT !.awaitsEcho = TRUE], Heartbeat)
  /\ UNCHANGED printed

DeviceFaults ==
  /\ device.phase \in {"greeting", "ready", "pulling", "received", "printing"}
  /\ DeviceSends([device EXCEPT !.phase = "gaveUp"], FaultFrame)
  /\ UNCHANGED printed

DeviceTearsDown ==
  /\ MayTearDown
  /\ device.phase \in {"greeting", "ready", "pulling", "received", "printing"}
  /\ DeviceSends([device EXCEPT !.phase = "gaveUp"], TearDown)
  /\ UNCHANGED printed

SysNext ==
  /\ \/ SysConnect \/ SysDisconnect \/ SysCloses \/ SysCancel
     \/ \E j \in Jobs : SysStartJob(j) \/ JobWriteSettles(j) \/ SysTimeout(j)
     \/ \E q \in Queries : SysQuery(q)
     \/ HandlerStep
     \/ DeviceTakes \/ DeviceFinishes \/ DeviceReportsMedia \/ DeviceBeats
     \/ DeviceFaults \/ DeviceTearsDown
  /\ Bookkeeping

(* The event loop runs every handler that is ready and settles every write *)
(* (it serves the queues in turn, so a handler that is ready again and     *)
(* again does run: strong fairness); a closing transport closes; the       *)
(* device reads its input and finishes what it prints.  Timers may fire    *)
(* but no fairness forces them to.                                         *)
Fairness ==
  /\ WF_sysVars(HandlerStep /\ Bookkeeping)
  /\ \A j \in Jobs : SF_sysVars(JobWriteSettles(j) /\ Bookkeeping)
  /\ SF_sysVars(channel = "closing" /\ SysCloses /\ Bookkeeping)
  /\ SF_sysVars(DeviceTakes /\ Bookkeeping)
  /\ SF_sysVars(DeviceFinishes /\ Bookkeeping)

SysSpec == SysInit /\ [][SysNext]_sysVars /\ Fairness

-----------------------------------------------------------------------------
(* A call of printRaw that resolved printed its whole image: the device    *)
(* pulled every byte of that job and reported the sheet finished.          *)
ResolvedMeansPrinted == \A j \in Jobs : outcome[j] = "resolved" => j \in printed

(* The host never sends a frame the device cannot place at that point of   *)
(* the job: no second job start, no slice at another offset, no END_JOB    *)
(* before the print is done, no acknowledgement of something else.         *)
PrinterNeverConfused == ~device.confused

(* While a job runs on a working channel, a heartbeat that was sent during *)
(* its session and is still unanswered is on its way to the job, or its    *)
(* echo is on its way back: none is lost.                                  *)
HeartbeatsAreEchoed ==
  device.awaitsEcho /\ device.job \in Jobs /\ channel = "open"
      /\ outcome[device.job] = "running"
    => \/ \E i \in DOMAIN toHost : toHost[i] = Heartbeat
       \/ frame = Heartbeat /\ device.job \in todo
       \/ \E i \in DOMAIN wire : wire[i].frame = HeartbeatEcho

(* onProgress never reports fewer bytes than the device already holds, and *)
(* the device never holds bytes the job did not announce.                  *)
ProgressCoversReceipt ==
  device.job \in Jobs => device.got <= session[device.job].bytesSent

(* A job ends by the protocol alone: unless the device aborted it after a  *)
(* cancel, it settles even if its timer never fires.                       *)
JobsSettleWithoutTimer ==
  \A j \in Jobs :
    outcome[j] = "running" ~> (outcome[j] # "running" \/ device.phase = "aborted")

(* A device query whose request left the host is answered without its      *)
(* timer, as long as the channel stays open: the listener is registered    *)
(* before the request is written and stays until the block arrives.  (Only *)
(* the timer ends a query whose channel closed: it has no close listener.) *)
QueriesSettleWithoutTimer ==
  \A q \in Queries :
    (\E i \in DOMAIN wire : wire[i].by = q /\ wire[i].frame = DeviceInfoRequest)
      ~> (answer[q] # "waiting" \/ channel # "open")

(* What PROTOCOL.md says of the device information block: it is dispatched *)
(* on its opcode, so it never drives the print state machine of a job.     *)
InfoBlockIsNoPrintState ==
  [][frame = InfoBlock => /\ session' = session
                          /\ outcome' = outcome
                          /\ wire' = wire]_sysVars

(* What session.ts says of isFinished: true once the printer acknowledged  *)
(* the end of that job.                                                    *)
FinishedMeansPrinted == \A j \in Jobs : session[j].finished => j \in printed
=============================================================================
