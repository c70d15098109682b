------------------------------ MODULE AdbHost -------------------------------
(***************************************************************************)
(* AdbHost (src/transport/adb/host.ts): the host side of ADB.  It keeps a  *)
(* map of streams, answers the device's messages as they arrive and sends  *)
(* every message that has a payload as two writes of the link, the header  *)
(* and then the body, awaiting each write.                                 *)
(*                                                                         *)
(* An awaited write lets anything run before it continues: messages of the *)
(* device, other calls, other continuations.  A call is therefore a record *)
(* of where it stands, and each continuation an action.                    *)
(*                                                                         *)
(* The device is not in the repository.  It reads a header and its body as *)
(* two transfers, and drops the link when they do not come one after the   *)
(* other.                                                                  *)
(***************************************************************************)
EXTENDS Integers, Sequences, FiniteSets, SequencesExt

CONSTANTS
  Writes,            \* calls of write
  Opens,             \* calls of open
  Length,            \* the number of bytes each call of write carries
  LegacyMaxPayload,  \* the largest payload before the device advertises one
  DeviceMaxPayload,  \* the largest payload the device advertises
  MaxStreams,        \* bound: streams each side opens
  MaxWire,           \* bound: parts on their way to the device
  MaxToHost          \* bound: messages on their way to the host

Connector == "connect"
Nobody == "nobody"
Calls == Writes \cup Opens \cup {Connector}

ASSUME AdbAssumption ==
  /\ Writes \cap Opens = {}
  /\ {Connector, Nobody} \cap (Writes \cup Opens) = {}
  /\ Length \in [Writes -> Nat \ {0}]
  /\ {LegacyMaxPayload, DeviceMaxPayload} \subseteq Nat \ {0}
  /\ {MaxStreams, MaxWire, MaxToHost} \subseteq Nat

VARIABLES
  streams,      \* local id -> the remote id (0 until known) and open
  nextLocalId,
  maxPayload,   \* the negotiated maximum payload
  connected,    \* the device answered CNXN
  calls,        \* where each call stands
  accepting,    \* local ids whose OKAY to an OPEN is not settled
  announced,    \* how many stream events each local id had
  slices,       \* the slices each call of write sent, as <<from, to>>
  reported,     \* some write failed, and an error event or a rejection said so
  wire,         \* link writes on their way to the device, oldest first
  linkUp,       \* the device still takes part
  toHost,       \* messages on their way to the host, oldest first
  remote        \* the device: its streams, and the header it awaits a body for

hostVars == <<streams, nextLocalId, maxPayload, connected, accepting, announced>>

vars == <<hostVars, calls, slices, reported, wire, linkUp, toHost, remote>>

LocalIds == 1 .. 2 * MaxStreams
RemoteIds == 1 .. 2 * MaxStreams
NoId == 0

Commands == {"CNXN", "AUTH", "OPEN", "OKAY", "WRTE", "CLSE"}

ADB_VERSION == 16777216

(* CNXN carries the version and a payload size, AUTH a token type, every   *)
(* other message stream ids.                                               *)
AdbMessage == [command: Commands, arg0: Nat, arg1: Nat]

Msg(command, arg0, arg1) == [command |-> command, arg0 |-> arg0, arg1 |-> arg1]

(* A write of the link: the header of a message, which says how long its   *)
(* body is, or a body.                                                     *)
Part == [kind: {"header", "body"}, by: Calls \cup {Nobody}, msg: AdbMessage, length: Nat]

Header(c, msg, length) == [kind |-> "header", by |-> c, msg |-> msg, length |-> length]
Body(c, msg, length) == [kind |-> "body", by |-> c, msg |-> msg, length |-> length]

NoHeader == Header(Nobody, Msg("CNXN", 0, 0), 0)

(* A call stands before its header, awaits the header's or the body's      *)
(* write, or is settled.  msg is the message it is sending.                *)
Call == [step: {"idle", "header", "body", "done", "failed"}, msg: AdbMessage,
         from: Nat, to: Nat]

NewCall == [step |-> "idle", msg |-> Msg("CNXN", 0, 0), from |-> 0, to |-> 0]

(* peer is the local id, NoId until the host's OKAY arrived; waiting while *)
(* a WRTE of the device is not acknowledged.                               *)
DeviceStream == [peer: LocalIds \cup {NoId}, waiting: BOOLEAN]

PartialFunctions(S, T) == UNION {[D -> T] : D \in SUBSET S}

AdbTypeOK ==
  /\ streams \in PartialFunctions(LocalIds, [remoteId: RemoteIds \cup {NoId}, open: BOOLEAN])
  /\ nextLocalId \in 1 .. 2 * MaxStreams + 1
  /\ maxPayload \in {LegacyMaxPayload, DeviceMaxPayload}
  /\ {connected, reported, linkUp} \subseteq BOOLEAN
  /\ calls \in [Calls -> Call]
  /\ accepting \subseteq LocalIds
  /\ announced \in [LocalIds -> Nat]
  /\ slices \in [Writes -> Seq(Nat \X Nat)]
  /\ wire \in Seq(Part)
  /\ toHost \in Seq(AdbMessage)
  /\ remote \in [online: BOOLEAN, nextId: 1 .. 2 * MaxStreams + 1, awaits: Part,
                 streams: PartialFunctions(RemoteIds, DeviceStream)]

Init ==
  /\ streams = << >>
  /\ nextLocalId = 1
  /\ maxPayload = LegacyMaxPayload
  /\ connected = FALSE
  /\ calls = [c \in Calls |-> NewCall]
  /\ accepting = {}
  /\ announced = [id \in LocalIds |-> 0]
  /\ slices = [w \in Writes |-> << >>]
  /\ reported = FALSE
  /\ wire = << >>
  /\ linkUp = TRUE
  /\ toHost = << >>
  /\ remote = [online |-> FALSE, nextId |-> 1, awaits |-> NoHeader, streams |-> << >>]

Without(f, x) == [y \in DOMAIN f \ {x} |-> f[y]]
With(f, x, v) == [y \in DOMAIN f \cup {x} |-> IF y = x THEN v ELSE f[y]]
Smaller(m, n) == IF m < n THEN m ELSE n

-----------------------------------------------------------------------------
(* link.write: nothing arrives over a link that is down.                   *)
LinkWrite(part) ==
  /\ Len(wire) < MaxWire
  /\ wire' = IF linkUp THEN Append(wire, part) ELSE wire

(* send of a message without payload, by a caller that only reports its    *)
(* failure: the OKAY of a WRTE and the CLSE of closeStream.                *)
SendEmpty(msg) == LinkWrite(Header(Nobody, msg, 0))

(* send of a message with payload: the first of its two writes.            *)
SendHeader(c, msg, from, to) ==
  /\ LinkWrite(Header(c, msg, to - from))
  /\ calls' = [calls EXCEPT ![c] = [step |-> "header", msg |-> msg,
                                    from |-> from, to |-> to]]

(* connect: the CNXN of the host carries a banner.                         *)
Connect ==
  /\ calls[Connector].step = "idle"
  /\ SendHeader(Connector, Msg("CNXN", ADB_VERSION, LegacyMaxPayload), 0, 1)
  /\ UNCHANGED <<hostVars, slices, reported, linkUp, toHost, remote>>

(* open: the stream is in the map before the message is on the wire.       *)
Open(o) ==
  /\ calls[o].step = "idle"
  /\ nextLocalId \in LocalIds
  /\ nextLocalId' = nextLocalId + 1
  /\ streams' = With(streams, nextLocalId, [remoteId |-> NoId, open |-> FALSE])
  /\ SendHeader(o, Msg("OPEN", nextLocalId, NoId), 0, 1)
  /\ UNCHANGED <<maxPayload, connected, accepting, announced, slices, reported,
                 linkUp, toHost, remote>>

(* The step from one slice to the next taken with the default size instead *)
(* of the negotiated one.                                                  *)
NextSliceSlip(w) == calls[w].from + LegacyMaxPayload

(* offset += this.maxPayload: what it is once the slice was written.       *)
NextSlice(w) == calls[w].from + maxPayload

SliceEnd(w, from) == Smaller(from + maxPayload, Length[w])

(* write on a stream that had its stream event: it throws unless the       *)
(* stream is open now, and does not look again between two slices.         *)
BeginWrite(w, id) ==
  /\ calls[w].step = "idle"
  /\ announced[id] > 0
  /\ IF id \in DOMAIN streams /\ streams[id].open
     THEN SendHeader(w, Msg("WRTE", id, streams[id].remoteId), 0, SliceEnd(w, 0))
     ELSE /\ calls' = [calls EXCEPT ![w].step = "failed"]
          /\ UNCHANGED wire
  /\ UNCHANGED <<hostVars, slices, reported, linkUp, toHost, remote>>

(* The header was written: the body follows.                               *)
SendBody(c) ==
  /\ calls[c].step = "header"
  /\ LinkWrite(Body(c, calls[c].msg, calls[c].to - calls[c].from))
  /\ calls' = [calls EXCEPT ![c].step = "body"]
  /\ slices' = IF c \in Writes
               THEN [slices EXCEPT ![c] = Append(@, <<calls[c].from, calls[c].to>>)]
               ELSE slices
  /\ UNCHANGED <<hostVars, reported, linkUp, toHost, remote>>

(* The body was written: the call is done, or sends the next slice.        *)
BodyWritten(c) ==
  /\ calls[c].step = "body"
  /\ IF c \in Writes /\ NextSlice(c) < Length[c]
     THEN SendHeader(c, calls[c].msg, NextSlice(c), SliceEnd(c, NextSlice(c)))
     ELSE /\ calls' = [calls EXCEPT ![c].step = "done"]
          /\ UNCHANGED wire
  /\ UNCHANGED <<hostVars, slices, reported, linkUp, toHost, remote>>

(* A write a call awaits failed; the part may still have got through.      *)
CallFails(c) ==
  /\ calls[c].step \in {"header", "body"}
  /\ calls' = [calls EXCEPT ![c].step = "failed"]
  /\ reported' = TRUE
  /\ wire' \in {wire} \cup {RemoveAt(wire, i) : i \in {k \in DOMAIN wire :
                   wire[k].by = c /\ wire[k].kind = calls[c].step}}
  /\ UNCHANGED <<hostVars, slices, linkUp, toHost, remote>>

(* The write of an OKAY or a CLSE failed, and may still have got through.  *)
(* When it is the OKAY of an OPEN there will be no stream event.           *)
EmptyFails ==
  /\ \/ \E i \in DOMAIN wire :
          /\ wire[i].by = Nobody
          /\ wire' = RemoveAt(wire, i)
          /\ accepting' \in {accepting} \cup
               (IF wire[i].msg.command = "OKAY" THEN {accepting \ {wire[i].msg.arg0}} ELSE {})
     \/ \E id \in accepting :
          /\ accepting' = accepting \ {id}
          /\ UNCHANGED wire
  /\ reported' = TRUE
  /\ UNCHANGED <<streams, nextLocalId, maxPayload, connected, announced, calls,
                 slices, linkUp, toHost, remote>>

(* closeStream, also as close does it for each stream in turn.             *)
CloseStream(id) ==
  /\ id \in DOMAIN streams
  /\ streams' = Without(streams, id)
  /\ SendEmpty(Msg("CLSE", id, streams[id].remoteId))
  /\ UNCHANGED <<nextLocalId, maxPayload, connected, accepting, announced, calls,
                 slices, reported, linkUp, toHost, remote>>

-----------------------------------------------------------------------------
(* dispatch: the oldest message of the device.                             *)
Received(command) ==
  /\ toHost # << >>
  /\ Head(toHost).command = command
  /\ toHost' = Tail(toHost)

(* The version word is taken for the payload size.                         *)
AdvertisedSlip(msg) == IF msg.arg0 > 0 THEN msg.arg0 ELSE maxPayload

Advertised(msg) == IF msg.arg1 > 0 THEN msg.arg1 ELSE maxPayload

OnCnxn ==
  /\ Received("CNXN")
  /\ connected' = TRUE
  /\ maxPayload' = Advertised(Head(toHost))
  /\ UNCHANGED <<streams, nextLocalId, accepting, announced, calls, slices, reported,
                 wire, linkUp, remote>>

(* Nothing but an authRequired event.                                      *)
OnAuth ==
  /\ Received("AUTH")
  /\ UNCHANGED <<hostVars, calls, slices, reported, wire, linkUp, remote>>

(* acceptStream up to its await: any destination is accepted.              *)
OnOpen ==
  /\ Received("OPEN")
  /\ nextLocalId \in LocalIds
  /\ nextLocalId' = nextLocalId + 1
  /\ streams' = With(streams, nextLocalId, [remoteId |-> Head(toHost).arg0, open |-> TRUE])
  /\ accepting' = accepting \cup {nextLocalId}
  /\ SendEmpty(Msg("OKAY", nextLocalId, Head(toHost).arg0))
  /\ UNCHANGED <<maxPayload, connected, announced, calls, slices, reported, linkUp, remote>>

(* acceptStream after its await: the event, whatever became of the stream. *)
Accepted(id) ==
  /\ id \in accepting
  /\ accepting' = accepting \ {id}
  /\ announced' = [announced EXCEPT ![id] = @ + 1]
  /\ UNCHANGED <<streams, nextLocalId, maxPayload, connected, calls, slices, reported,
                 wire, linkUp, toHost, remote>>

(* Every OKAY of a known stream opens it.                                  *)
OpensStreamSlip(id) == id \in DOMAIN streams

(* An OKAY opens a stream that is known and not open yet; any other one    *)
(* acknowledges a WRTE and changes nothing.                                *)
OpensStream(id) == id \in DOMAIN streams /\ ~streams[id].open

OnOkay ==
  /\ Received("OKAY")
  /\ LET id == Head(toHost).arg1
     IN  \/ /\ OpensStream(id)
            /\ streams' = [streams EXCEPT ![id] = [remoteId |-> Head(toHost).arg0,
                                                   open |-> TRUE]]
            /\ announced' = [announced EXCEPT ![id] = @ + 1]
         \/ /\ ~OpensStream(id)
            /\ UNCHANGED <<streams, announced>>
  /\ UNCHANGED <<nextLocalId, maxPayload, connected, accepting, calls, slices, reported,
                 wire, linkUp, remote>>

(* The acknowledgement names the streams the wrong way round.              *)
AckSlip(id) == Msg("OKAY", streams[id].remoteId, id)

Ack(id) == Msg("OKAY", id, streams[id].remoteId)

(* The payload goes to the data listeners, then the WRTE is acknowledged.  *)
OnWrte ==
  /\ Received("WRTE")
  /\ LET id == Head(toHost).arg1
     IN  \/ id \in DOMAIN streams /\ SendEmpty(Ack(id))
         \/ id \notin DOMAIN streams /\ UNCHANGED wire
  /\ UNCHANGED <<hostVars, calls, slices, reported, linkUp, remote>>

(* The stream of a CLSE stays in the map.                                  *)
ForgetSlip(id) == streams

Forget(id) == Without(streams, id)

OnClse ==
  /\ Received("CLSE")
  /\ streams' = Forget(Head(toHost).arg1)
  /\ UNCHANGED <<nextLocalId, maxPayload, connected, accepting, announced, calls, slices,
                 reported, wire, linkUp, remote>>

-----------------------------------------------------------------------------
(* The device.  Until it answered CNXN it drops whatever else arrives; it  *)
(* opens streams of its own or those it is asked for, sends one WRTE per   *)
(* stream and awaits its OKAY.                                             *)
Replies(msgs) == toHost' = toHost \o msgs

DeviceHandles(msg) ==
  CASE msg.command = "CNXN" ->
         /\ remote' = [remote EXCEPT !.online = TRUE, !.awaits = NoHeader]
         /\ Replies(<<Msg("CNXN", ADB_VERSION, DeviceMaxPayload)>>)
    [] msg.command = "OPEN" /\ remote.online /\ remote.nextId \in RemoteIds ->
         \/ /\ remote' = [remote EXCEPT !.awaits = NoHeader, !.nextId = @ + 1,
                            !.streams = With(@, remote.nextId,
                                             [peer |-> msg.arg0, waiting |-> FALSE])]
            /\ Replies(<<Msg("OKAY", remote.nextId, msg.arg0)>>)
         \/ /\ remote' = [remote EXCEPT !.awaits = NoHeader]
            /\ Replies(<<Msg("CLSE", NoId, msg.arg0)>>)
    [] msg.command = "OKAY" /\ msg.arg1 \in DOMAIN remote.streams ->
         /\ remote' = [remote EXCEPT !.streams[msg.arg1] = [peer |-> msg.arg0,
                                                            waiting |-> FALSE]]
         /\ UNCHANGED toHost
    [] msg.command = "WRTE" /\ msg.arg1 \in DOMAIN remote.streams ->
         /\ remote' = [remote EXCEPT !.awaits = NoHeader]
         /\ Replies(<<Msg("OKAY", msg.arg1, msg.arg0)>>)
    [] msg.command = "CLSE" ->
         /\ remote' = [remote EXCEPT !.streams = Without(@, msg.arg1)]
         /\ UNCHANGED toHost
    [] OTHER ->
         /\ remote' = [remote EXCEPT !.awaits = NoHeader]
         /\ UNCHANGED toHost

InTurn(part) ==
  IF part.kind = "header"
  THEN remote.awaits = NoHeader
  ELSE /\ remote.awaits.kind = "header"
       /\ remote.awaits.by = part.by
       /\ remote.awaits.msg = part.msg

(* A part out of turn makes the device drop the link.                      *)
DeviceTakes ==
  /\ wire # << >>
  /\ LET part == Head(wire)
     IN  \/ /\ InTurn(part)
            /\ wire' = Tail(wire)
            /\ \/ /\ part.kind = "header" /\ part.length > 0
                  /\ remote' = [remote EXCEPT !.awaits = part]
                  /\ UNCHANGED toHost
               \/ /\ part.kind = "body" \/ part.length = 0
                  /\ DeviceHandles(part.msg)
            /\ UNCHANGED linkUp
         \/ /\ ~InTurn(part)
            /\ wire' = << >>
            /\ linkUp' = FALSE
            /\ UNCHANGED <<remote, toHost>>
  /\ UNCHANGED <<hostVars, calls, slices, reported>>

DeviceSends(msg) ==
  /\ linkUp
  /\ remote.online
  /\ Len(toHost) < MaxToHost
  /\ Replies(<<msg>>)
  /\ UNCHANGED <<hostVars, calls, slices, reported, wire, linkUp>>

DeviceOpens ==
  /\ remote.nextId <= MaxStreams
  /\ DeviceSends(Msg("OPEN", remote.nextId, NoId))
  /\ remote' = [remote EXCEPT !.nextId = @ + 1,
                  !.streams = With(@, remote.nextId, [peer |-> NoId, waiting |-> FALSE])]

DeviceWrites(id) ==
  /\ id \in DOMAIN remote.streams
  /\ remote.streams[id].peer # NoId
  /\ ~remote.streams[id].waiting
  /\ DeviceSends(Msg("WRTE", id, remote.streams[id].peer))
  /\ remote' = [remote EXCEPT !.streams[id].waiting = TRUE]

DeviceCloses(id) ==
  /\ id \in DOMAIN remote.streams
  /\ remote.streams[id].peer # NoId
  /\ DeviceSends(Msg("CLSE", id, remote.streams[id].peer))
  /\ remote' = [remote EXCEPT !.streams = Without(@, id)]

DeviceAsksAuth ==
  /\ remote.streams = << >>
  /\ DeviceSends(Msg("AUTH", 1, 0))
  /\ UNCHANGED remote

HostStep ==
  \/ Connect
  \/ \E o \in Opens : Open(o)
  \/ \E w \in Writes, id \in LocalIds : BeginWrite(w, id)
  \/ \E c \in Calls : SendBody(c) \/ BodyWritten(c) \/ CallFails(c)
  \/ \E id \in LocalIds : CloseStream(id) \/ Accepted(id)
  \/ EmptyFails
  \/ OnCnxn \/ OnAuth \/ OnOpen \/ OnOkay \/ OnWrte \/ OnClse

DeviceStep ==
  \/ DeviceTakes \/ DeviceOpens \/ DeviceAsksAuth
  \/ \E id \in RemoteIds : DeviceWrites(id) \/ DeviceCloses(id)

Next == HostStep \/ DeviceStep

Spec == Init /\ [][Next]_vars

-----------------------------------------------------------------------------
OnItsWay(msg) == \E i \in DOMAIN toHost : toHost[i] = msg
OnTheWire(msg) == \E i \in DOMAIN wire : wire[i].msg = msg

(* The two ends agree on every stream the host may write to: the device    *)
(* has a stream of that remote id whose peer is this one, or will once the *)
(* host's OKAY arrives, or its CLSE is on the way.  (A link that dropped   *)
(* or a write that was reported as failed ends the agreement.)             *)
StreamsAgree ==
  linkUp /\ ~reported =>
    \A id \in DOMAIN streams : streams[id].open =>
      LET r == streams[id].remoteId
      IN  \/ r \in DOMAIN remote.streams /\ remote.streams[r].peer = id
          \/ r \in DOMAIN remote.streams /\ OnTheWire(Msg("OKAY", id, r))
          \/ OnItsWay(Msg("CLSE", r, id))

(* No acknowledgement is lost in silence: while the device awaits one on a *)
(* stream the host has, the WRTE is still on its way, or the OKAY is.      *)
NoAckIsLost ==
  linkUp /\ ~reported =>
    \A r \in DOMAIN remote.streams :
      LET id == remote.streams[r].peer
      IN  remote.streams[r].waiting /\ id \in DOMAIN streams =>
            OnItsWay(Msg("WRTE", r, id)) \/ OnTheWire(Msg("OKAY", id, r))

(* The slices of a write follow each other without gap or overlap from the *)
(* first byte, none is larger than the device advertised, and a write that *)
(* resolved has sent the last byte, whatever was dispatched in between.    *)
WritesCarryEveryByte ==
  \A w \in Writes :
    LET s == slices[w]
    IN  /\ \A i \in DOMAIN s : /\ s[i][1] = IF i = 1 THEN 0 ELSE s[i - 1][2]
                               /\ s[i][1] < s[i][2]
                               /\ s[i][2] - s[i][1] <= DeviceMaxPayload
        /\ calls[w].step = "done" => s # << >> /\ Last(s)[2] = Length[w]

(* A stream is announced once: the OKAYs that acknowledge its writes, late *)
(* or for another call, never announce it again.                           *)
AnnouncedOnce == \A id \in LocalIds : announced[id] <= 1

(* What host.ts says of send: adbd reads the header and the body of a      *)
(* message as separate transfers, and sending two writes is correct on     *)
(* every transport.  So a header with a body is followed by that body.     *)
BodyFollowsItsHeader ==
  \A i \in 1 .. Len(wire) - 1 :
    wire[i].kind = "header" /\ wire[i].length > 0 =>
      wire[i + 1].kind = "body" /\ wire[i + 1].by = wire[i].by
=============================================================================
