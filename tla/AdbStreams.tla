----------------------------- MODULE AdbStreams -----------------------------
(***************************************************************************)
(* Why the two ends of AdbHost agree on their streams, as long as the link *)
(* is up and no write was reported as failed.  A local id and a remote id  *)
(* are paired when either end, a call or a message speaks of them as the   *)
(* two ends of one stream.  Pairs are made in two steps only: when the     *)
(* device accepts an OPEN of the host and when the host accepts one of the *)
(* device; ids are never used again, so no id is in two pairs.             *)
(***************************************************************************)
EXTENDS AdbHost

(* The commands that name a stream by both of its ids.                     *)
StreamCommands == {"OKAY", "WRTE", "CLSE"}

OpenHere(id) == id \in DOMAIN streams /\ streams[id].open

HasPeer(r, id) == r \in DOMAIN remote.streams /\ remote.streams[r].peer = id

Paired(id, r) ==
  \/ OpenHere(id) /\ streams[id].remoteId = r
  \/ HasPeer(r, id)
  \/ \E k \in StreamCommands :
       \/ OnTheWire(Msg(k, id, r))
       \/ OnItsWay(Msg(k, r, id))
       \/ \E c \in Calls : calls[c].msg = Msg(k, id, r)

IsOpenOf(msg, id) == msg.command = "OPEN" /\ msg.arg0 = id

(* What the host sends: OKAY and CLSE in one part, all else in two.        *)
WholePart ==
  {p \in Part : IF p.msg.command \in {"OKAY", "CLSE"}
                THEN p.kind = "header" /\ p.length = 0 /\ p.msg.arg0 \in LocalIds
                ELSE p.kind = "header" => p.length > 0}

PartsAreWhole ==
  /\ \A i \in DOMAIN wire : wire[i] \in WholePart
  /\ \A c \in Calls : calls[c].msg.command \in {"CNXN", "OPEN", "WRTE"}
  /\ \A w \in Writes : calls[w].msg.command # "OPEN"

(* A stream of the host is open with a remote id, or has none yet.         *)
OpenHasRemote ==
  \A id \in DOMAIN streams :
    IF streams[id].open THEN streams[id].remoteId \in RemoteIds
                        ELSE streams[id].remoteId = NoId

(* No id is in two pairs, and none that is still to be given is in one.    *)
PairsMatch ==
  /\ \A id \in LocalIds, r \in RemoteIds :
       Paired(id, r) => id < nextLocalId /\ r < remote.nextId
  /\ \A id, jd \in LocalIds, r, s \in RemoteIds :
       Paired(id, r) /\ Paired(jd, s) => (id = jd <=> r = s)
  /\ \A r \in DOMAIN remote.streams : r < remote.nextId

(* Before the body of its OPEN is written, or while it is on the wire.     *)
ToAsk(c, id) == calls[c].step = "header" /\ IsOpenOf(calls[c].msg, id)

Asked(i, id) == wire[i].kind = "body" /\ IsOpenOf(wire[i].msg, id)

(* The host asks once for each of its streams, which is in no pair before  *)
(* the device heard of it.                                                 *)
HostAsksOnce ==
  \A id \in LocalIds :
    /\ \A c \in Calls : ToAsk(c, id) =>
         /\ id < nextLocalId
         /\ \A r \in RemoteIds : ~Paired(id, r)
         /\ \A d \in Calls : ToAsk(d, id) => c = d
         /\ \A i \in DOMAIN wire : ~Asked(i, id)
    /\ \A i \in DOMAIN wire : Asked(i, id) =>
         /\ id < nextLocalId
         /\ \A r \in RemoteIds : ~Paired(id, r)
         /\ \A k \in DOMAIN wire : Asked(k, id) => i = k

(* So does the device, which keeps the stream it asks for.                 *)
DeviceAsksOnce ==
  \A r \in RemoteIds, i \in DOMAIN toHost : IsOpenOf(toHost[i], r) =>
    /\ r \in DOMAIN remote.streams
    /\ \A id \in LocalIds : ~Paired(id, r)
    /\ \A k \in DOMAIN toHost : IsOpenOf(toHost[k], r) => i = k

(* The host closes a stream after it forgot it.                            *)
ClosedIsForgotten ==
  \A id \in LocalIds, r \in RemoteIds :
    OnTheWire(Msg("CLSE", id, r)) => id \notin DOMAIN streams /\ id < nextLocalId

(* What the device says on a stream reaches the host after the OKAY that   *)
(* opened it.                                                              *)
OkayComesFirst ==
  \A id \in DOMAIN streams, r \in RemoteIds : ~streams[id].open =>
    /\ HasPeer(r, id) => OnItsWay(Msg("OKAY", r, id))
    /\ ~OnTheWire(Msg("OKAY", id, r))
    /\ \A i \in DOMAIN toHost : toHost[i] = Msg("WRTE", r, id) =>
         \E k \in 1 .. i - 1 : toHost[k] = Msg("OKAY", r, id)

(* The device has its end of a pair with the host's end for a peer, or     *)
(* will when the OKAY arrives, or its CLSE is on the way.                  *)
Agreed(id, r) ==
  \/ HasPeer(r, id)
  \/ r \in DOMAIN remote.streams /\ OnTheWire(Msg("OKAY", id, r))
  \/ OnItsWay(Msg("CLSE", r, id))

PairsAgree ==
  \A id \in LocalIds, r \in RemoteIds :
    Paired(id, r) /\ id \in DOMAIN streams => Agreed(id, r)

AckIsDue ==
  \A r \in DOMAIN remote.streams :
    LET id == remote.streams[r].peer
    IN  remote.streams[r].waiting /\ id \in DOMAIN streams =>
          OnItsWay(Msg("WRTE", r, id)) \/ OnTheWire(Msg("OKAY", id, r))

Agreement ==
  /\ PartsAreWhole
  /\ OpenHasRemote
  /\ PairsMatch
  /\ HostAsksOnce
  /\ DeviceAsksOnce
  /\ ClosedIsForgotten
  /\ OkayComesFirst
  /\ PairsAgree
  /\ AckIsDue

(* Both ends agree on each stream, and on what is on its way about it,     *)
(* while the link is up and no write was reported as failed.               *)
StreamsInv == linkUp /\ ~reported => Agreement
=============================================================================
