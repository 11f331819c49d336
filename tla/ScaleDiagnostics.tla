---------------------------- MODULE ScaleDiagnostics ----------------------------
(***************************************************************************)
(* What BleScaleService keeps for its two diagnostic screens: the log of   *)
(* the messages of a connection, and the table of the advertisers of a     *)
(* scan.  The radio is in one of the two modes at a time (which one, and   *)
(* when, is ScaleRadio's subject), so a behaviour stays in one.            *)
(*                                                                         *)
(* In Connect the host task receives notifications while the manager task  *)
(* sends packets and switches the log on and off; the HTTP task answers a  *)
(* page that polls the log with the ETag of its last answer.  The host     *)
(* reads _logArmed without the mutex under which it then records.          *)
(***************************************************************************)
EXTENDS AcaiaV2Codec, TLC

CONSTANTS
  Pieces,      \* what a notification may carry
  Packets,     \* what is sent
  MSG_LOG_CAP, SCAN_TABLE_CAP,
  MIN_PLAUSIBLE_INTERVAL_MS,
  Devices,     \* advertisers
  Period,      \* of their advertising, the same for all
  Rssi,        \* signal strengths
  MaxNotes, MaxToggles, MaxSends, MaxPolls, MaxAdverts, MaxNow  \* bounds
ASSUME DiagnosticsConstants ==
  /\ MSG_LOG_CAP \in Nat \ {0} /\ SCAN_TABLE_CAP \in Nat \ {0}
  /\ MIN_PLAUSIBLE_INTERVAL_MS \in Nat /\ Period \in Nat \ {0}
  /\ Rssi \subseteq Int

VARIABLES
  mode,    \* "connect" or "scan"
  buf,     \* the receiver's bytes
  outbox,  \* frames of the notification in hand, not yet past the log
  held,    \* the host has found the log armed and waits for the mutex
  log,     \* [armed, slot, next, count, byTag, writes]
  page,    \* the web page: the last tag, -1 without one, and what came with it
  stream, frames,  \* ghosts: bytes since the receiver's reset, frames handled
  since,   \* ghost: tags recorded since the log was armed
  late,    \* ghost: tags recorded since it was disarmed
  table,   \* _scanTable, [addr, rssi, last, min, samples]
  now,
  spent    \* bounds spent

linkVars == <<buf, outbox, held, log, page, stream, frames, since, late>>
messageVars == <<mode, linkVars, table, now, spent>>

Spend(what, max) == spent[what] < max /\ spent' = [spent EXCEPT ![what] = @ + 1]

EmptyMsgLog == [i \in 0..(MSG_LOG_CAP - 1) |-> "none"]

EmptyLog == [armed |-> FALSE, slot |-> EmptyMsgLog, next |-> 0, count |-> 0,
             byTag |-> <<>>, writes |-> 0]

MessagesInit ==
  /\ mode \in {"connect", "scan"}
  /\ buf = <<>> /\ outbox = <<>> /\ held = FALSE /\ log = EmptyLog
  /\ page = [tag |-> -1]
  /\ stream = <<>> /\ frames = <<>> /\ since = <<>> /\ late = 0
  /\ table = <<>> /\ now = 0
  /\ spent = [w \in {"notes", "toggles", "sends", "polls", "adverts"} |-> 0]

-----------------------------------------------------------------------------
(* The message log *)

\* One set of tags for both directions.
mapInbound ==
  [Weight |-> "RxWeight", Battery |-> "RxBattery", Timer |-> "RxTimer", Key |-> "RxKey",
   Unknown |-> "RxUnknown", Rejected |-> "RxRejected", Settings |-> "RxSettings"]

mapOutbound ==
  [Heartbeat |-> "TxHeartbeat", Tare |-> "TxTare", Timer |-> "TxTimer",
   Identify |-> "TxIdentify", Subscribe |-> "TxSubscribe", Other |-> "TxOther"]

\* byTag maps the tags that occurred to their counts.
Counted(byTag, tag) ==
  IF tag \in DOMAIN byTag THEN [byTag EXCEPT ![tag] = @ + 1] ELSE (tag :> 1) @@ byTag

recordMsg(l, tag) ==
  [l EXCEPT !.slot[l.next] = tag,
            !.next = (@ + 1) % MSG_LOG_CAP,
            !.count = IF @ < MSG_LOG_CAP THEN @ + 1 ELSE @,
            !.byTag = Counted(@, tag),
            !.writes = @ + 1]

\* recordMsg() under the mutex, with what the properties remember of it.
Record(tag) ==
  /\ log' = recordMsg(log, tag)
  /\ since' = Append(since, tag)
  /\ late' = IF log.armed THEN 0 ELSE late + 1

\* Mutant: the counts start again without a new tag.
X_LogArm(l) ==
  [EmptyLog EXCEPT !.armed = TRUE, !.slot = l.slot, !.writes = l.writes]

LogArm(l) ==
  [EmptyLog EXCEPT !.armed = TRUE, !.slot = l.slot, !.writes = l.writes + 1]

LogDisarm(l) == [l EXCEPT !.armed = FALSE, !.writes = @ + 1]

messageLogSnapshot(l) ==
  [armed |-> l.armed, byTag |-> l.byTag,
   records |-> [i \in 1..l.count |-> l.slot[(l.next + MSG_LOG_CAP - i) % MSG_LOG_CAP]]]

-----------------------------------------------------------------------------
(* Connect *)

\* onNotify(): the first of a connection resets the receiver.
onNotify(piece, first) ==
  /\ mode = "connect" /\ outbox = <<>> /\ (first => stream # <<>>)
  /\ Spend("notes", MaxNotes)
  /\ LET r == push(IF first THEN <<>> ELSE buf, piece)
     IN /\ buf' = r.buf
        /\ outbox' = r.out
        /\ frames' = (IF first THEN <<>> ELSE frames) \o r.out
  /\ stream' = (IF first THEN <<>> ELSE stream) \o piece
  /\ UNCHANGED <<mode, held, log, page, since, late, table, now>>

\* onRawFrame() of the next frame reads _logArmed,
FrameSeen ==
  /\ outbox # <<>> /\ ~held
  /\ held' = log.armed
  /\ outbox' = IF log.armed THEN outbox ELSE Tail(outbox)
  /\ UNCHANGED <<mode, buf, log, page, stream, frames, since, late, table, now, spent>>

\* and takes the mutex.
FrameRecorded ==
  /\ held /\ held' = FALSE
  /\ Record(mapInbound[Head(outbox).kind])
  /\ outbox' = Tail(outbox)
  /\ UNCHANGED <<mode, buf, page, stream, frames, table, now, spent>>

\* sendPacket() runs on the task that arms and disarms.
sendPacket(w) ==
  /\ mode = "connect" /\ Spend("sends", MaxSends)
  /\ IF log.armed THEN Record(mapOutbound[classifyOutbound(w)]) ELSE UNCHANGED <<log, since, late>>
  /\ UNCHANGED <<mode, buf, outbox, held, page, stream, frames, table, now>>

armMessageLog ==
  /\ mode = "connect" /\ Spend("toggles", MaxToggles)
  /\ log' = LogArm(log) /\ since' = <<>> /\ late' = 0
  /\ UNCHANGED <<mode, buf, outbox, held, page, stream, frames, table, now>>

disarmMessageLog ==
  /\ mode = "connect" /\ Spend("toggles", MaxToggles)
  /\ log' = LogDisarm(log) /\ late' = 0
  /\ UNCHANGED <<mode, buf, outbox, held, page, stream, frames, since, table, now>>

\* serveScaleMsg(): 304 when the page has the tag already.
serveScaleMsg ==
  /\ mode = "connect" /\ Spend("polls", MaxPolls)
  /\ page' = IF page.tag = log.writes THEN page
             ELSE [tag |-> log.writes, shown |-> messageLogSnapshot(log)]
  /\ UNCHANGED <<mode, buf, outbox, held, log, stream, frames, since, late, table, now>>

-----------------------------------------------------------------------------
(* The scan *)

NewEntry(a) == [addr |-> a, rssi |-> 0, last |-> now, min |-> 0, samples |-> 0]

\* Where an advertiser is, or would be put: over the weakest of a full table.
Slot(a) ==
  LET known == {i \in DOMAIN table : table[i].addr = a}
  IN IF known # {} THEN Min(known)
     ELSE IF Len(table) < SCAN_TABLE_CAP THEN Len(table) + 1
     ELSE Min({i \in DOMAIN table : \A j \in DOMAIN table : table[i].rssi <= table[j].rssi})

\* Only gaps of at least the floor count, and move the reference time.
Refined(e) ==
  LET delta == now - e.last
  IN IF delta < MIN_PLAUSIBLE_INTERVAL_MS THEN e
     ELSE [e EXCEPT !.min = IF @ = 0 \/ delta < @ THEN delta ELSE @,
                    !.last = now, !.samples = @ + 1]

recordDiagAdvert(a, rssi) ==
  LET i == Slot(a)
      e == IF i \in DOMAIN table /\ table[i].addr = a THEN Refined(table[i]) ELSE NewEntry(a)
  IN /\ mode = "scan" /\ Spend("adverts", MaxAdverts)
     /\ table' = [j \in DOMAIN table \cup {i} |->
                    IF j = i THEN [e EXCEPT !.rssi = rssi] ELSE table[j]]
     /\ UNCHANGED <<mode, linkVars, now>>

\* External: a device is heard in the event of its period, on one of the
\* channels or by the answer to a scan request, all within less than the floor.
Audible == now % Period < MIN_PLAUSIBLE_INTERVAL_MS

Advert(a, rssi) == Audible /\ recordDiagAdvert(a, rssi)

clearScanTable ==
  /\ mode = "scan" /\ table # <<>> /\ Spend("toggles", MaxToggles)
  /\ table' = <<>>
  /\ UNCHANGED <<mode, linkVars, now>>

MessageTick ==
  /\ mode = "scan" /\ now < MaxNow /\ now' = now + 1
  /\ UNCHANGED <<mode, linkVars, table, spent>>

-----------------------------------------------------------------------------
Messages ==
  \/ \E piece \in Pieces, first \in BOOLEAN : onNotify(piece, first)
  \/ FrameSeen \/ FrameRecorded
  \/ \E w \in Packets : sendPacket(w)
  \/ armMessageLog \/ disarmMessageLog \/ serveScaleMsg
  \/ \E a \in Devices, rssi \in Rssi : Advert(a, rssi)
  \/ clearScanTable \/ MessageTick

MessagesSpec == MessagesInit /\ [][Messages]_messageVars

-----------------------------------------------------------------------------
(* Properties *)

\* The frames of `s`, read off from its first byte on: at each place a frame,
\* or one byte that belongs to none.
RECURSIVE FramesOf(_)
FramesOf(s) ==
  LET ends == {n \in DOMAIN s : parseWireFrame(SubSeq(s, 1, n))}
  IN IF s = <<>> THEN <<>>
     ELSE IF ends = {} THEN FramesOf(Tail(s))
     ELSE <<SubSeq(s, 1, Min(ends))>> \o FramesOf(SubSeq(s, Min(ends) + 1, Len(s)))

FrameHandled ==
  LET valid == SelectSeq(frames, LAMBDA f : parseWireFrame(f.wire))
  IN [i \in DOMAIN valid |-> valid[i].wire]

\* The framer resynchronises after a damaged or cut frame: however the stream is
\* cut into notifications, the frames handled are those of the bytes it has let
\* go, and no frame begins in these bytes and ends in those it keeps.
FramesRecovered ==
  /\ IsSuffix(buf, stream)
  /\ FrameHandled = FramesOf(SubSeq(stream, 1, Len(stream) - Len(buf)))
  /\ FramesOf(stream) = FrameHandled \o FramesOf(buf)

\* A heartbeat response is counted as a sample only when "the nested body is long
\* enough for the decoder to emit that sample", and every weight and timer event
\* is counted as what it is.
CountedAsDecoded ==
  \A i \in DOMAIN frames :
    LET f == frames[i]
        sample == {e \in {f.events[k].type : k \in DOMAIN f.events} : e \in {"weight", "timer"}}
    IN /\ "weight" \in sample => f.kind = "Weight"
       /\ "timer" \in sample => f.kind = "Timer"
       /\ /\ f.kind \in {"Weight", "Timer"}
          /\ f.wire[3] = Msg.EVENT /\ Payload(f.wire)[1] = Response
          => sample # {}

\* A page that is told "not modified" shows the log as it is: the end of what was
\* recorded since it was armed, newest first, with a count for each, and whether
\* it is armed; after a disarm comes at most the one packet that met it.
PageShowsLog ==
  page.tag = log.writes =>
    LET n == Min({Len(since), MSG_LOG_CAP})
        counts == page.shown.byTag
    IN /\ page.shown.armed = log.armed
       /\ page.shown.records = Reverse(SubSeq(since, Len(since) - n + 1, Len(since)))
       /\ MapThenSumSet(LAMBDA t : counts[t], DOMAIN counts) = Len(since)
       /\ late <= 1

\* "Sub-floor gaps are within-event artifacts": the estimate never falls short
\* of the advertising interval by the floor or more, whatever was missed in
\* between, and each advertiser has one entry.
EstimateNearPeriod ==
  \A i \in DOMAIN table :
    /\ table[i].min # 0 => table[i].min + MIN_PLAUSIBLE_INTERVAL_MS > Period
    /\ \A j \in DOMAIN table : table[i].addr = table[j].addr => i = j

=============================================================================
