----------------------------- MODULE AcaiaV2Codec -----------------------------
(***************************************************************************)
(* AcaiaV2Codec.cpp: the packets of the scale.  A notification carries any *)
(* piece of the byte stream; the receiver finds the frames in it, checks   *)
(* and classifies them and decodes the events.                             *)
(*                                                                         *)
(* A frame is EF DD <type> <body> <even> <odd>: the body's first byte is   *)
(* its own length, the last two are the sums of its bytes at even and odd  *)
(* places.  Values of readings are left out, except for the bytes the      *)
(* decoder branches on.                                                    *)
(***************************************************************************)
EXTENDS Integers, Sequences, SequencesExt, FiniteSetsExt

CONSTANT MaxFrame  \* MAX_FRAME, large enough here for each event of the scale
ASSUME CodecConstants == MaxFrame \in Nat /\ MaxFrame >= 6

HDR1 == 239
HDR2 == 221

Msg == [SYSTEM |-> 0, TARE |-> 4, TIMER |-> 7, SETTINGS |-> 8, IDENTIFY |-> 11,
        EVENT |-> 12]

\* Event types: the broadcast ids, and the heartbeat response that nests one.
Weight   == 5
Battery  == 6
Timer    == 7
Key      == 8
Response == 11

-----------------------------------------------------------------------------
(* Frames *)

checksum(body) ==
  LET sum(rest) == MapThenSumSet(LAMBDA i : body[i],
                                 {i \in DOMAIN body : i % 2 = rest}) % 256
  IN <<sum(1), sum(0)>>

pack(type, body) == <<HDR1, HDR2, type>> \o body \o checksum(body)

HasHeader(w) == Len(w) >= 2 /\ w[1] = HDR1 /\ w[2] = HDR2
BodyLen(w)   == w[4]
BodyFits(w)  == BodyLen(w) \in 1..(MaxFrame - 5)
FrameBody(w)      == SubSeq(w, 4, Len(w) - 2)
Payload(w)   == SubSeq(w, 5, Len(w) - 2)

parseWireFrame(w) ==
  /\ Len(w) >= 6 /\ HasHeader(w)
  /\ BodyFits(w) /\ Len(w) = BodyLen(w) + 5
  /\ checksum(FrameBody(w)) = SubSeq(w, Len(w) - 1, Len(w))

buildHeartbeat      == pack(Msg.SYSTEM, <<2, 0>>)
buildIdentify       == pack(Msg.IDENTIFY, [i \in 1..15 |-> 45])
buildEventSubscribe == pack(Msg.EVENT, <<9, 0, 1, 1, 2, 2, 3, 3, 4>>)
buildTare           == pack(Msg.TARE, <<0>>)

classifyOutbound(w) ==
  IF Len(w) < 3 \/ ~HasHeader(w) THEN "Other"
  ELSE CASE w[3] = Msg.SYSTEM   -> "Heartbeat"
         [] w[3] = Msg.TARE     -> "Tare"
         [] w[3] = Msg.TIMER    -> "Timer"
         [] w[3] = Msg.IDENTIFY -> "Identify"
         [] w[3] = Msg.EVENT    -> "Subscribe"
         [] OTHER               -> "Other"

-----------------------------------------------------------------------------
(* Classification and decoding of a frame *)

eventKind(id) ==
  CASE id = Weight  -> "Weight"
    [] id = Battery -> "Battery"
    [] id = Timer   -> "Timer"
    [] id = Key     -> "Key"
    [] OTHER        -> "Unknown"

heartbeatResponseKind(p) ==
  IF \/ Len(p) >= 10 /\ p[4] = Weight
     \/ Len(p) >= 7 /\ p[4] = Timer
  THEN eventKind(p[4]) ELSE "Unknown"

classifyInbound(w) ==
  CASE w[3] = Msg.SETTINGS -> "Settings"
    [] w[3] = Msg.TIMER    -> "Timer"
    [] w[3] = Msg.EVENT    ->
         LET p == Payload(w)
         IN IF p = <<>> THEN "Rejected"
            ELSE IF p[1] = Response THEN heartbeatResponseKind(p) ELSE eventKind(p[1])
    [] OTHER               -> "Unknown"

\* The events of a payload: none, or the one that reaches the callback.
RECURSIVE decodeAndEmit(_, _)
decodeAndEmit(id, d) ==
  CASE id = Weight  -> IF Len(d) < 6 THEN <<>>
                       ELSE <<[type |-> "weight", timed |-> Len(d) >= 10 /\ d[7] = Timer]>>
    [] id = Battery -> IF Len(d) < 1 THEN <<>> ELSE <<[type |-> "battery"]>>
    [] id = Timer   -> IF Len(d) < 3 THEN <<>> ELSE <<[type |-> "timer"]>>
    [] id = Key     -> IF Len(d) < 1 THEN <<>> ELSE <<[type |-> "key"]>>
    [] id = Response /\ Len(d) >= 4 /\ d[3] \in {Weight, Timer}
                    -> decodeAndEmit(d[3], SubSeq(d, 4, Len(d)))
    [] OTHER        -> <<[type |-> "unknown"]>>

decodeFrame(w) ==
  IF w[3] # Msg.EVENT \/ Payload(w) = <<>> THEN <<>>
  ELSE decodeAndEmit(Payload(w)[1], Tail(Payload(w)))

handleFrame(w) ==
  LET kind == classifyInbound(w)
  IN [wire |-> w, kind |-> kind,
      events |-> IF kind = "Rejected" THEN <<>> ELSE decodeFrame(w)]

-----------------------------------------------------------------------------
(* Frame assembly: `r` holds the bytes kept and the frames handled so far.  *)

\* The bytes from the first header at `from` or later; failing that, a first
\* header byte that ends them.
Resync(b, from) ==
  LET heads == {i \in from..(Len(b) - 1) : b[i] = HDR1 /\ b[i + 1] = HDR2}
  IN IF heads # {} THEN SubSeq(b, Min(heads), Len(b))
     ELSE IF b # <<>> /\ Last(b) = HDR1 THEN <<HDR1>> ELSE <<>>

syncToHeader(b) == Resync(b, 1)

\* Mutant: all the bytes of a rejected frame are dropped.
X_resyncAfterReject(b) == syncToHeader(SubSeq(b, BodyLen(b) + 6, Len(b)))

resyncAfterReject(b) == Resync(b, 2)

appendByte(b, x) ==
  CASE Len(b) = 0 -> IF x = HDR1 THEN <<x>> ELSE <<>>
    [] Len(b) = 1 -> IF x = HDR2 THEN Append(b, x) ELSE IF x = HDR1 THEN b ELSE <<>>
    [] Len(b) >= MaxFrame -> IF x = HDR1 THEN <<x>> ELSE <<>>
    [] OTHER      -> Append(b, x)

reject(r, b, n) ==
  [buf |-> resyncAfterReject(b),
   out |-> Append(r.out, [wire |-> SubSeq(b, 1, n), kind |-> "Rejected", events |-> <<>>])]

RECURSIVE drain(_)
drain(r) ==
  LET b    == syncToHeader(r.buf)
      need == BodyLen(b) + 5
  IN IF Len(b) < 4 THEN [r EXCEPT !.buf = b]
     ELSE IF ~BodyFits(b) THEN drain(reject(r, b, 4))
     ELSE IF Len(b) < need THEN [r EXCEPT !.buf = b]
     ELSE IF parseWireFrame(SubSeq(b, 1, need))
     THEN drain([buf |-> SubSeq(b, need + 1, Len(b)),
                 out |-> Append(r.out, handleFrame(SubSeq(b, 1, need)))])
     ELSE drain(reject(r, b, need))

\* pushNotify(): the bytes kept after a notification and what it delivered.
push(buf, bytes) ==
  FoldLeft(LAMBDA r, x : drain([r EXCEPT !.buf = appendByte(@, x)]),
           [buf |-> buf, out |-> <<>>], bytes)

=============================================================================
