-------------------------- MODULE ExtractionCodec --------------------------
(***************************************************************************)
(* The binary form of an extraction: encodeCompact, encodeCompactSize and  *)
(* decodeCompact.  A byte of the stream is a token; the header and the     *)
(* target block keep the fields the decoder acts on, each a token, and     *)
(* carry the rest of the record in one.  Integers keep their width, scaled *)
(* down: a varint byte has Base values besides its continuation bit, a     *)
(* uint32_t wraps at Word, an int16_t is -Half .. Half - 1.  The sink is   *)
(* the stream itself.  A stream of version 6 is what an earlier firmware   *)
(* left on flash.                                                          *)
(***************************************************************************)
EXTENDS Integers, Sequences
LOCAL INSTANCE SequencesExt
LOCAL INSTANCE FiniteSetsExt

CONSTANTS
  Base,         \* values of a varint byte's data bits (128)
  MaxVarint,    \* bytes of the longest varint (5)
  Word, Half,   \* 2^32 and 2^15
  ChunkBytes,   \* the writer's buffer (256)
  MaxEvents, MaxSamples,  \* what a record has room for (64, 768)
  MaxItems,     \* bound: events and samples of one record together
  WireTimes, WireWeights, WireTimers, WireLeads  \* values a record may hold

ASSUME CodecAssumption ==
  /\ Base > 1 /\ Word % 2 = 0 /\ Word > 4 * Half - 4
  /\ Base ^ MaxVarint >= Word /\ Base ^ (MaxVarint - 1) < Word

VARIABLES
  given,    \* the record that was written
  wire,     \* the stream it became
  sized,    \* what encodeCompactSize said of it
  restored  \* the record read back, or what stands for none

wireVars == <<given, wire, sized, restored>>

NoRecord == [ok |-> FALSE]
V6 == 6
V7 == 7
Supported == {V6, V7}     \* isCompactVersionSupported
UnknownTimer == Word - 1  \* scale_time::UNKNOWN_MS
PumpOn == 2               \* EventKind, as it is written
PumpOffConfirmed == 3
Timeout == 2              \* the last of EndCause

WireEvents == [t : WireTimes, kind : {PumpOn, PumpOffConfirmed}, lead : {0} \cup WireLeads]
WireSamples == [t : WireTimes, cg : WireWeights \cup {-w : w \in WireWeights}, timer : WireTimers]

(* A record the recorder made, or one read from an older stream, whose     *)
(* events carry no lead time; only a confirmed pump-off ever has one.      *)
RealRecord(r) ==
  \A i \in DOMAIN r.events :
    r.events[i].lead # 0 => r.version = V7 /\ r.events[i].kind = PumpOffConfirmed

WireRecords ==
  {r \in [version : Supported, begin : WireTimes, cause : {Timeout}, overflowed : BOOLEAN,
          target : {FALSE},
          events : UNION {[1 .. n -> WireEvents] : n \in 0 .. MaxEvents},
          samples : UNION {[1 .. n -> WireSamples] : n \in 0 .. MaxSamples}] :
     Len(r.events) + Len(r.samples) <= MaxItems /\ RealRecord(r)}

-----------------------------------------------------------------------------
(* extraction_encoding.cpp *)

Uvarint(v) ==
  LET bytes[n \in 0 .. v] ==
        IF n < Base THEN <<n>> ELSE <<Base + (n % Base)>> \o bytes[n \div Base]
  IN bytes[v]

UvarintSize(v) == Min({n \in 1 .. MaxVarint : v < Base ^ n})

Signed(u) == IF u >= Word \div 2 THEN u - Word ELSE u
Zigzag(v) ==
  LET doubled == (2 * (v % Word)) % Word IN
  IF v < 0 THEN Word - 1 - doubled ELSE doubled
Unzigzag(u) == Signed(IF u % 2 = 1 THEN Word - 1 - u \div 2 ELSE u \div 2)

(* Where a varint that begins after position "at" ends and what it holds;  *)
(* without a last byte inside the limit there is none.                     *)
ReadUvarint(stream, at) ==
  LET ends == {n \in 1 .. MaxVarint : at + n <= Len(stream) /\ stream[at + n] < Base}
      length == Min(ends)
  IN IF ends = {} THEN NoRecord
     ELSE [ok |-> TRUE, at |-> at + length,
           value |-> MapThenSumSet(LAMBDA n : (stream[at + n] % Base) * Base ^ (n - 1),
                                   1 .. length) % Word]

SaturateCg(v) == Max({1 - Half, Min({Half - 1, v})})

(* A sample is its distance from the one before, in time and in weight,    *)
(* and the scale's own timer when the record has any.                      *)
Delta(before, now) == (now - before) % Word

SampleDelta(before, sample, timers) ==
  Uvarint(Delta(before.t, sample.t)) \o Uvarint(Zigzag(sample.cg - before.cg))
    \o IF timers THEN Uvarint(sample.timer) ELSE <<>>

SampleDeltaSize(before, sample, timers) ==
  UvarintSize(Delta(before.t, sample.t)) + UvarintSize(Zigzag(sample.cg - before.cg))
    + IF timers THEN UvarintSize(sample.timer) ELSE 0

-----------------------------------------------------------------------------
(* ExtractionWire.cpp *)

HasScaleTimer(r) == \E i \in DOMAIN r.samples : r.samples[i].timer # UnknownTimer
Flags(r) ==
  {f \in {"overflowed", "timers"} : IF f = "timers" THEN HasScaleTimer(r) ELSE r.overflowed}

EventBytes(before, event) ==
  Uvarint(Delta(before, event.t)) \o <<event.kind>>
    \o IF event.kind = PumpOffConfirmed THEN Uvarint(event.lead) ELSE <<>>

X_Header(r) == <<"EXTR", r.version, r.cause, Flags(r), r.begin, Len(r.events), Len(r.samples)>>
Header(r) == <<"EXTR", V7, r.cause, Flags(r), r.begin, Len(r.events), Len(r.samples)>>
HeaderBytes == 7
TargetBlock == <<Base, 2 * Base>>

(* ChunkedWriter: bytes go to the sink when the buffer is full, and when   *)
(* the writer is destroyed.                                                *)
Flush(w) == [sent |-> w.sent \o w.held, held |-> <<>>]
Put(w, bytes) ==
  FoldLeft(LAMBDA u, b :
             LET room == IF Len(u.held) = ChunkBytes THEN Flush(u) ELSE u
             IN [room EXCEPT !.held = Append(@, b)],
           w, bytes)

EventBefore(r, i) == IF i = 1 THEN r.begin ELSE r.events[i - 1].t
SampleBefore(r, i) == IF i = 1 THEN [t |-> r.begin, cg |-> 0] ELSE r.samples[i - 1]

EncodeCompact(r) ==
  LET events == [i \in DOMAIN r.events |-> EventBytes(EventBefore(r, i), r.events[i])]
      samples == [i \in DOMAIN r.samples |->
                    SampleDelta(SampleBefore(r, i), r.samples[i], "timers" \in Flags(r))]
  IN Flush(FoldLeft(Put, [sent |-> <<>>, held |-> <<>>],
                    <<Header(r)>> \o events \o samples \o <<TargetBlock>>)).sent

EncodeCompactSize(r) ==
  HeaderBytes + Len(TargetBlock)
    + MapThenSumSet(LAMBDA i : Len(EventBytes(EventBefore(r, i), r.events[i])), DOMAIN r.events)
    + MapThenSumSet(LAMBDA i : SampleDeltaSize(SampleBefore(r, i), r.samples[i], HasScaleTimer(r)),
                    DOMAIN r.samples)

(* readEvent: a record of before version 7 has no lead time to read.       *)
ReadEvent(stream, version, from) ==
  LET delta == ReadUvarint(stream, from.at)
      t == (from.t + delta.value) % Word
      kind == stream[delta.at + 1]
      lead == ReadUvarint(stream, delta.at + 1)
  IN IF ~from.ok \/ ~delta.ok THEN NoRecord
     ELSE IF delta.at = Len(stream) THEN NoRecord
     ELSE IF version < V7 \/ kind # PumpOffConfirmed
       THEN [ok |-> TRUE, at |-> delta.at + 1, t |-> t,
             items |-> Append(from.items, [t |-> t, kind |-> kind, lead |-> 0])]
     ELSE IF ~lead.ok THEN NoRecord
     ELSE IF lead.value > 2 * Half - 1 THEN NoRecord
     ELSE [ok |-> TRUE, at |-> lead.at, t |-> t,
           items |-> Append(from.items, [t |-> t, kind |-> kind, lead |-> lead.value])]

ReadSample(stream, timers, from) ==
  LET delta == ReadUvarint(stream, from.at)
      weight == ReadUvarint(stream, delta.at)
      t == (from.t + delta.value) % Word
      cg == from.cg + Unzigzag(weight.value)
      timer == IF timers THEN ReadUvarint(stream, weight.at)
               ELSE [ok |-> TRUE, at |-> weight.at, value |-> UnknownTimer]
  IN IF ~from.ok \/ ~delta.ok THEN NoRecord
     ELSE IF ~weight.ok THEN NoRecord
     ELSE IF ~timer.ok THEN NoRecord
     ELSE [ok |-> TRUE, at |-> timer.at, t |-> t, cg |-> cg,
           items |-> Append(from.items, [t |-> t, cg |-> SaturateCg(cg), timer |-> timer.value])]

Refused(stream) ==
  \/ Len(stream) < HeaderBytes
  \/ stream[1] # "EXTR" \/ stream[2] \notin Supported \/ stream[3] > Timeout
  \/ stream[6] > MaxEvents \/ stream[7] > MaxSamples

DecodeCompact(stream) ==
  LET Times(n) == [i \in 1 .. n |-> i]
      version == stream[2]
      begun == [ok |-> TRUE, at |-> HeaderBytes, t |-> stream[5], items |-> <<>>]
      events == FoldLeft(LAMBDA from, i : ReadEvent(stream, version, from), begun, Times(stream[6]))
      samples == FoldLeft(LAMBDA from, i : ReadSample(stream, "timers" \in stream[4], from),
                          [ok |-> TRUE, at |-> events.at, t |-> stream[5], cg |-> 0, items |-> <<>>],
                          Times(stream[7]))
  IN IF Refused(stream) THEN NoRecord
     ELSE IF ~events.ok THEN NoRecord
     ELSE IF ~samples.ok THEN NoRecord
     ELSE IF Len(stream) < samples.at + Len(TargetBlock) THEN NoRecord
     ELSE [ok |-> TRUE,
           record |-> [version |-> version, begin |-> stream[5], cause |-> stream[3],
                       overflowed |-> "overflowed" \in stream[4], target |-> TRUE,
                       events |-> events.items, samples |-> samples.items]]

-----------------------------------------------------------------------------
(* A record is measured, written and read back; a record that was read is  *)
(* written and read again, as the history does when it is downloaded.      *)
WireInit == given \in WireRecords /\ wire = <<>> /\ sized = 0 /\ restored = NoRecord

WriteRecord ==
  /\ wire = <<>>
  /\ given.version \in Supported
  /\ sized' = EncodeCompactSize(given)
  /\ wire' = EncodeCompact(given)
  /\ UNCHANGED <<given, restored>>

ReadRecord ==
  /\ wire # <<>> /\ restored = NoRecord
  /\ restored' = DecodeCompact(wire)
  /\ UNCHANGED <<given, wire, sized>>

WriteAgain ==
  /\ restored # NoRecord /\ given # restored.record
  /\ given' = restored.record
  /\ wire' = <<>> /\ sized' = 0 /\ restored' = NoRecord

Wire == WriteRecord \/ ReadRecord \/ WriteAgain
WireSpec == WireInit /\ [][Wire]_wireVars

-----------------------------------------------------------------------------
(* What was written is read back as it was, up to the version it was      *)
(* written in and the target settings that are now part of it; it takes    *)
(* the bytes that were announced (the Content-Length of a download and     *)
(* the check before a save); and a stream that lacks any byte at its end,  *)
(* as a save cut short leaves it, is refused.                              *)
RecordReadsBack ==
  wire # <<>> =>
    /\ sized = Len(wire)
    /\ \A n \in 0 .. Len(wire) - 1 : DecodeCompact(SubSeq(wire, 1, n)) = NoRecord
    /\ restored # NoRecord \/ DecodeCompact(wire) # NoRecord
    /\ restored # NoRecord =>
         restored.record = [given EXCEPT !.version = V7, !.target = TRUE]
=============================================================================
