---------------------------- MODULE ShotLifecycle ----------------------------
(***************************************************************************)
(* What ExtractionRecorder promises the controller that drives it: the     *)
(* life of one extraction record, without the pour detection that decides  *)
(* when it ends.  A record is its phase, its begin time, the number of its *)
(* samples and, for the properties only, whether live or replayed inputs   *)
(* made it.  Begin times are numbers that only grow, as millis() does.     *)
(***************************************************************************)
EXTENDS Naturals

Phases == {"IDLE", "RUNNING", "POST_PUMP", "DONE"}
Sources == {"live", "replay"}

InPumpWindow(phase) == phase \in {"RUNNING", "POST_PUMP"}

Cleared == [phase |-> "IDLE", begin |-> 0, n |-> 0, source |-> "live"]

Started(begin, source) ==
  [phase |-> "RUNNING", begin |-> begin, n |-> 0, source |-> source]

(* Mutant of Sampled: the buffer is not checked for room.                  *)
Sampled_Unbounded(rec, maxSamples) == {rec, [rec EXCEPT !.n = @ + 1]}

(* recordLiveTick: at most one new reading becomes a sample; a full buffer *)
(* drops it.                                                               *)
Sampled(rec, maxSamples) ==
  {rec} \cup IF rec.n < maxSamples THEN {[rec EXCEPT !.n = @ + 1]} ELSE {}

(* One update(): the record it leaves, and the record it finalized, if any.*)
(* A pump start that does not join an open record finalizes it and starts  *)
(* the next one in the same update.                                        *)
NoShot == [begin |-> 0, n |-> 0, source |-> "none"]
ShotOf(rec) == [begin |-> rec.begin, n |-> rec.n, source |-> rec.source]
Outcome(rec, finished) == [rec |-> rec, finished |-> finished]

Updates(rec, begin, source, maxSamples) ==
  LET Next(s, phase) == Outcome([s EXCEPT !.phase = phase], NoShot)
      new == Started(begin, source)
  IN CASE rec.phase = "IDLE" ->
            {Outcome(rec, NoShot), Outcome(new, NoShot)}
       [] rec.phase = "RUNNING" ->
            {Next(s, p) : s \in Sampled(rec, maxSamples),
                          p \in {"RUNNING", "POST_PUMP"}}
       [] rec.phase = "POST_PUMP" ->
            {Next(s, p) : s \in Sampled(rec, maxSamples),
                          p \in {"RUNNING", "POST_PUMP"}}
            \cup UNION {{Outcome([s EXCEPT !.phase = "DONE"], ShotOf(s)),
                         Outcome(new, ShotOf(s))} :
                          s \in Sampled(rec, maxSamples)}
       [] rec.phase = "DONE" ->
            {Outcome(rec, NoShot), Outcome(new, NoShot)}

==============================================================================
