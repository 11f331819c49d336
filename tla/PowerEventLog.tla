---------------------------- MODULE PowerEventLog ----------------------------
(***************************************************************************)
(* The log of sleeps and wakes (src/src/power/PowerEventLog.cpp) and the    *)
(* time it stamps them with (src/src/util/wallclock.cpp): a ring of Cap     *)
(* events in memory and its copy in flash, under one mutex that makes each *)
(* operation one step.  The main task records, the HTTP task clears.       *)
(*                                                                         *)
(* An event carries two marks the code has no use for: its number and the  *)
(* boot it is from.  A time is the boot in which that time was taken, 0    *)
(* for none.                                                               *)
(***************************************************************************)
EXTENDS MotionWake

CONSTANT Cap   \* PowerEventLog::CAP, at least one

ASSUME CapAssumption == Cap \in Nat \ {0}

VARIABLES
  items,     \* _items and _writes: the newest Cap events, oldest first
  stored,    \* the blob in flash
  boot,      \* the boot that runs
  pending,   \* gWakeTimestampPending
  rtc,       \* the RTC holds a plausible time
  clock,     \* the system time is plausible
  sntp,      \* "none", "started" or "synced": _sntpStarted, _ntpJustSynced
  count,     \* marks: events ever recorded, and the last one of them that a
  cleared    \* clear which reported success has removed

logVars == <<items, stored, boot, pending, rtc, clock, sntp, count, cleared>>

LogInit ==
  /\ items = << >> /\ stored = << >>
  /\ boot = 1 /\ pending = FALSE
  /\ rtc = FALSE /\ clock = FALSE /\ sntp = "none"
  /\ count = 0 /\ cleared = 0

LogTypeOK ==
  /\ Len(items) <= Cap /\ Len(stored) <= Cap
  /\ pending \in BOOLEAN /\ rtc \in BOOLEAN /\ clock \in BOOLEAN
  /\ sntp \in {"none", "started", "synced"}
  /\ cleared <= count

utcNow(set) == IF set THEN boot ELSE 0

Event(kind, set) ==
  [kind |-> kind, utc |-> utcNow(set), boot |-> boot, number |-> count + 1]

\* record() on the given ring; persist() may fail.
Ring(ring, e) == IF Len(ring) < Cap THEN Append(ring, e) ELSE Append(Tail(ring), e)

record(ring, e, ok) ==
  /\ items' = Ring(ring, e)
  /\ stored' = IF ok THEN Ring(ring, e) ELSE stored
  /\ count' = count + 1

(* setup(): initFromRtc(), the log's begin(), recordWakeEvent().  A failed  *)
(* open of the flash leaves the log empty.                                 *)
RecordWake(opened, ok) ==
  /\ clock' = rtc
  /\ pending' = ~ rtc
  /\ record(IF opened THEN stored ELSE << >>, Event("Wake", rtc), ok)
  /\ UNCHANGED <<boot, rtc, sntp, cleared>>

recordSleepEvent(ok) ==
  /\ record(items, Event("Sleep", clock), ok)
  /\ UNCHANGED <<boot, pending, rtc, clock, sntp, cleared>>

\* The program's memory goes; the system time is seeded again by the next boot.
LogLost ==
  /\ items' = << >> /\ pending' = FALSE /\ clock' = FALSE /\ sntp' = "none"
  /\ boot' = boot + 1
  /\ UNCHANGED <<stored, rtc, count, cleared>>

\* wallclock::update(): SNTP starts once, when the station first connects.
StartSntp ==
  /\ phase = "run" /\ sntp = "none" /\ sntp' = "started"
  /\ UNCHANGED <<items, stored, boot, pending, rtc, clock, count, cleared>>

\* External: the SNTP task sets the system time and raises its flag.
SntpSyncs ==
  /\ phase \in {"run", "arm", "unwind"} /\ sntp = "started"
  /\ sntp' = "synced" /\ clock' = TRUE
  /\ UNCHANGED <<items, stored, boot, pending, rtc, count, cleared>>

\* The newest event is a Wake without a time.
Untimed == items # << >> /\ items[Len(items)].kind = "Wake" /\ items[Len(items)].utc = 0

(* The loop consumes the flag, writes the RTC, and backfills: a failed      *)
(* persist takes the time back and leaves it to a later synchronisation.   *)
backfillWakeTimestamp ==
  /\ phase = "run" /\ sntp = "synced" /\ sntp' = "started"
  /\ rtc' = TRUE
  /\ IF pending /\ Untimed
     THEN \E ok \in BOOLEAN :
            /\ Ok(ok) /\ Count({ok})
            /\ LET timed == [items EXCEPT ![Len(items)].utc = utcNow(TRUE)]
               IN  /\ items' = IF ok THEN timed ELSE items
                   /\ stored' = IF ok THEN timed ELSE stored
            /\ pending' = ~ ok
     ELSE UNCHANGED <<items, stored, pending, faults>>
  /\ UNCHANGED <<boot, clock, count, cleared>>

\* Mutant: the ring in memory is left alone.
X_ClearLog ==
  /\ phase \in {"run", "arm", "unwind"}
  /\ stored' = << >> /\ cleared' = count
  /\ UNCHANGED <<items, boot, pending, rtc, clock, sntp, count, faults>>

\* clear() from the HTTP task: memory always, flash if it can.
ClearLog ==
  /\ phase \in {"run", "arm", "unwind"}
  /\ items' = << >>
  /\ \E ok \in BOOLEAN :
       /\ Ok(ok) /\ Count({ok})
       /\ stored' = IF ok THEN << >> ELSE stored
       /\ cleared' = IF ok THEN count ELSE cleared
  /\ UNCHANGED <<boot, pending, rtc, clock, sntp, count>>

-----------------------------------------------------------------------------
(* The log tells what happened: an event the user was told is gone does    *)
(* not come back, from memory or from flash, whatever write fails and      *)
(* whenever the device restarts; and an event never carries the time of    *)
(* another boot (PowerEventLog.cpp:49-117, power.cpp:707-733).             *)
LogTellsTheTruth ==
  \A log \in {items, stored} : \A i \in 1..Len(log) :
    /\ log[i].number > cleared
    /\ log[i].utc \in {0, log[i].boot}
    /\ \A j \in 1..(i - 1) : log[j].number < log[i].number
=============================================================================
