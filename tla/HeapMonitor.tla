----------------------------- MODULE HeapMonitor -----------------------------
(***************************************************************************)
(* The heap history (diagnostics/HeapMonitor): tick() on the main task     *)
(* folds samples into the open bucket and pushes the bucket's worst sample *)
(* to a ring when the window is over; clearHistory(), on the main task for *)
(* the LOGS screen and on the HTTP task for the web, asks tick() to reset  *)
(* the bucket and empties the ring.  The two tasks run on the same data    *)
(* with no lock but the ring's, so both are taken apart at the places      *)
(* where the other may come between.                                       *)
(*                                                                         *)
(* A sample is the free memory it saw and the number of clears begun when  *)
(* it was taken; the worst one of a bucket carries the oldest such mark.   *)
(* The marks, the numbers of the rows and `emptied` are history variables: *)
(* the code knows none of them.                                            *)
(***************************************************************************)
EXTENDS Naturals, Sequences

CONSTANTS
  HistoryCap,     \* rows the ring keeps (30 in the code)
  BucketSamples,  \* samples that close a bucket (60 in the code)
  FreeLevels,     \* free memory a sample may see
  MaxClears,      \* bound on the clears of a behavior
  MaxBuckets      \* bound on the buckets pushed

ASSUME HeapAssumption ==
  /\ HistoryCap \in Nat \ {0}
  /\ FreeLevels \subseteq Nat
  /\ MaxClears \in Nat

VARIABLES
  heap,       \* the ring: its rows, oldest first, and the rows ever pushed
  bucket,     \* the open bucket: samples folded in, worst level, oldest mark
  clearBucket,\* the flag by which a clear asks for a new bucket
  mainAt,     \* where tick() is on the main task
  webAt,      \* where clearHistory() is on the HTTP task
  begun,      \* clears begun
  seenAt,     \* clears begun when the tick in progress looked at the flag
  emptied     \* rows ever pushed when a clear last emptied the ring

heapVars == <<heap, bucket, clearBucket, mainAt, webAt, begun, seenAt, emptied>>

Worse(a, b) == IF a < b THEN a ELSE b

FullMemory == 9   \* stands for UINT32_MAX: no sample is above it
EmptyBucket == [samples |-> 0, worst |-> FullMemory, oldest |-> MaxClears + 1]

HeapInit ==
  /\ heap = [rows |-> <<>>, pushed |-> 0]
  /\ bucket = EmptyBucket /\ clearBucket = FALSE
  /\ mainAt = "idle" /\ webAt = "idle" /\ begun = 0 /\ seenAt = 0
  /\ emptied = 0

X_TickStart ==
  /\ mainAt = "idle" /\ heap.pushed < MaxBuckets
  /\ mainAt' = "sampling" /\ seenAt' = begun
  /\ clearBucket' = FALSE
  /\ bucket' = bucket
  /\ UNCHANGED <<heap, webAt, begun, emptied>>

(* tick(): the flag is taken, and the bucket reset, before any sampling.   *)
TickStart ==
  /\ mainAt = "idle" /\ heap.pushed < MaxBuckets
  /\ mainAt' = "sampling" /\ seenAt' = begun
  /\ clearBucket' = FALSE
  /\ bucket' = IF clearBucket THEN EmptyBucket ELSE bucket
  /\ UNCHANGED <<heap, webAt, begun, emptied>>

(* Within SAMPLE_MS of the last sample tick() stops here; else it folds a  *)
(* sample into the minima, and goes on when the window has ended.          *)
TickEarly == mainAt = "sampling" /\ mainAt' = "idle"
             /\ UNCHANGED <<heap, bucket, clearBucket, webAt, begun, seenAt, emptied>>

TickSample ==
  /\ mainAt = "sampling"
  /\ \E free \in FreeLevels :
       bucket' = [samples |-> bucket.samples + 1, worst |-> Worse(bucket.worst, free),
                  oldest |-> Worse(bucket.oldest, begun)]
  /\ mainAt' = IF bucket'.samples >= BucketSamples THEN "closing" ELSE "idle"
  /\ UNCHANGED <<heap, clearBucket, webAt, begun, seenAt, emptied>>

(* Ring::push: the oldest row goes when the ring is full.                  *)
Pushed(rows, row) ==
  Append(IF Len(rows) = HistoryCap THEN Tail(rows) ELSE rows, row)

TickClose ==
  /\ mainAt = "closing" /\ mainAt' = "idle"
  /\ heap' = [rows |-> Pushed(heap.rows, [worst |-> bucket.worst, oldest |-> bucket.oldest,
                                          seen |-> seenAt, number |-> heap.pushed + 1]),
              pushed |-> heap.pushed + 1]
  /\ bucket' = EmptyBucket
  /\ UNCHANGED <<clearBucket, webAt, begun, seenAt, emptied>>

(* clearHistory(): the flag first, then the ring.  The HTTP task may be    *)
(* overtaken between the two, the main task's own clear runs between ticks.*)
ClearAsk ==
  /\ webAt = "idle" /\ begun < MaxClears
  /\ webAt' = "asked" /\ begun' = begun + 1 /\ clearBucket' = TRUE
  /\ UNCHANGED <<heap, bucket, mainAt, seenAt, emptied>>

X_ClearRing ==
  /\ webAt = "asked" /\ webAt' = "idle"
  /\ heap' = heap /\ emptied' = heap.pushed
  /\ UNCHANGED <<bucket, clearBucket, mainAt, begun, seenAt>>

ClearRing ==
  /\ webAt = "asked" /\ webAt' = "idle"
  /\ heap' = [heap EXCEPT !.rows = <<>>] /\ emptied' = heap.pushed
  /\ UNCHANGED <<bucket, clearBucket, mainAt, begun, seenAt>>

ScreenClears ==
  /\ mainAt = "idle" /\ begun < MaxClears
  /\ begun' = begun + 1 /\ clearBucket' = TRUE
  /\ heap' = [heap EXCEPT !.rows = <<>>] /\ emptied' = heap.pushed
  /\ UNCHANGED <<bucket, mainAt, webAt, seenAt>>

HeapNext ==
  \/ TickStart \/ TickEarly \/ TickSample \/ TickClose
  \/ ClearAsk \/ ClearRing \/ ScreenClears

HeapSpec == HeapInit /\ [][HeapNext]_heapVars
-----------------------------------------------------------------------------
(* When no clear is in progress, a row that carries a sample from before   *)
(* the last clear is the first one pushed since the ring was emptied, and  *)
(* its tick looked at the flag before the clear began: a clear leaves at   *)
(* most the row of the one tick that was in progress all the while, none   *)
(* of those that were in the ring, and no later one (clearHistory, tick).  *)
OldRowsOnlyFromTickInProgress ==
  webAt = "idle" => \A i \in DOMAIN heap.rows :
    heap.rows[i].oldest < begun =>
      heap.rows[i].number = emptied + 1 /\ heap.rows[i].seen < begun

(* HeapMonitor.h:97-101, "so no pre-clear sample can resurface when that    *)
(* bucket later closes": without that exception.                           *)
ClearedStaysCleared ==
  webAt = "idle" => \A i \in DOMAIN heap.rows : heap.rows[i].oldest >= begun
=============================================================================
