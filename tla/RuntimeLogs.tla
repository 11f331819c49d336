---------------------------- MODULE RuntimeLogs ----------------------------
(***************************************************************************)
(* The logs kept in memory (diagnostics/RuntimeEventLog) and who reads     *)
(* them: the LOGS screen on the main task, which redraws when a revision   *)
(* moves, and the web, whose requests carry the tag of the copy the        *)
(* browser holds (diagnostics_routes).  Any task may push; either reader   *)
(* may clear.  With them the crash report of the last panic (PanicDump)    *)
(* and the marker in the status bar that tells of it.                      *)
(*                                                                         *)
(* An event is the number of pushes before it, so two events differ.  The  *)
(* pages of the screen are numbered as it cycles through them: the logs,   *)
(* the live heap (HeapMonitor.tla has its history), the crash report.  The *)
(* log of the power is in flash and has a module of its own.               *)
(***************************************************************************)
EXTENDS Naturals, Sequences

CONSTANTS
  NumLogs,     \* logs in memory: extraction, pump and net in the code
  RingCap,     \* events a ring keeps (8 to 16 in the code)
  MaxPushes,   \* bound on the events of a behavior
  MaxLogClears,\* bound on its clears
  MaxLogBoots  \* bound on its boots

ASSUME RuntimeLogsAssumption ==
  NumLogs \in Nat \ {0} /\ RingCap \in Nat \ {0} /\ MaxPushes \in Nat

VARIABLES
  ring,        \* per log: its slots, writes since the last clear, revision
  pushes, clears,
  logBoot,     \* the boot, for which the nonce of the tags stands
  logsScreen,  \* the LOGS screen: whether shown, its page and last revisions
  frame,       \* where the main task is in its pass of the loop
  dirty,       \* a drawing was asked for
  shown,       \* the page and the rows last drawn
  copy,        \* per log: what the browser holds, with its tag
  dump,        \* the crash report in flash: none, one, or one that does not decode
  resync,      \* the marker is to be looked at again
  marker,      \* the marker in the status bar
  webClears    \* where the HTTP task is in clearing the crash report

runtimeVars == <<ring, pushes, clears, logBoot, logsScreen, frame, dirty, shown, copy,
                 dump, resync, marker, webClears>>
ringVars == <<ring, pushes, clears, logBoot>>
screenVars == <<logsScreen, frame, dirty, shown>>
panicVars == <<dump, resync, marker, webClears>>

Logs == 0 .. NumLogs - 1
HeapPage == NumLogs
PanicPage == NumLogs + 1
PAGE_COUNT == NumLogs + 2
NoEvent == MaxPushes
EmptyRing == [items |-> [i \in 0 .. RingCap - 1 |-> NoEvent], writes |-> 0, revision |-> 0]
Nothing == [tag |-> <<0, 0>>, rows |-> <<>>]

(* hasPanicDump() checks the image only; readLastPanic() needs its summary.*)
Dumps == {"none", "summary", "undecoded"}
HasPanicDump == dump # "none"
-----------------------------------------------------------------------------
(* Ring: push and clear count revisions, a clear also forgets the writes;  *)
(* a snapshot is the newest first.  Each runs under the ring's spinlock.   *)
RingPush(r, e) ==
  [items |-> [r.items EXCEPT ![r.writes % RingCap] = e],
   writes |-> r.writes + 1, revision |-> r.revision + 1]

X_RingClear(r) == [r EXCEPT !.writes = 0]

RingClear(r) == [r EXCEPT !.writes = 0, !.revision = @ + 1]

RingSnapshot(r) ==
  LET count == IF r.writes < RingCap THEN r.writes ELSE RingCap
  IN [i \in 1 .. count |-> r.items[(r.writes - i) % RingCap]]

Revisions == [l \in Logs |-> ring[l].revision]

RuntimeLogsInit ==
  /\ ring = [l \in Logs |-> EmptyRing] /\ pushes = 0 /\ clears = 0 /\ logBoot = 1
  /\ logsScreen = [on |-> FALSE, page |-> 0, last |-> [l \in Logs |-> 0]]
  /\ frame = "idle" /\ dirty = FALSE /\ shown = <<>>
  /\ copy = [l \in Logs |-> Nothing]
  /\ dump \in Dumps /\ resync = FALSE /\ marker = HasPanicDump /\ webClears = "idle"

Push(l) ==
  /\ pushes < MaxPushes /\ pushes' = pushes + 1
  /\ ring' = [ring EXCEPT ![l] = RingPush(@, pushes)]
  /\ UNCHANGED <<clears, logBoot, screenVars, copy, panicVars>>

ClearRows(l) ==
  /\ clears < MaxLogClears /\ clears' = clears + 1
  /\ ring' = [ring EXCEPT ![l] = RingClear(@)]
  /\ UNCHANGED <<pushes, logBoot>>

(* The web's requests are answered one after the other, by one task.       *)
WebClear(l) == webClears = "idle" /\ ClearRows(l) /\ UNCHANGED <<screenVars, copy, panicVars>>

(* A request for a log: the snapshot and its revision are one; a tag that  *)
(* still fits is answered 304 and changes nothing, so that is no step.     *)
X_LogTag(l) == <<1, ring[l].revision>>

LogTag(l) == <<logBoot, ring[l].revision>>

ServeLog(l) ==
  /\ webClears = "idle" /\ copy[l].tag # LogTag(l)
  /\ copy' = [copy EXCEPT ![l] = [tag |-> LogTag(l), rows |-> RingSnapshot(ring[l])]]
  /\ UNCHANGED <<ringVars, screenVars, panicVars>>
-----------------------------------------------------------------------------
(* The main task's pass: the crash marker, the screen's gesture and tick,  *)
(* and the drawing of what asked for it.  Other tasks push in between.     *)
ConsumeResync ==
  /\ frame = "idle" /\ resync' = FALSE
  /\ frame' = IF resync THEN "looking" ELSE "gesture"
  /\ UNCHANGED <<dump, marker, webClears, ringVars, logsScreen, dirty, shown, copy>>

SetChromeAlert ==
  /\ frame = "looking" /\ frame' = "gesture" /\ marker' = HasPanicDump
  /\ UNCHANGED <<dump, resync, webClears, ringVars, logsScreen, dirty, shown, copy>>

(* Entering the screen, from a menu, is all there is to that pass but the  *)
(* drawing; the page is the one it was left on.                            *)
OnEnterLogs ==
  /\ frame = "gesture" /\ ~logsScreen.on
  /\ logsScreen' = [logsScreen EXCEPT !.on = TRUE, !.last = Revisions]
  /\ dirty' = TRUE /\ frame' = "drawing"
  /\ UNCHANGED <<shown, ringVars, copy, panicVars>>

NextPage ==
  /\ frame = "gesture" /\ logsScreen.on /\ frame' = "ticking" /\ dirty' = TRUE
  /\ logsScreen' = [logsScreen EXCEPT !.page = (@ + 1) % PAGE_COUNT]
  /\ UNCHANGED <<shown, ringVars, copy, panicVars>>

(* A long press clears the page in view; the crash report's clear asks for *)
(* the marker to be looked at again, whatever became of it.  The history   *)
(* of the heap is HeapMonitor's.                                           *)
ClearPage ==
  /\ frame = "gesture" /\ logsScreen.on /\ frame' = "ticking" /\ dirty' = TRUE
  /\ UNCHANGED <<logsScreen, shown, copy>>
  /\ \/ logsScreen.page \in Logs /\ ClearRows(logsScreen.page) /\ UNCHANGED panicVars
     \/ logsScreen.page = HeapPage /\ UNCHANGED <<ringVars, panicVars>>
     \/ /\ logsScreen.page = PanicPage
        /\ dump' \in {"none", dump} /\ resync' = TRUE
        /\ UNCHANGED <<ringVars, marker, webClears>>

ExitLogs ==
  /\ frame = "gesture" /\ logsScreen.on /\ frame' = "drawing"
  /\ logsScreen' = [logsScreen EXCEPT !.on = FALSE]
  /\ UNCHANGED <<dirty, shown, ringVars, copy, panicVars>>

NoLogsGesture ==
  /\ frame = "gesture" /\ frame' = IF logsScreen.on THEN "ticking" ELSE "drawing"
  /\ UNCHANGED <<logsScreen, dirty, shown, ringVars, copy, panicVars>>

(* tick() runs every 250 ms only, so a pass may go without.  The live heap *)
(* is drawn by every tick, the other pages by a revision that moved.       *)
TickLogs ==
  /\ frame = "ticking" /\ frame' = "drawing"
  /\ \/ logsScreen.page = HeapPage /\ dirty' = TRUE /\ UNCHANGED logsScreen
     \/ /\ logsScreen.page # HeapPage
        /\ logsScreen' = [logsScreen EXCEPT !.last = Revisions]
        /\ dirty' = (dirty \/ Revisions # logsScreen.last)
     \/ UNCHANGED <<logsScreen, dirty>>
  /\ UNCHANGED <<shown, ringVars, copy, panicVars>>

(* What a page shows: a snapshot of its log, or the report if it decodes.  *)
Rendered(p) ==
  CASE p \in Logs -> <<p, RingSnapshot(ring[p])>>
    [] p = PanicPage -> <<p, dump = "summary">>
    [] p = HeapPage -> <<p>>

DrawLogs ==
  /\ frame = "drawing" /\ frame' = "idle" /\ dirty' = FALSE
  /\ shown' = IF ~logsScreen.on THEN <<>> ELSE IF dirty THEN Rendered(logsScreen.page) ELSE shown
  /\ UNCHANGED <<logsScreen, ringVars, copy, panicVars>>

(* The web clears the crash report: erased or not, then the flag is set.   *)
WebClearPanic ==
  /\ webClears = "idle" /\ clears < MaxLogClears /\ clears' = clears + 1
  /\ dump' \in {"none", dump} /\ webClears' = "erased"
  /\ UNCHANGED <<resync, marker, ring, pushes, logBoot, screenVars, copy>>

X_WebAskResync ==
  /\ webClears = "erased" /\ webClears' = "idle"
  /\ UNCHANGED <<dump, resync, marker, ringVars, screenVars, copy>>

WebAskResync ==
  /\ webClears = "erased" /\ webClears' = "idle" /\ resync' = TRUE
  /\ UNCHANGED <<dump, marker, ringVars, screenVars, copy>>

(* A restart, by the power or by a panic that leaves a report: the rings   *)
(* begin empty and the nonce of the tags is new; the browser keeps its copy.*)
LogsReboot ==
  /\ logBoot < MaxLogBoots /\ logBoot' = logBoot + 1
  /\ ring' = [l \in Logs |-> EmptyRing]
  /\ logsScreen' = [on |-> FALSE, page |-> 0, last |-> [l \in Logs |-> 0]]
  /\ frame' = "idle" /\ dirty' = FALSE /\ shown' = <<>>
  /\ dump' \in {dump, "summary", "undecoded"} /\ resync' = FALSE /\ marker' = HasPanicDump'
  /\ webClears' = "idle"
  /\ UNCHANGED <<pushes, clears, copy>>

MainTask ==
  \/ ConsumeResync \/ SetChromeAlert
  \/ OnEnterLogs \/ NextPage \/ ClearPage \/ ExitLogs \/ NoLogsGesture
  \/ TickLogs \/ DrawLogs

RuntimeLogsNext ==
  \/ \E l \in Logs : Push(l) \/ WebClear(l) \/ ServeLog(l)
  \/ MainTask \/ WebClearPanic \/ WebAskResync \/ LogsReboot

RuntimeLogsSpec == RuntimeLogsInit /\ [][RuntimeLogsNext]_runtimeVars
-----------------------------------------------------------------------------
(* Between two passes of the main loop, when nothing changed since the     *)
(* screen last looked, the page in view shows its log as it is: no push    *)
(* and no clear, from the web either, is missed (LogsScreen::tick, which   *)
(* compares revisions and not counts of writes).  The crash report has no  *)
(* revision: its page may show one that the web has cleared since, but     *)
(* never hides one that can be read.                                       *)
PageIsCurrent ==
  (frame = "idle" /\ logsScreen.on) =>
    /\ logsScreen.page \in Logs /\ logsScreen.last = Revisions => shown = Rendered(logsScreen.page)
    /\ logsScreen.page = PanicPage => shown \in {<<PanicPage, TRUE>>, Rendered(PanicPage)}

(* A tag that fits, which is answered 304, never stands for other rows     *)
(* than those the log has: not after a clear, not after a restart          *)
(* (conditional in diagnostics_routes).                                    *)
FreshTagFreshRows ==
  \A l \in Logs : copy[l].tag = LogTag(l) => copy[l].rows = RingSnapshot(ring[l])

(* Once no clear is in progress and the main task has seen the request for *)
(* it, the marker in the bar tells whether a crash report is stored        *)
(* (clearLastPanicAndResync, consumePanicAlertResync).                     *)
MarkerMatchesDump == (webClears = "idle" /\ ~resync /\ frame # "looking") => marker = HasPanicDump
=============================================================================
