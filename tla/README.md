# pumpbug in TLA+

A verification project for the firmware in `src/src` and the web page in
`src/web-src`: TLA+ modules of the parts where tasks, timeouts and partial
failures meet, TLC runs on small instances, and theorems checked by TLAPS.
Line numbers refer to the repository at the commit the project was written for.
`PROJECT.json` holds the same content in machine-readable form: components,
runs, mutants (one plausible bug per property), the map from definitions to
source lines, findings, hazards and theorems.

## 1. The system

pumpbug watches an espresso machine: an accelerometer feels the pump, a Bluetooth
scale weighs the cup, and the device records each extraction, shows it on its
screen, streams it to a browser and keeps a history on flash.

### Tasks

| task | runs | blocks on |
|---|---|---|
| main loop (Arduino `loop`) | screens, `ExtractionController`, `PowerManager`, `NetworkServicesHost` and its servers' start and stop, sleep | flash writes, `stop()` of the servers, the pre-sleep wait |
| BLE manager | `BleScaleService::_managerLoop`: commands, demand, controller transitions, link | NimBLE calls, 100 ms ticks |
| NimBLE host | connect, disconnect, advert and notify callbacks | the host lock |
| FIFO task | reads the accelerometer, analyses a frame, publishes pump on or off | its timer |
| `http` (port 80) | routes: stream tickets, `/loaded`, history, settings, pairing, logs | client sockets |
| `sse` (port 81) | `SseServer` and its one `ExtractionStream` session | client socket, 20 ms polls |
| Wi-Fi event task | `WifiManager`'s event handler | its queue of events |

### Components

| component | state | operations | interacts with | what makes it correct |
|---|---|---|---|---|
| Scale radio power (`power/PowerManager`, `ScaleRadioStateMachine`, `ControllerTransition`) | decision state, policy, pending wait, published status | `update`, `setScaleRadioPolicy`, `notifyUserActivity` | BLE manager through atomics and a queue | never shuts NimBLE down under a link; at most one request in flight; converges |
| BLE manager (`ble/BleScaleService`) | controller state, mode, link, scan lease, command queue, message log, scan table | `_managerLoop`, request and demand calls, callbacks | power machine, screens, HTTP diagnostics, drivers | a reading belongs to the link it is shown for; a tare goes to the scale it was asked of; an advertised scale is reached |
| Scale driver (`ble/Acaia*`) | frame buffer | notify, send | link, message log | resynchronises after damage and loses no whole frame behind it |
| Extraction recorder (`apps/extraction/ExtractionRecorder`, `LivePourTracker`) | current record, event and sample buffers, pour state | `update`, `clear`, `triggerAlarm` | controller, replayer | a well-formed record for any timing; it closes |
| Extraction controller (`ExtractionController`) | accepted and loaded shots, sequence numbers, wake-up counter | `tick`, `activate`, `deactivate`, replay, `setLoaded` | recorder, store, stream, screen | each real shot saved once; no reader sees half a record |
| Live screen (`ui/ExtractionScreen`, `TargetAlert`, `ui/TargetStore`) | view, replay, armed target, tones, picture | gestures, tick, draw | controller, recorder, speaker | a live pull has the user's target after a replay had another; a tone means its alert; the panel shows the present record |
| Event stream (`ExtractionStream`, `web-src/.../stream.js`) | per-session cursors; the page's model | one pass of a session; packets | controller under its mutex, the page | the page ends up with what the device has |
| SSE server (`net/SseServer`) | stop reason, ticket, session flag, task flags | start, stop, ticket, accept, session, sleep signal | main, `http`, pages | one live stream; `stop()` returns |
| HTTP server (`net/HttpServer`), network services host | server task, route table | begin, stop, rebuild | Wi-Fi, main | stop returns |
| Wi-Fi manager (`net/WifiManager`) | mode, association, pending slot, NVS settings, timers | requests, events, update | radio coexistence, servers | the published state settles on what the driver does; an accepted reset happens |
| Pairing (`net/Auth`, `apps/wifi`) | window, code, guesses, token list; the screens' steps | open, redeem, mint, revoke | screens, routes, radio | one client per window; who was sent away stays out |
| Shot history (`apps/extraction/history/ShotStore`, `shot_id_reservation`) | files, last id in NVS, revision | `save`, page, load; `storage::mount`, `retryMount`, `format` | controller, routes, erase and recovery screens | ids never reused, power loss keeps old shots, bounded size |
| History routes and list (`ShotHistoryRoutes`, `web-src/.../ui-history.js`) | the page's rows and validators, requests in flight | refresh, load older, STATE | store under its mutex, savedSeq | what the page claims to hold is what it shows |
| Record encoding (`ExtractionWire`, `extraction_encoding`) | none | encode, decode | store, stream | decode undoes encode |
| Pump detection (`vibration/`) | spectrum, trigger, decay tracker, session | begin, end, one frame | FIFO task, its two screens | the loudest in-band cluster is found; no callback outlives its session |
| Power saving, low battery, button, shutdown (`power/`, `util/power`) | timers, latches, chip registers, event log in NVS | update, shutdown, boot | screens, PMIC and IMU over I2C | sleeps as intended even when a transfer fails; the log tells what happened; an empty battery shuts down |
| Backflush (`apps/backflush`) | cycle, phase, pending change | pump edges, ticks | pump sensor, its screen | periods are measured to the edge, not to its confirmation |
| Host and screens (`ui/UiHost`, `MainNavigation`, `apps/onboarding`, `apps/system`) | stack, bar, orientation, panel | gestures, tick, layout | all screens | the panel shows the active screen |
| Logs (`diagnostics/`) | rings, heap buckets, panic dump, tags | push, clear, read | LOGS screen, web | a reader that is told nothing changed has the newest |
| Speaker codec, counter, fonts, build scripts | – | – | – | outside what TLC is good for, or no shared state |

The behaviours that are hard here are: the interleaving of the main loop with
server, radio and sensor tasks over atomics and short critical sections (no lock is held
across a whole operation anywhere); timeouts that race the answer they wait for
(controller transitions, connect attempts, tickets, pairing, confirmations); flash and I2C writes that fail or
are cut by power loss; a 32-bit millisecond clock; and one browser page that may
lose its connection between any two packets. `PROJECT.json` lists each such hazard at the line where it bites, with
the properties that cover it.

## 2. Plan

The order followed importance: first what can leave the device wedged, then what can lose or corrupt
a shot, then what can mislead its user. All of it is done.

1. The radio: `ScaleRadioStateMachine`, `ScaleRadio`; below it `BleLink`, `AcaiaV2Codec`, `ScaleDiagnostics`.
2. The shot: `ShotLifecycle`, `ExtractionController`, `ExtractionStream`, `ExtractionRecorder`, `ExtractionCodec`,
   `ShotArchive`, `ShotStore`, `ShotHistoryPage`.
3. The network: `SseServer`; `RadioService`, `WifiManager`, `HttpServer`, `NetworkServices`; `Auth`, `WifiScreens`.
4. Power: `MotionWake`, `PowerEventLog`, `PowerPolicy`.
5. The screens and what they watch: `Sums`, `PumpSpectrum`, `PumpSensor`, `Backflush`, `Foreground`, `LiveScreen`,
   `HeapMonitor`, `RuntimeLogs`.
6. Proofs, in the same order of importance: `ScaleRadioProofs`, `ShotStoreProofs`, `WebServerProofs`, `MeasurementProofs`,
   `ExtractionStreamProofs`, `NetworkServicesProofs`, `WifiScreensProofs`, `DeviceProofs`. Modules that share no state share
   a proof module where their names allow it.

Composition: `ExtractionStream` extends the controller; `ShotHistoryPage` the store; `NetworkServices` composes
`WifiManager` and `HttpServer`; `WifiScreens` composes `Auth` with the *specification* of the radio,
`RadioService`; `PowerPolicy` extends the event log, which extends the sequences of `MotionWake`.

Abstract specifications: `ShotLifecycle` (used by the controller, kept by the recorder); `ShotArchive` (kept by the
store, `KeepsArchive`); `RadioService` (kept by the network, `ImplementsRadio`).

What is worth doing next: the method by which `PumpTimeAccounted`, `PeriodsMeasured` and `PumpToneFound` are proved (section 6), a witness of the recursive function,
for what the decoders compute over a message or a record (`FramesRecovered`, `RecordReadsBack`).

## 3. Modules

Every module names in its comments the functions its actions stand for; mutants
(operators called `X_Something` before `X`) are the plausible bugs the properties
are measured against and are used by no specification. Some modules state more properties than the
runs check; those that are proved are named in section 6.

### ScaleRadioStateMachine, ScaleRadio

`ScaleRadioStateMachine` is the decision function as operators on a record:
`Update(m, in)` is `update()`, `Resolve` is `resolveAction()`, `SetPolicy` and
`NotifyActivity` the setters. `ScaleRadio` adds the two tasks.
`PowerManager::update()` is cut where it touches shared state (`PmObserve`,
`PmUpdate`, `PmRequest`, `PmResolve`, `PmApply`); the manager loop is cut at every
atomic (`MgrDrain` … `MgrRun`). The 5000 ms transition timeout is `StageTimeout`
ticks of the waiting machine; the diagnostic lease is None, Live or Lapsed. The
connection itself is reduced to what `serviceState()` tells apart.

### BleLink

Connect mode of `BleScaleService` on its three tasks: the manager's tick (drain, choose a mode, run it),
the host's callbacks, and the application's enable, disable and tare. A connection attempt blocks the manager
while callbacks keep arriving; a callback that has passed its check may still be on its way to its
store when the manager tears the link down. `RunFound`, `TryConnect`, `Subscribe`, `Identify`, `Fallback`,
`RunLink`… are the stages of one attempt. The controller stays up and the scan lease is absent: those are
`ScaleRadio`'s. No callback is half done while a connect completes; a disconnect callback of an
old link that arrives late, and a scale that sends no weight within the retries, each count as a fault.
`setScanPolicy`, which nothing calls, is left out.

### AcaiaV2Codec, ScaleDiagnostics

`AcaiaV2Codec` is the packet format as pure operators over byte sequences: building, feeding (with
resynchronisation on a bad header or checksum), classifying. `ScaleDiagnostics` adds the log of messages, which is
armed and disarmed while the host task receives and the HTTP task polls with an ETag,
and the table of advertisers with its interval estimate. A behaviour stays in one of
the two modes. `MaxFrame` 17 stands for the driver's limit of 64; names and the "recognised" flag are left out;
notifications are whole frames or pieces cut at four places (`MCScaleDiagnostics`).

### SseServer

Three tasks over `_shouldRun`, `_taskExited`, `_stopReason`, `_sessionActive`: main
(`WifiUp`, `WifiDown`, `HttpBegin`, `SseBegin`, `HttpStop`, `SseStop*`, `Sleep*`, `Reboot`), `http`
(`TicketForce`, `TicketMint`) and `sse` (`SseListen` … `SseClose`, one action per
atomic access of `_taskLoop`). Compare-exchange is `CompareExchange`. Each page is a
small automaton written from `stream.js`: it asks for a ticket, opens an EventSource,
streams, and reacts to `replaced`, `sleeping` and loss. What is sent is left out.

### RadioService, WifiManager, HttpServer, NetworkServices

`WifiManager` is the slot of pending requests any task fills, the transitions the main task makes, and the event
handler, each of whose events is one step (see the end of this paragraph). The driver is external: what it is switched to, its link, and the
queue of events it has not delivered. Any NVS write may fail, the reading of the stored credentials too, and so may the access point, at boot or later; a power cut may fall between two. Time is "the 15 s of
the attempt are over". `HttpServer` has start, stop and the rebuild of the routes on a dirty flag, with its
retry. `NetworkServices` is the main loop's pass over both (`TakePending`, `HttpStopped`, `Apply`, `CheckTimeout`,
`SyncServers`), the boot and `stopForDataErase`. The stream's server is a flag in it. `RadioService` is what
the screens rely on; `ImplementsRadio` shows that the network keeps it. The event queue is not held up for
15 s. One assumption is ours: the event task is not overtaken between a check and the stores that depend on it, which is
why a check and its stores can be one step. Outside boot the cached `isConfigured` is read without a failure.

### Auth, WifiScreens

`Auth` has one operation per critical section: open and expire a window, redeem by PIN or by the pair token, mint, revoke
and forget all, with tokens in RAM and in flash and writes that fail. A write that reports failure has left flash as it was; a `forgetAll` that
flash refuses has emptied RAM all the same, and a restart reads the tokens again: `refused` and `back` remember that for the properties. `WifiScreens` puts it under the status screen and the
set-up wizard, on top of `RadioService`: the main loop alternates the network pass and a screen's
event and tick, requests of the server task run in between. Windows have distinct codes.

### ShotLifecycle, ExtractionController, ExtractionStream

`ShotLifecycle` is the abstract recorder: a record has a phase, a begin time and a
number of samples, and `Updates(rec, …)` is the set of outcomes one `update()` may
have. `ExtractionController` cuts the main task's tick at its critical sections and
file operations (`Tick`, `Decode`, `Update`, `Bump`, `Save`, `MarkSaved`, `BumpSaved`,
`ClearFinished`, `ReplayTick`), with screen entry and exit, replay, and the web
request that loads a stored shot. `ExtractionStream` runs a session against it:
the status copy, the record copies and each packet are separate steps, and `PageOn*` are the handlers of `stream.js`.
The wake-up counter is one flag, since a session only compares it with the last
value it saw. Two more variables only remember: `unheard`, that a load has failed since the session last began to read, and `retaken`, that a record
took the begin time of the one the session had sent last. Heartbeats, measurements and their rate limit are left out.

### ExtractionRecorder

The detailed recorder: clock modulo `ClockRange`, event and sample buffers with
their limits and reserved slots, the pump edges, the five ways a record ends (`FinalCause`,
`SplitCause`), trimming at finalize, the dedup key, and `LivePourTracker`'s settle
counter and meaningful yield, which any trusted sample updates once a pour has begun (`Tracked`). `RecorderUpdate`, `Clear` and `TriggerAlarm` are the three mutating operations. A
weight is reduced to the band the tracker's classifier puts it in, a free choice
of the environment.

### ExtractionCodec

`encodeCompact` and `decodeCompact`: the writer appends one record to a stream in chunks; the
reader walks it as the source does, with both versions on flash and every truncation. A varint digit holds
`Base` values, times wrap at `Word`, weights are `-Half .. Half - 1`; header fields the decoder does not
act on are one token, and records of version 6 carry no lead.

### ShotArchive, ShotStore, ShotHistoryPage

`ShotArchive` is the promise: records under growing ids, never changed, removed only
by the user or as the oldest after a newer one was stored. `ShotStore` cuts
`ShotStore::save` where flash changes (`Save`, `Reserve`, `Open`, `Close`, `Verify*`, `Evict`, `Saved`,
`MarkSaved`), with `storage::mount`, `retryMount` and `format` and the two screens that erase;
`Crash` may follow any step and every operation may fail, the scan of `save()` as a whole. A file is reduced to its shot
and whether it is whole, short with a valid header, or without one. `Archive` in it is the refinement
mapping. `ShotHistoryPage` adds the list and
detail handlers, one step for each time they take the store's mutex, and `ui-history.js`: the two
fetches, the tokens, the deferred refresh and the validators. The directory may not open while a page is answered and any header may not read, and
the answer is then short under the tag of the whole (`Reads`, `Answer`). `left` remembers for the properties that a failed save has left its
file behind, `misread` that the answer whose tag the page keeps was cut by a failed read. `erase(id)`, which
nothing calls, is left out.

### MotionWake, PowerEventLog, PowerPolicy

`MotionWake` is the sequence that arms the motion sensor and cuts the supply, and its counterpart at boot,
one I2C transfer at a time: the value of a failed write may or may not have reached its
register, a failed read of the external voltage counts as none, and power may be cut inside the
shutdown call. `hw` outlives the program. `PowerEventLog` is the ring in memory and
its copy in NVS, with the clock that stamps them. `PowerPolicy` adds the idle timers, the
button, the battery confirmation and the CPU target of `PowerManager::update()`; its three timers
have clocks of their own, counted in units of their thresholds, since
minutes, seconds and tenths never meet. The policies' memory is reset where a shutdown begins, which does not return.

### PumpSpectrum, PumpSensor, Backflush

`PumpSpectrum` takes a small integer spectrum through peak search, clustering and the choice of the pump tone, with
ratios in place of logarithms; interpolation between bins only decides whether a peak in an edge bin is inside the
band, which is left open. `PumpToneFound` excepts a pump tone that a chain of top bins, no two neighbors further apart than the
gap, joins to a louder tone outside the band: the cluster is then placed at the louder one, and a weaker tone in the band is taken for the pump or none is (in the
spectrum 2 1 1 2 0 1 1 with the pump in bins 4 to 6, bin 6 is taken instead of bin 4). `Sums` is the total both this and `Backflush` take. `PumpSensor` has the FIFO task, the window trigger and the decay tracker, and the
screens that own a session one after another; the averages are abstracted to what the thresholds see. `Backflush` is
`BackflushCycle` with its confirmation of changes, under the screen's ticks; leaving and re-entering the
screen is `StartSession`.

### Foreground, LiveScreen

`Foreground` is `UiHost` with its stack, the bar, drawing and the choice of screens, with the menus, the
guided tour, the target editor and the two erasing screens; one `update()` is one step, since only the main
task runs it. A screen's state is forgotten when it is left, because `onEnter` resets it; the target editor
has two digits; orientations are two. The bar needs a buffer of its own that may not be had at first (`MemoryFreed`); a long erase is one step, and what it
took when it stays incomplete or the power goes is left open. `LiveScreen` is `ExtractionScreen`: views, replay of a stored shot, the
target alert and its tones, and what the picture depends on. The recorder is reduced to
phases and one yield there (a shot is real from two up), a target is the armed weight or 0, flow is
valid or not, and a `POST /loaded` that arrived between two ticks is an input of the tick.

### HeapMonitor, RuntimeLogs

`HeapMonitor` cuts `tick()` and `clearHistory()` where the other task may come between; a sample carries the
number of clears begun when it was taken, and a row the tick's look at the flag and its place since the ring was emptied. `RuntimeLogs` has one of the logs with its two readers, the
crash report, which may be stored and not decode, and the marker in the bar; a boot has its own nonce.

### Faults, MC modules

`Faults` is the shared budget of failures. `MCUnits` and `MCServices` put parts that share no
state into one run: a behaviour is a behaviour of one part, the others stay at their beginning.
`MCExtraction` does it for the recorder and the screen. `MCExtractionStream` and `MCScaleDiagnostics` give the instances that a
cfg cannot write.

## 4. Runs

| run | cfg | question and bounds |
|---|---|---|
| `radio` | `ScaleRadio` | All four policies, three events, a timeout of one tick, commands drained at once or late: `RadioReleasedBeforeDeinit`, `HandoverStrandsNothing`, `Convergence`. Every atomic of both tasks interleaves. 601 502 states. |
| `sse` | `SseServer_safety` | Two pages, three tickets, three events (reload, Wi-Fi loss, sleep): `OneLiveStream`, `StopReturns`. 581 640 states. |
| `stream` | `ExtractionStream` | Two extractions that follow each other or split, and a lost connection; a stored shot replayed twice; or one extraction next to a stored shot that is loaded, with a load that fails and a lost connection: `NoDesync`, `RestingPageIsCurrent`, `EachShotPersistedOnce`. 10 024 018 states. |
| `extraction` | `MCExtraction` | The recorder: a record and the one that follows or splits from it, five event slots and one sample, an alarm, readings up to two ticks old, three bands: `PumpTimeAccounted`, `TimelineSound`, `RecordCloses`. The screen: two views, live shots and a replayed one, targets 1 and 2, yields to two with one over: `LivePullHasUserTarget`, `ToneMeansAlert`, `PanelShowsPresent`. 114 831 states. |
| `network` | `NetworkServices_safety` | One network, three requests, two events in flight, one fault: `RadioMatches`, `ResetHappens`, `HttpStopReturns`, `ImplementsRadio`. 396 167 states. |
| `stale_ip` | `NetworkServices_stale` | Violation: section 7. |
| `stale_list` | `ShotHistoryPage_leftover` | Violation: section 7. |
| `unpaired_returns` | `WifiScreens_refused` | Violation: section 7. |
| `ble_link` | `BleLink` | Two scales, a queue of one, three events, two faults: `ReadyWeightIsLive`, `TareOnAskedLink`, `ScaleIsReached`. 129 328 states. |
| `power` | `PowerPolicy` | A log of two events, two boots, two events from outside, one failed transfer: `DownAsIntended`, `LogTellsTheTruth`, `LowBatteryShutsDown`. 626 073 states. |
| `units` | `MCUnits` | Shot storage (capacity two, ids to five, six saves, three faults, one erasure): `HistoryBounded`, `KeepsArchive`. The list in the browser, one row per page, five saves, clicks, lost answers, failed reads, faults and erasures together: `ConfirmedPageIsCurrent`. Every spectrum of seven bins with four powers: `PumpToneFound`. Sensor sessions of two screens: `CallsStayInSession`. Backflush of two cycles: `PeriodsMeasured`. Scale messages, four notifications, packets, toggles and polls together: `FramesRecovered`, `PageShowsLog`. 806 241 states. |
| `services` | `MCServices` | Host and screens: `PanelShowsActive`. Heap history of two rows under two clears, three rows pushed: `OldRowsOnlyFromTickInProgress`. Logs: `PageIsCurrent`, `FreshTagFreshRows`, `MarkerMatchesDump`. Every record of two events and two samples: `RecordReadsBack`. Two browsers, two windows, two guesses, a list of one token, one failing write: `WindowIsLimited` (`OneClientPerWindow`, `GuessesBounded`), `KnownArePaired` (`TokensAgree`, `RevokedReturnByRestartOnly`). 3 793 881 states. |

Why the bounds are enough. Two pages and three tickets are the least at which a
takeover can itself be overtaken; three events let a Wi-Fi loss and a sleep request
meet it. Two extractions are the least at which one can replace the other
between two copies of a session; the code keeps no history beyond the accepted
shot and the record in flight. Timeouts are small numbers because only their
order against each other and against the tick matters. A radio run needs three events to change demand, policy and
activity within one transition. The store needs one more save
than its capacity to evict and two more to evict beside a leftover of a failed save; three
faults let a failed removal, a failed save and a restart follow each other. One row per page is the
least at which a second page exists; five events in all let two failures of one save meet a refresh before and one after it,
or an eviction fall between a refresh and an older page. A network pass with three requests has one pending while one is
applied and another that supersedes it; two events in the queue are the least for a stale pair
(association and address). A list of one token evicts at the second pairing. Two scales are the least
at which a tare can go astray, one queue slot the least at which a command is refused. Two boots show what a log or a chip
setting carries over. Two clears are the least at which one overtakes the other. Four digits per
varint byte and words of three bytes reach every length class of the code's five. For thirty of the forty
properties the proofs of section 6 remove the bounds.

`CHECK_DEADLOCK FALSE` is set where the bounds can be used up with the system at rest: no events, saves, clicks,
requests, clears or boots left. Deadlock is checked for `radio`, `stream`, `extraction` and `ble_link`, which never stop.

## 5. Fairness

Safety needs none. For liveness each task that the code keeps scheduling is
weakly fair and nothing the environment does is, except where named:

- `ScaleRadio`: `WF(PmNext)` and `WF(MgrNext)` – `loop()` calls `PowerManager::update()`
  on every pass and the manager task runs on a 100 ms tick.
- `SseServer`: `WF(MainNext)`, `WF(HttpNext)`, `WF(SseProgress)` – FreeRTOS
  tasks of their own; `SseProgress` excludes failure, and a handler polls `isSessionStopRequested()`.
- `FairRecorderSpec` of `ExtractionRecorder`: the clock keeps moving (`[]<><<now' # now>>_now`), which an update always does.
- `BleLink`: `WF` of the manager, of the host's steps and of its notifications – the two tasks run; `SF` of a
  weight, an advert and a goodbye: NimBLE delivers the notifications of a link that lives, a scale that advertises is heard in some of the
  scans, and a link that is closed is reported. Strong, because each scan and each link is
  short: an event possible again and again, never for good.
- `NetworkServices`: `WF` of the main pass, of an erase that began, of the cache, of the server task and its handlers, of the
  event handler, and of the passing of 15 s.
- `PowerPolicy`: `WF` of an update, of the battery's tick and its falling level, and of the end of a boot.

`WifiScreens` states `WF` of its main loop and handler for its liveness definitions; the checked properties are safety.
`MCUnits` and `MCServices` check safety and a refinement without fairness; `MCExtraction` states the clock of the recorder only.

## 6. What is proved

Eight modules hold the theorems. Of the forty properties of the passing runs thirty are stated by a theorem, for every value of the
constants that the named assumptions allow; the other ten are listed at the end of this section. Where several components share a proof module they
share no state, and their proofs cite nothing of each other. Each proof has the same shape: facts about
the operators as lemmas, what an action does to the variables an invariant reads as lemmas (`MainFacts`, `WindowMoves`, `RadioStep`…), the
invariant over one action after another, and the theorem by PTL.

`ScaleRadioProofs` proves, for every `StageTimeout`, every set of policies, any number of
events and both values of `PromptDrain`: `TypeCorrectness`, `RadioReleased`,
`WaitMatches`, `OneRequest`, `NoStray`, `Handover`, `SettledStatus` and `LeaseRenewal`. The
assumptions are the two named ones of the modules (`StageTimeoutAssumption`,
`ScaleRadioAssumption`).

The argument. None of the properties is inductive alone. `IInv` adds

- `PowerOK`: where `update()` is, and so which request is being made, agrees with the
  machine's state and wait (`Requesting`); this is what makes `WaitMatchesState` survive
  the gap between deciding, requesting and resolving;
- `QueueOK`: flag, queue and the manager's program counter agree, so a second request is refused;
- `ManagerOK`: at each manager step, which of mode, link, scan and client have already been
  released; `RadioReleasedBeforeDeinit` is its projection;
- `StrayOK`: with prompt draining, a queued or running command is one the machine waits for;
- `SettledOK`: a settled status pins both the machine and the controller.

The lemmas on `Update` and `Resolve` (`DecisionOK`) are about the pure decision
function and are cited by each action's step; `Invariance` has one step per action.
`LeaseRenewal` is an action property from the same invariant.

`ShotStoreProofs` proves, for every capacity, every range of ids and any number of saves, faults
and erasures (`StoreAssumption`: the capacity is positive, the rest are naturals): `TypeCorrectness`,
`Bounded` (`HistoryBounded`) and `Refinement` (`KeepsArchive`, the store implements `ShotArchive`).
`IInv` adds to `TypeOK` and `HistoryBounded`

- `SavingOK`: the id a save has reserved equals the one in NVS and is above every file, it is
  no file before `Open` and one afterwards, and a file that reaches retention is whole. Without it
  neither does `Open` add only one file, nor is the oldest file another than the new one (`VictimIsOlder`);
- `CountsOK`: a save under way has been counted, so that what `Open` and `Close` write has a shot;
- `MediaOK`: a blank volume has no files and only a blank volume is formatted unasked, so that
  formatting in `setup()` removes no record.

`Bounded` needs one fact per step: a step adds a file only as it enters `"close"`, and leaves one
behind only at the price of a fault (`Allowance`). `Refinement` has one lemma per group of actions,
which shows that the step is `Reserve`, `Store`, `Evict` or `Erase` of the archive or leaves it alone
(`Stutters`); the crash between verification and the return of `save()` is a `Store`. Both rest on
`LastUsedBound`: what `LastUsed` computes is the least bound of the files and the NVS id.
The least element of a set of ids comes from the well-foundedness of `<` (`WFMin`), because the
induction theorems of the library cannot be instantiated.

Its second part is about `ShotHistoryPage` (`PageAssumption`: a page has at least one row) and proves `ConfirmedIsCurrent` (`ConfirmedPageIsCurrent`) over the store's
`IInv`. What the list stands for is `Kept`, the files a page shows once the save under way lets go. `TagStays` is the heart: no step of the device
makes a tag of the past confirmable again (`PastTag`), and none changes `Kept` under a tag that is, except a save that leaves its file behind (`KeptStays`).
Along the way of a refresh `RefreshFits` says that, while no read of it has failed, the rows read and those still to be read are together what the tag stands for; that a row is still there when it is read follows
(`RowOfPage`). `PageFits` adds that one fetch at most is live, that "load more" never writes the first page's validator, and that it can
only append behind a full page (`FirstPageStays`). That a page's rows are ids of the directory (`Ranks`) is a pigeonhole argument: as many ranks as files.

`WebServerProofs` has three parts.

- *The event stream* (`SseAssumption`: "None" is no page, the bounds are naturals), for any number of pages and tickets:
  `TypeCorrectness`, `OneStream` (`OneLiveStream`), `TakeoverOnly`, `SleepSignalCleared` and the action property `RequestStays`. `SseInv` adds
  `TicketsOK` (a ticket in use was minted, none is beyond the newest), `QuietOK` (what each task has cleared at each of its places) and
  `TakeoverOK` (a session whose ticket is not the newest has been told, or is about to be). `OneLiveStream`
  fails to be inductive without the last: a page that gets the newer ticket would not know that the older session ends.
- *The heap history* (`HeapAssumption`): `ClearedButForTick` (`OldRowsOnlyFromTickInProgress`: a row with samples of before the last clear is the first pushed since
  the ring was emptied, by a tick that had looked at the flag before). `BucketIsNew` ties the bucket to the clears begun, `FlagTaken` says what the
  tick in progress has seen of the flag, and `NothingPushed` that a tick a whole clear has overtaken is the first to push after it.
- *The logs* (`RuntimeLogsAssumption`): `PageShowsItsLog`, `TagStandsForRows`, `MarkerTells`. `PanelKept` states what the panel shows in the middle of a pass,
  when no drawing was asked for and the last revisions are the rings'; `SeenIsPast` and `TagIsPast` say that neither the screen nor a
  browser is ahead of a ring, so that an equal revision means equal rows, across boots as well.

`MeasurementProofs` has four.

- *The scale link* (`BleAssumption`: there is an address), for any addresses, depth of the queue, events and faults: `WeightIsLive` and `TareOnItsLink`. `LinkInv` adds `HalfOfReceiver` and
  `StoreOfLink` (a callback about to store was received over the link of now), `WeightOfLink` and `QueuedTares` (a queued tare of this epoch
  bears the link that is ready, until its teardown, which leaves READY before the queue is read again).
- *The pump's sensor* (`SensorConstants`), for any screens and thresholds: `CallsInSession` and `OnsetBackdated` (a pump-off is dated
  inside its window, at most `MAX_CARRY_MS` back). `SessionInv` adds `TaskWhileRunning` (task and state agree, and only `end()` asks it to stop) and
  `SessionHasOwner`; the second theorem rests on `OnsetFits`, a bound on the onset candidate that each frame's aging keeps.
- *The backflush* (`BackflushConstants`), for any number of cycles, target, windows and time between ticks: `PeriodsAreMeasured`
  (`PeriodsMeasured`). `BackflushInv` adds `CycleOK` (the place in the list of periods, the periods recorded so far, a pending change
  younger than its period) and `PendingOfPump`: a pending change is the state the sensor reports, and that state has held for at least as
  long. Every update either keeps what the cycle accounts for or records a period and begins the next one at the moment the change was first
  seen (`MovesOn`). `Total` is a recursive function; that it exists for every sequence of durations is shown by the least prefix without one
  (`SumsExist`), and what an `Append` adds to it follows (`TotalAppend`).

- *The pump's tone* (`SpectrumConstants`), for any analysis band, pump band, edge bins, gap and powers: `PumpToneIsFound` (`PumpToneFound`). `TopOK` says what
  the top bins are: closed under "louder than" and at least four fifths of the power. `InSomeCluster` and `OneTone` put
  each of them into one cluster, whose energy is at least each bin's own and in which no two bins are `Apart`. `BestExists` gives
  every `CHOOSE` its witness, by the least counterexample. The sum over a set of bins is that of a sequence of fixed length, so that it adds over disjoint sets
  (`TotalAdds`) and is at least each term's.

`DeviceProofs` has three.

- *The host*: `PanelIsActive`, for every canvas, gesture, turn and answer. `PanelInv` says what lies on the panel between updates: `Proper` (a stack
  of screens, a cursor on an item), `PictureKept` and `BarKept` (the bar is the one last painted, or is to be repainted, or is
  covered). One update is a composition of a dozen functions of the host; each has a lemma of what it keeps.
- *Power* (`PolicyAssumption`, `CapAssumption`): `DownIsAsIntended` and `LogIsTruthful`. `PowerInv` adds `ArmedSoFar` (which registers each place of the arming sequence has
  written) and `UnwoundSoFar`, `RunsUnarmed` (what a run without a failed transfer has taken back); the sequences are proved entry by entry. `LogInv` is `Truthful` of
  the events in memory and in flash, with `NewestIsOfThisBoot`: the event whose time is filled in late is of the boot that runs.
- *The live screen* (`LiveAssumption`): `LiveTarget`, `ToneIsAnAlert`, `PanelIsPresent`. `LiveInv` adds `TargetsAgree` (on a live view the target is the same in the store, the controller, the
  alert and the record of a pull), `CueFollows` (the sounds know the alert's level) and `OnlyReplayPaused`.

`ExtractionStreamProofs`, for any bounds, proves `OneSaveAttempt` (`EachShotPersistedOnce`, an action property) from `SaveIsDue`, which ties the place of the main task to
whether the accepted shot still waits for its save; and, with no further hypothesis, `BatchesFit` (`NoDesync`) and `RestingIsCurrent` (`RestingPageIsCurrent`).
`StreamInv` is `ControllerInv` (a record in the pump window has a begin time) and `SessionInv`: `StatusOfPast` (the copied status is not ahead of the controller, and
an unchanged display means an unchanged shot), `FinalIsAccepted`, `CopyIsSessions` (the page's copy is the session's, and a page
that dropped it will not meet that record again).
For the second `RestInv` adds
`Owed`: from the first change of a main-task step until its notification a wake-up is still to come. `PageInv` says what is true meanwhile (`CardIsShown`: a session whose display cursor
is the device's has sent the device's card, unless a failed load took it away unheard or `CardLeaves` with this pass's status; `CardIsSent`: a page told of no shot has none;
`StateIsSent`; `CopyGrows`: the session is not ahead of the record it sends, until a replay takes its begin time) and, once no wake-up waits and none is owed, that whatever the session has
copied in this pass is the device's (`CopiesCurrent`). `StoreShots` bounds the begin times, so that "the newest stored shot" exists.

Its last parts are about the recorder (`RecorderConstants`). `LifecycleKept` proves `KeepsLifecycle`: each update leaves the record and the finished shot that
`ShotLifecycle` allows, so what is proved about the controller over the abstract lifecycle holds of the recorder that runs. `RecordInv` says that an open record keeps room for the two
finalize events and holds no `END`; `UpdateMoves` brings an update to the seven ways it changes the record. `TimelineIsSound` (`TimelineSound`) assumes that two updates see each pulse
(`ShortPulses = FALSE`) and that the clock does not turn over within a record (`InOneTurn`); section 7 shows what goes wrong without either, and the run meets both.
`TimelineInv` bounds how long each phase may last (`RunTimes`, `OffTimes`), keeps the events in plain time order (`Ordered`) and pairs the pump's events until the buffer overflows
(`Pulses`, `PulseOver`: after a pump-off the last pulse is closed at `lastOff`).
`PumpTimeIsAccounted` (`PumpTimeAccounted`) assumes besides that a record lasts less than half a turn of the clock (`HalfTurn`, which the run meets; 24 days in the code), lest the end be
taken for a time before the last event. The time the pump was on is a recursive function of the events, `OnTime`. That such a function exists, which no library theorem gives
here, is shown by a witness the invariant carries: `Meter` says what the function is at every index, `Measured` that it stays at a value after the last switch of the pump, and each step of the
recorder that adds a switch gives the next witness (`MeasuredAdds`); that the two agree on every index is shown by the least one where they would not (`OnTimeMeasured`). `MeterInv` says what the
record has counted when: while the pump runs, up to the start of the interval, whose own `PUMP_ON` is already taken away; after it, all of it.

`NetworkServicesProofs` (`WifiAssumption`), for any networks, faults, events and requests, proves `RadioServiceImplemented` (`ImplementsRadio`: every step of manager, host and
servers is one of `RadioService` or leaves it alone) and `RadioMatchesDriver`. `HostInv` ties the request under way to the place of the main task; `QueueInv` says of the event queue that
what the manager claims and the driver does not is news still queued (`NewsFollows`, `MatchesAfterNews`).

`WifiScreensProofs` (`AuthAssumption`, `ScreensAssumption`), for any browsers, windows, tokens and guesses, proves `WindowLimited` (`WindowIsLimited`) and `KnownPaired`
(`KnownArePaired`). All
steps of the screens, the radio and the handlers are first brought to what they may do to a window and to the tokens (`StepMoves`); `WindowInv` says that an open
window is unused and the windows after it unseen, `StoreInv` that a token in RAM or flash, or gone, was minted, so that the next one is new, that memory is empty while flash has refused to forget (`RefusedIsEmpty`), and that otherwise flash
holds no token that is out but those it brought back (`FlashIsClean`).

What stays with TLC:

- liveness, as TLAPS has no `ENABLED` here: `Convergence`, `StopReturns`, `RecordCloses`, `ResetHappens`, `HttpStopReturns`, `ScaleIsReached`,
  `LowBatteryShutsDown`;
- what recursive definitions compute, by folding, scanning or decoding sequences of any length: `FramesRecovered`, `PageShowsLog`, `RecordReadsBack`.

Theorems without a property in `PROJECT.json` hold what no run lists any more because they hold for all constants.

## 7. Findings

Three disagreements between the code and what its comments say are kept as runs.

`stale_ip`: `_staAssociated` is cleared when an
attempt begins (`WifiManager.cpp:729` reads it) so that "a stale IP event … can't mark the new attempt connected"
(`WifiManager.h:183`); an association of the old session that is still queued sets it again, and the address
behind it is accepted.

`stale_list`: when a record fails its verification and cannot be removed (`ShotStore.cpp:146`), its file stays and `page()` lists it, but the revision is
that of before, although "Mutations advance the O(1) revision without requiring a directory scan" (`ShotStore.h:79`). A browser that had asked before is
answered 304 until the next save. `WholeAnswerIsCurrent`: no read has failed.

`ConfirmedPageIsCurrent` states the rest of that promise: while no such file was left behind in this boot, and no answer the browser took was cut by a failed read (below), a validator that would be
confirmed names the list the device would send.

`unpaired_returns`: `forgetAll()` empties the list in memory, gives up when the namespace does not open and takes no notice of the result of `prefs.clear()`
(`Auth.cpp:109`), so tokens that `pairedCount()` no longer counts are read again at the next restart; "Wipes all paired-client tokens" says `Auth.h:60`.
`KnownArePaired` states what is left: until that restart memory keeps them out, and once flash has let a token go it is out for good.

Others the modules can show, each with one definition, property or constant changed; the runs exclude them so that the rest of
each property is checked.

Extraction and history:
- `RestingCardIsCurrent`: a load that fails has taken the shot that was loaded before off the screen and wakes no session (`ExtractionController.cpp:350`), so a page at
  rest keeps its card, although the wake-up counter is "bumped whenever a web-visible aspect changes" (`ExtractionController.h:335`). The panel's
  picture of the last shot stays as well. The load may fail when the save of the same tick evicts the record that `POST /loaded` had validated. `RestingPageIsCurrent` has all
  the rest: `unheard` is true only until the session next begins to read.
- `CutAnswerIsCurrent`: `page()` answers an empty page when the directory does not open, passes over an entry whose header does not read (`ShotStore.cpp:214`), and
  `handleShotList` drops a row it cannot read (`ShotHistoryRoutes.cpp:135`), all with status 200 and the tag of the whole list. The browser keeps the tag, and "a future
  304 against it then correctly means 'what you have is current'" (`ui-history.js:76`) is untrue until the next save.
- `FinishedShotKeepsYield`: `currentYieldCg()` fails outside the pump window (`ExtractionRecorder.cpp:113`), so a finished shot shows the raw weight and no bar, where
  `ExtractionScreen.cpp:1071` says "a finished shot keeps a solid bar with no outline".
- `LatestTicketWins` of `SseServer`: a takeover that arrives while a session is being set up is erased
  (`SseServer.cpp:222`), and the older page keeps the stream.
- `AbandonedIsDropped`: a status copied between `deactivate()` and `resetInFlightAndNotify()` makes the
  page keep an abandoned extraction (`ExtractionController.cpp:536`).
- A refresh drops the older rows of the list but keeps their validator; after a restart of the
  device "Load older" can be answered 304 and append nothing (`ui-history.js:112`).
- `ShortPulses = TRUE`: entering IDLE clears the pump level that the same
  update stored (`ExtractionRecorder.cpp:141`); after a split a pump-off seen by the very next update is no edge.
- `FirstStarts = {28}`, `LatestStart = 31`, `TimelineSound`: events are trimmed by comparing plain times
  (`ExtractionRecorder.cpp:236`); a record across the `millis()` wrap loses its events.
- `SharedStamps = TRUE`, `MaxSamples = 2`, `ReadingStoredOnce`: the dedup key is cleared with the record; a
  reading that bears the time of a split is stored twice.
- `RestingPageIsCurrent` without its `retaken`: a replay can repeat a begin time, the only key by which
  a session tells records apart; a batch may then be one the page cannot append (`NoDesync` without `~retaken`), or the curve stay behind until
  the phase changes.
- `IncompleteOmitted` of `ShotStore`: a short file with a valid header stays listed when its removal fails
  (`ShotStore.cpp:146`), since pages check the header only.
- `SkipMeansCurrent` of `ShotHistoryPage`: `savedSeq` starts again at boot, so a page that outlives a
  restart can take a stale list for current (`ui-history.js:92`).

Network:
- The status screen calls `retrySta(true)` directly from its gesture (`WifiStatusScreen.cpp:87`); the event handler checks the
  mode and stores afterwards; the cache of `isConfigured` keeps its value after a failed NVS write.
- `isBluetoothConditioned` can be true while the driver is in AP mode, after `softAP()` failed (`WifiManager.h:56`).
- `HttpServer.h` says all routes pass when no guard is set; `_bindRoutes` answers 503. The comment of `registerWith` omits `/hostname`.
- A tick that restarts pairing between the consumption of a credential and the count of redemptions opens a window
  nobody shows; a pairing torn by a power cut leaves a paired client on a device that is not configured; the wizard can wait
  for its access point for ever (`WifiSetupWizard.cpp:30`). `_awaitingAp` is redundant; the terminal reset has no caller.

Scale and power:
- A disconnect callback that is late drops the next link; a weight whose callback has passed its check may be stored after
  `transition(OFF)`, which `BleScaleService.h:178` rules out. `setScanPolicy` has no caller, nor have seven setters of `PowerManager`.
- A tap is lost when `btnGetFlag` succeeds and `btnGetState` fails (`power.cpp:661`); `keepAwake` does not retry a failed CPU
  target; an `AccelFIFO::setupIMU` that fails midway leaves the IMU reconfigured, and the next `begin()` saves that as the
  configuration to restore (`imu.cpp:259`); `imu.cpp:407` speaks of a FIFO that stops when full, `:293` writes 0.

Screens and logs:
- `ClearedStaysCleared`: `tick()` looks at the flag once (`HeapMonitor.cpp:99`); a clear from the web between that look and the push leaves one row with samples
  of before it, although `HeapMonitor.h:98` says "so no pre-clear sample can resurface when that bucket later closes". `OldRowsOnlyFromTickInProgress` states that
  nothing more is left.
- The hints of the tour lag one update behind a rotation (`UiHost.cpp:217`); a visit to the target editor with a
  target that is unset or no multiple of 0.5 g changes the stored target (`SetTargetScreen.cpp:24`); the crash page of LOGS is not redrawn after a
  clear from the web (`LogsScreen.cpp:192`); without a canvas an erase never begins; the tour's `setComplete` ignores a failed write.

## 8. Not modelled

Floating-point signal processing (FFT, filters, flow classification, yield prediction: their outcomes are free choices
among what the thresholds tell apart), drawing and wording, the answers' text and the parsing of arguments, the page's
rendering, and the libraries (NimBLE, the Wi-Fi driver, LittleFS, NVS, the chips on the bus), which appear only as the answers
they may give. The speaker codec is two latches behind one deadline on one task, which a unit test reaches; the shot counter's
NVS write only delays a count; fonts and build scripts are not part of the running program. Functions that nothing calls
(`erase(id)`, `setScanPolicy`, `Replace` of the host, the unused setters above) are left out.
