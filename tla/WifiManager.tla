---------------------------- MODULE WifiManager ----------------------------
(***************************************************************************)
(* WifiManager: one slot of pending radio requests, filled by any task and  *)
(* emptied by the main task; the radio transitions the main task makes; the *)
(* handler of the Wi-Fi events, which runs on a task of its own and learns  *)
(* of a change of the radio when the event queue gets to it; the settings   *)
(* in flash (NVS), any write of which can fail; the fallback to the access  *)
(* point and the conditioning of the Bluetooth radio.                       *)
(*                                                                         *)
(* Abstracted: the clock, to "the 15 s of the connect attempt are over";    *)
(* the driver (external), to what it is switched to, its link and the       *)
(* events it queues; names and addresses; power saving of the station and   *)
(* the count of the access point's stations are left out.                   *)
(***************************************************************************)
EXTENDS Naturals, Sequences, Faults

CONSTANTS
  Ssids, Passes,   \* network names and passphrases a user may enter
  MaxEvents,       \* bound on the events queued
  MaxFuel,         \* bound on requests, link changes, restarts
  MaxGeneration    \* bound on the starts of the Bluetooth controller

ASSUME WifiAssumption ==
  /\ MaxEvents \in Nat /\ MaxFuel \in Nat /\ MaxGeneration \in Nat
  /\ "none" \notin Ssids   \* no network is named like the absence of one

VARIABLES
  mode, state,     \* _mode, _state
  fallbackAp,      \* _apIsFallback
  suppressed,      \* _staFallbackTimeoutSuppressed
  associated,      \* _staAssociated
  why,             \* _lastDisconnectReason
  timer,           \* age of _staConnectingStartedMs
  pending,         \* _pending
  staSsid,         \* _staSsid
  confCache,       \* _configuredCached
  nvs,             \* the namespace "wifi"
  bt,              \* _bluetoothConditioning
  driver,          \* external: the driver's mode and its station's link
  events,          \* external: the queue of the event task
  gotIp,           \* ghost: this attempt got an address of its own
  fuel

linkVars == <<suppressed, associated, why, timer, gotIp>>
sessVars == <<mode, state, fallbackAp, staSsid>>
wifiVars == <<sessVars, linkVars, pending, confCache, nvs, bt, driver,
              events, fuel>>

None   == "none"
Creds  == [ssid: Ssids, pass: Passes]
NoCred == [ssid |-> None, pass |-> None]
Mode   == {"off", "sta", "ap"}
State  == {"off", "connecting", "connected", "up"}
Reason == {None, "generic", "noAp", "credential"}
Action == {None, "connect", "reset", "startAp", "stop", "retry"}
Event  == {"assoc", "gotIp", "down", "apStart", "apStop"}

\* A request, as the members of PendingRequest default.
Req(a) == [action |-> a, persist |-> FALSE, terminal |-> FALSE, cred |-> NoCred]
Asking(actions, persists, creds) ==
  [action: actions, persist: persists, terminal: {FALSE}, cred: creds]
Requests == Asking({"connect"}, {FALSE}, Creds)
            \cup Asking({"stop", "retry"}, BOOLEAN, {NoCred})
            \cup Asking({"reset", "startAp"}, {FALSE}, {NoCred})   \* no caller posts a terminal reset

WifiTypeOK ==
  /\ mode \in Mode /\ state \in State /\ fallbackAp \in BOOLEAN
  /\ suppressed \in BOOLEAN /\ associated \in BOOLEAN /\ why \in Reason
  /\ timer \in {"fresh", "running", "expired"}
  /\ pending \in [action: Action, persist: BOOLEAN, terminal: BOOLEAN, cred: Creds \cup {NoCred}]
  /\ staSsid \in Ssids \cup {None}
  /\ confCache \in {"unknown", "no", "yes"}
  /\ nvs \in [configured: BOOLEAN, mode: Mode, ssid: Ssids \cup {None}, pass: Passes \cup {None}]
  /\ bt \in [requested: 0..MaxGeneration, completed: 0..MaxGeneration, attempted: 0..MaxGeneration]
  /\ driver \in [on: Mode, link: {"down", "assoc", "ip"}]
  /\ events \in Seq([ev: Event, why: Reason, stale: BOOLEAN])
  /\ gotIp \in BOOLEAN

\* An event in the queue; an event is stale when a newer attempt has begun.
Ev(e, r) == [ev |-> e, why |-> r, stale |-> FALSE]

EmptyNvs == [configured |-> FALSE, mode |-> "off", ssid |-> None, pass |-> None]

\* Flash is as it was bought, or holds the network a user has set up.
WifiInit ==
  /\ mode = "off" /\ state = "off" /\ fallbackAp = FALSE /\ suppressed = FALSE
  /\ associated = FALSE /\ why = None /\ timer = "fresh"
  /\ pending = Req(None) /\ staSsid = None /\ confCache = "unknown"
  /\ bt = [requested |-> 0, completed |-> 0, attempted |-> 0]
  /\ driver = [on |-> "off", link |-> "down"] /\ events = <<>>
  /\ gotIp = FALSE
  /\ nvs \in {EmptyNvs} \cup {[configured |-> TRUE, mode |-> "sta", ssid |-> c.ssid, pass |-> c.pass]
                             : c \in Creds}
  /\ fuel = MaxFuel

\* A restart sets the RAM as the declarations do; flash outlives it.
PowerUp ==
  /\ mode' = "off" /\ state' = "off" /\ fallbackAp' = FALSE /\ suppressed' = FALSE
  /\ associated' = FALSE /\ why' = None /\ timer' = "fresh"
  /\ pending' = Req(None) /\ staSsid' = None /\ confCache' = "unknown"
  /\ bt' = [requested |-> 0, completed |-> 0, attempted |-> 0]
  /\ driver' = [on |-> "off", link |-> "down"] /\ events' = <<>>
  /\ gotIp' = FALSE

Burn == fuel > 0 /\ fuel' = fuel - 1

-----------------------------------------------------------------------------
(* Requests: any task, under _pendingMutex *)

\* A reset yields to another reset only; a terminal one to nothing.
X_NoLatch(r) == pending.terminal
Locked(r) == pending.terminal \/ (pending.action = "reset" /\ r.action # "reset")

\* _post
Post(r) == pending' = IF Locked(r) THEN pending ELSE r

\* The request that _processPending takes: the slot is emptied, but for the latch.
TakeSlot == pending' = [Req(None) EXCEPT !.terminal = pending.terminal]

\* The credentials asked for are those of the live session, by what flash says.
StaSessionMatches(c, readable) ==
  /\ state = "connected" /\ mode = "sta" /\ c.ssid = staSsid
  /\ readable /\ nvs.ssid = c.ssid /\ nvs.pass = c.pass

-----------------------------------------------------------------------------
(* The driver's reaction to a change of mode, external *)

\* What was queued before a new attempt is no news of it.
Stale(q) == [i \in DOMAIN q |-> [q[i] EXCEPT !.stale = TRUE]]
\* Leaving the station with a link up, and the access point, are events.
Leaving == (IF driver.on = "sta" /\ driver.link # "down" THEN <<Ev("down", "generic")>> ELSE <<>>)
           \o (IF driver.on = "ap" THEN <<Ev("apStop", None)>> ELSE <<>>)

SwitchTo(on) ==
  /\ driver' = [on |-> on, link |-> "down"]
  /\ events' = Stale(events \o (IF on = driver.on /\ on = "ap" THEN <<>> ELSE Leaving))
               \o (IF on = "ap" /\ driver.on # "ap" THEN <<Ev("apStart", None)>> ELSE <<>>)

-----------------------------------------------------------------------------
(* Transitions the main task makes *)

\* markConfigured: the cache follows a write that worked.
MarkConfigured(n, ok) == [n EXCEPT !.configured = @ \/ ok]
MarkedCache(ok)       == IF ok THEN "yes" ELSE confCache

\* The settings after writing the credentials, the flag and the mode.
SavedNvs(c, okS, okP, okC, okM) ==
  [MarkConfigured(nvs, okC) EXCEPT !.ssid = IF okS THEN c.ssid ELSE @,
                                   !.pass = IF okP THEN c.pass ELSE @,
                                   !.mode = IF okM THEN "sta" ELSE @]

\* startSta with the writes of _saveStaCreds, markConfigured and _persistMode,
\* each of which may fail on its own.
StartSta(c, persist) ==
  /\ \E okS, okP, okC, okM \in BOOLEAN :
       /\ Ok(okS) /\ Ok(okP) /\ Ok(okC) /\ Ok(okM) /\ Count({okS, okP, okC, okM})
       /\ (~persist => okS /\ okP /\ okC /\ okM)
       /\ nvs' = IF persist THEN SavedNvs(c, okS, okP, okC, okM) ELSE nvs
       /\ confCache' = IF persist THEN MarkedCache(okC) ELSE confCache
  /\ SwitchTo("sta")
  /\ staSsid' = c.ssid /\ mode' = "sta" /\ state' = "connecting" /\ fallbackAp' = FALSE
  /\ associated' = FALSE /\ suppressed' = FALSE /\ why' = None /\ timer' = "fresh"
  /\ gotIp' = FALSE
  /\ UNCHANGED bt

\* startAp, after a read of flash that worked or did not. The fallback of
\* update() sets the flag after it has come up.
StartApAfter(read, persist, isFallback) ==
  /\ \E okM, okAp \in BOOLEAN :
       /\ Ok(okM) /\ Ok(okAp) /\ Count({read, okM, okAp}) /\ (~persist => okM)
       /\ nvs' = IF persist /\ okM THEN [nvs EXCEPT !.mode = "ap"] ELSE nvs
       /\ mode'  = IF okAp THEN "ap" ELSE "off"
       /\ state' = IF okAp THEN "up" ELSE "off"
       /\ fallbackAp' = (okAp /\ isFallback)
  /\ SwitchTo("ap")
  /\ UNCHANGED <<linkVars, staSsid, bt>>
StartAp(persist, isFallback) == StartApAfter(TRUE, persist, isFallback)

\* What stop() makes of the conditioning: a driver that did not stop voids it,
\* one that did gives a failed generation another attempt.
AfterStop(stopped) ==
  IF ~stopped THEN [bt EXCEPT !.completed = 0, !.attempted = bt.requested]
  ELSE IF bt.requested # 0 /\ bt.completed # bt.requested /\ bt.attempted = bt.requested
       THEN [bt EXCEPT !.attempted = 0] ELSE bt

\* What is left of the driver after an attempt to switch it off.
SwitchOff(stopped) ==
  /\ driver.on = "off" => stopped
  /\ SwitchTo(IF stopped THEN "off" ELSE driver.on)

\* stop, which publishes Off whether or not the driver obeyed
Stop(persist) ==
  /\ \E okM, stopped \in BOOLEAN :
       /\ Ok(okM) /\ Ok(stopped) /\ Count({okM, stopped}) /\ (~persist => okM)
       /\ nvs' = IF persist /\ okM THEN [nvs EXCEPT !.mode = "off"] ELSE nvs
       /\ bt' = AfterStop(stopped) /\ SwitchOff(stopped)
  /\ mode' = "off" /\ state' = "off" /\ fallbackAp' = FALSE
  /\ UNCHANGED <<linkVars, staSsid, confCache>>

\* resetAllConfig: a stop, then the namespace and everything cached from it.
ResetAllConfig ==
  /\ \E okC, stopped \in BOOLEAN :
       /\ Ok(okC) /\ Ok(stopped) /\ Count({okC, stopped})
       /\ nvs' = IF okC THEN EmptyNvs ELSE nvs
       /\ bt' = AfterStop(stopped) /\ SwitchOff(stopped)
  /\ mode' = "off" /\ state' = "off" /\ fallbackAp' = FALSE
  /\ confCache' = "unknown" /\ staSsid' = None /\ suppressed' = FALSE
  /\ UNCHANGED <<associated, why, timer, gotIp>>

NothingStarts == UNCHANGED <<sessVars, linkVars, nvs, bt, driver, events>>

\* retrySta, with the credentials flash holds
RetrySta(persist) ==
  \/ nvs.ssid # None /\ StartSta([ssid |-> nvs.ssid, pass |-> nvs.pass], persist)
  \/ Fails /\ NothingStarts /\ UNCHANGED confCache
  \/ nvs.ssid = None /\ NothingStarts /\ UNCHANGED <<confCache, faults>>

\* isConfigured, in one step: what it answers and the cache it leaves.
IsConfigured      == IF confCache = "unknown" THEN nvs.configured ELSE confCache = "yes"
ConfiguredCached  == IF nvs.configured THEN "yes" ELSE "no"
FilledCache       == IF confCache = "unknown" THEN ConfiguredCached ELSE confCache

\* beginIfPersisted, at boot. Of the flag and the mode an unreadable one counts
\* as not set, and the cache stays empty with the flag; unreadable credentials
\* count as none, and startAp() persists the mode it starts.
BeginIfPersisted ==
  \/ /\ ~nvs.configured \/ nvs.mode = "off"
     /\ confCache' = ConfiguredCached /\ NothingStarts /\ UNCHANGED faults
  \/ Fails /\ confCache' \in {confCache, ConfiguredCached} /\ NothingStarts
  \/ /\ nvs.configured /\ nvs.mode # "off" /\ confCache' = "yes"
     /\ \/ /\ nvs.mode = "sta" /\ nvs.ssid # None
           /\ SwitchTo("sta")
           /\ staSsid' = nvs.ssid /\ mode' = "sta" /\ state' = "connecting" /\ timer' = "fresh"
           /\ UNCHANGED <<fallbackAp, suppressed, associated, why, gotIp, nvs, bt, faults>>
        \/ LET read == nvs.mode # "sta" \/ nvs.ssid = None
           IN Ok(read) /\ StartApAfter(read, TRUE, FALSE)

\* _attemptBluetoothConditioning: one attempt per controller start, with the
\* radio off; it counts only when the driver started and is gone again. A
\* driver found running is left alone; one that does not stop stays a station.
ConditionBluetooth ==
  IF state # "off" \/ bt.requested = 0 \/ bt.requested = bt.attempted
  THEN UNCHANGED <<bt, driver, faults>>
  ELSE \E ok \in BOOLEAN :
         /\ Ok(ok) /\ Count({ok})
         /\ driver' \in {driver} \cup (IF ~ok /\ driver.on = "off" THEN {[driver EXCEPT !.on = "sta"]} ELSE {})
         /\ bt' = [bt EXCEPT !.attempted = bt.requested,
                             !.completed = IF ok /\ driver.on = "off" THEN bt.requested ELSE @]

IsBluetoothConditioned == mode = "off" /\ bt.requested # 0 /\ bt.completed = bt.requested

\* The timeout part of update(): the attempt has had its 15 s.
TimedOut == state = "connecting" /\ ~suppressed /\ timer = "expired"

-----------------------------------------------------------------------------
(* The event task *)

\* A first reason stands, unless an actionable one comes.
KeptReason(r) == IF why = None \/ r \in {"credential", "noAp"} THEN r ELSE why

\* _onWifiEvent. The event task outranks the main task, which does not run
\* between the check of the mode and the stores.
X_AnyGotIp(e) ==
  /\ suppressed' = TRUE /\ state' = "connected" /\ why' = None
  /\ gotIp' = (gotIp \/ ~e.stale)
  /\ UNCHANGED <<associated, timer>>
GotIp(e) ==
  IF mode = "sta" /\ associated
  THEN /\ suppressed' = TRUE /\ state' = "connected" /\ why' = None
       /\ gotIp' = (gotIp \/ ~e.stale)
       /\ UNCHANGED <<associated, timer>>
  ELSE UNCHANGED <<linkVars, state>>

X_AnyDown(e) ==
  /\ associated' = FALSE /\ why' = KeptReason(e.why) /\ state' = "connecting"
  /\ UNCHANGED <<suppressed, timer, gotIp>>
\* A credential failure after an address re-arms the connect timeout; a drop
\* that does not look like one is left to the driver's reconnection.
Disconnected(e) ==
  /\ associated' = FALSE
  /\ IF mode # "sta" THEN UNCHANGED <<suppressed, why, timer, gotIp, state>>
     ELSE LET rearm == e.why = "credential" /\ suppressed
          IN /\ why' = KeptReason(e.why) /\ state' = "connecting"
             /\ suppressed' = (suppressed /\ ~rearm)
             /\ timer' = IF rearm THEN "fresh" ELSE timer
             /\ UNCHANGED gotIp

HandleEvent ==
  /\ events # <<>> /\ events' = Tail(events)
  /\ LET e == Head(events)
     IN CASE e.ev = "gotIp" -> GotIp(e)
          [] e.ev = "down"  -> Disconnected(e)
          [] e.ev = "assoc" -> /\ associated' = (mode = "sta")
                               /\ UNCHANGED <<suppressed, why, timer, gotIp, state>>
          [] OTHER -> /\ state' = IF mode # "ap" THEN state
                                  ELSE IF e.ev = "apStart" THEN "up" ELSE "off"
                      /\ UNCHANGED linkVars
  /\ UNCHANGED <<mode, fallbackAp, staSsid, pending, confCache, nvs, bt, driver, faults, fuel>>

-----------------------------------------------------------------------------
(* The driver, external *)

\* The station associates, gets or renews its address, is dropped or fails to
\* join.
LinkChanges ==
  /\ Len(events) < MaxEvents /\ Burn
  /\ \E e \in {"assoc", "gotIp", "down"}, r \in Reason :
       /\ driver.on = "sta"
       /\ r = None <=> e # "down"
       /\ \/ e = "assoc" /\ driver.link = "down"
          \/ e = "gotIp" /\ driver.link # "down"
          \/ e = "down"
       /\ driver' = [driver EXCEPT !.link = IF e = "gotIp" THEN "ip" ELSE e]
       /\ events' = Append(events, Ev(e, r))
  /\ UNCHANGED <<sessVars, linkVars, pending, confCache, nvs, bt,
                 faults>>

\* BleScaleService announces a controller start (scheduleBluetoothConditioning).
ControllerStarts ==
  /\ bt.requested < MaxGeneration /\ Burn
  /\ bt' = [bt EXCEPT !.requested = @ + 1]
  /\ UNCHANGED <<sessVars, linkVars, pending, confCache, nvs, driver, events, faults>>
=============================================================================
