---------------------------- MODULE WifiScreens ----------------------------
(***************************************************************************)
(* The Wi-Fi screens: the status screen, the set-up wizard it opens, and    *)
(* the pairing they show to browsers, on top of the radio's service.  The   *)
(* main loop alternates the network pass (the radio, then the pairing       *)
(* window's expiry) with one pass of the active screen: an event, and a     *)
(* tick unless the event led to another screen.  The server task's requests *)
(* run in between; the servers are up while the radio is reachable, and the *)
(* radio waits for the request in hand.                                     *)
(*                                                                         *)
(* Guide cards, details and the drawing of a step change nothing here.      *)
(***************************************************************************)
EXTENDS RadioService, Auth

CONSTANT MaxFuel  \* bound on gestures, requests, link changes and restarts

ASSUME ScreensAssumption == MaxFuel \in Nat

VARIABLES
  pc,         \* the main loop
  screen,     \* the active screen
  overlay,    \* the status screen's _overlay
  wifiOn,     \* its menu offers "Wi-Fi on"
  step,       \* the wizard's _step
  awaitingAp, \* _awaitingAp
  baseline,   \* _pairBaseline
  restore,    \* _restore
  outcome,    \* _outcome, until the status screen takes it
  attempted,  \* ghost: a station attempt began since the wizard was entered
  torn,       \* ghost: power was lost in a reset or a first pairing
  fuel

uiVars == <<screen, overlay, wifiOn, step, awaitingAp, baseline, restore, outcome>>
vars   == <<radioVars, authVars, pc, uiVars, attempted, torn, fuel>>

TypeOK ==
  /\ RadioTypeOK /\ AuthTypeOK
  /\ pc \in {"boot", "take", "late", "ui", "tick", "count"}
  /\ screen \in {"other", "status", "wizard"}
  /\ overlay \in {"none", "menu", "unpair"} /\ wifiOn \in BOOLEAN
  /\ step \in {"joinQr", "openQr", "inBrowser", "connecting", "success", "failed"}
  /\ awaitingAp \in BOOLEAN /\ baseline \in Nat
  /\ restore \in {"retry", "keepAp", "off"}
  /\ outcome \in {"none", "completed", "cancelled"}

UiInit ==
  /\ screen = "other" /\ overlay = "none" /\ wifiOn = FALSE
  /\ step = "joinQr" /\ awaitingAp = FALSE /\ baseline = 0
  /\ restore = "off" /\ outcome = "none"

Init ==
  /\ RadioInit /\ AuthInit /\ UiInit
  /\ pc = "boot" /\ attempted = FALSE /\ torn = FALSE /\ fuel = MaxFuel

Burn == fuel > 0 /\ fuel' = fuel - 1
Reachable == radio \in {"connected", "up"}
NoRequestRuns == request.step = "none"

-----------------------------------------------------------------------------
(* The network pass *)

Boot ==
  /\ pc = "boot" /\ pc' = "take"
  /\ \/ BootRadio
     \/ UNCHANGED radioVars   \* not configured, or left off
  /\ UNCHANGED <<authVars, uiVars, attempted, torn, fuel>>

\* Nothing pending goes on; a request waits for the server task to end.
RadioPass ==
  /\ pc = "take"
  /\ \/ slot = Idle /\ doing = Idle /\ pc' = "late" /\ UNCHANGED <<radioVars, attempted, storeVars>>
     \/ /\ TakeRadio /\ pc' = IF doing' = Idle THEN "late" ELSE "take"
        /\ UNCHANGED <<attempted, storeVars>>
     \/ /\ NoRequestRuns /\ CarryOut /\ pc' = "late"
        /\ attempted' = (attempted \/ radio' = "connecting")
        /\ IF doing = "reset" THEN \E ok \in BOOLEAN : ForgetAll(ok)   \* _onReset
           ELSE UNCHANGED storeVars
  /\ UNCHANGED <<window, redeems, cookies, minted, request, admitted, wrong, uiVars, torn, fuel>>

\* The connect timeout, and Auth::update().
LatePass ==
  /\ pc = "late" /\ pc' = "ui"
  /\ \/ NoRequestRuns /\ FallBack
     \/ UNCHANGED radioVars
  /\ ExpirePairing
  /\ UNCHANGED <<storeVars, redeems, cookies, minted, request, admitted, wrong, uiVars,
                 attempted, torn, fuel>>

-----------------------------------------------------------------------------
(* Moves from screen to screen *)

\* WifiSetupWizard::onEnter
WizardEntered ==
  /\ screen' = "wizard" /\ outcome' = "none" /\ step' = "joinQr"
  /\ restore' = CASE radio \in {"connected", "connecting"} -> "retry"
                  [] radio = "up" -> "keepAp"
                  [] OTHER -> "off"
  /\ awaitingAp' = (radio # "up")
  /\ IF radio # "up" THEN PostRadio("startAp") ELSE UNCHANGED radioVars
  /\ attempted' = FALSE
  /\ UNCHANGED <<overlay, wifiOn, baseline>>

\* WifiStatusScreen::onEnter reads the number of clients.
StatusEntered ==
  /\ screen' = "status" /\ overlay' = "none"
  /\ UNCHANGED <<wifiOn, step, awaitingAp, baseline, restore>>

\* onExit of either screen.
Leave == CancelPairing

PushWizard ==
  /\ Leave /\ WizardEntered
  /\ UNCHANGED storeVars

LeaveStatus ==
  /\ Leave /\ screen' = "other"
  /\ UNCHANGED <<overlay, wifiOn, step, awaitingAp, baseline, restore, outcome, attempted,
                 radioVars, storeVars>>

\* The wizard ends; the status screen below it is entered again.
FinishWizard(how) ==
  /\ Leave /\ StatusEntered /\ outcome' = how
  /\ \E ok \in BOOLEAN : ReadTokens(ok)
  /\ UNCHANGED attempted

\* _cancel puts the radio back to what the wizard found.
CancelWizard ==
  /\ FinishWizard("cancelled")
  /\ CASE restore = "retry" -> PostRadio("retry")
       [] restore = "off"   -> PostRadio("stop")
       [] OTHER             -> UNCHANGED radioVars

OpenStatus ==
  /\ screen = "other"
  /\ StatusEntered /\ \E ok \in BOOLEAN : ReadTokens(ok)
  /\ UNCHANGED <<window, radioVars, outcome, attempted>>

-----------------------------------------------------------------------------
(* Gestures on the status screen *)

Stays == UNCHANGED <<screen, step, awaitingAp, baseline, restore, outcome, attempted>>

\* VISIT opens a pairing window; the back button of it closes it.
Visit ==
  /\ overlay = "none"
  /\ \/ ~window.active /\ Reachable /\ StartPairing
     \/ window.active /\ CancelPairing
  /\ Stays /\ UNCHANGED <<overlay, wifiOn, radioVars, storeVars>>

OpenMenu ==
  /\ overlay = "none" /\ ~window.active /\ radio # "connecting"
  /\ overlay' = "menu" /\ wifiOn' = (radio = "off")
  /\ Stays /\ UNCHANGED <<window, radioVars, storeVars>>

CloseOverlay ==
  /\ overlay # "none" /\ overlay' = "none"
  /\ Stays /\ UNCHANGED <<wifiOn, window, radioVars, storeVars>>

\* _configConfirmed
SwitchWifi ==
  /\ overlay = "menu" /\ overlay' = "none"
  /\ \/ wifiOn /\ RetryDirectly
     \/ ~wifiOn /\ PostRadio("stop")
  /\ Stays /\ UNCHANGED <<wifiOn, window, storeVars>>
ChooseNetwork ==
  /\ overlay = "menu"
  /\ Leave /\ WizardEntered /\ UNCHANGED storeVars
ChooseUnpair ==
  /\ overlay = "menu" /\ overlay' = "unpair"
  /\ Stays /\ UNCHANGED <<wifiOn, window, radioVars, storeVars>>
Unpair ==
  /\ overlay = "unpair" /\ overlay' = "none"
  /\ \E ok \in BOOLEAN : ForgetAll(ok)
  /\ Stays /\ UNCHANGED <<wifiOn, window, radioVars>>

-----------------------------------------------------------------------------
(* The wizard *)

\* _setStep
SetStep(s) ==
  /\ step' = s
  /\ IF s = "openQr" THEN baseline' = redeems /\ StartPairing
     ELSE UNCHANGED <<baseline, window>>

\* Gestures: back is a cancellation until the credentials are in, and a way
\* out afterwards; a failed attempt can be tried again.
WizardGesture ==
  \/ step \in {"joinQr", "openQr", "inBrowser"} /\ CancelWizard /\ pc' = "take"
  \/ /\ step \in {"connecting", "success", "failed"}
     /\ FinishWizard(IF step = "success" THEN "completed" ELSE "cancelled")
     /\ UNCHANGED radioVars /\ pc' = "take"
  \/ /\ step = "failed" /\ SetStep("joinQr") /\ pc' = "tick"
     /\ UNCHANGED <<screen, overlay, wifiOn, awaitingAp, restore, outcome, attempted, radioVars,
                    storeVars>>

\* What a tick makes of the step by the radio, which is followed from any step.
StepAfterTick ==
  CASE awaitingAp /\ radio # "up" -> step
    [] step \notin {"connecting", "success"} /\ radio = "connecting" -> "connecting"
    [] step \notin {"connecting", "success"} /\ radio = "connected"  -> "success"
    [] step = "connecting" /\ radio = "connected" -> "success"
    [] step = "connecting" /\ radio = "up" /\ fallback -> "failed"
    [] OTHER -> step

\* On the way: a code that is gone and was not redeemed is replaced, then the
\* redemptions are counted, a step later.
WindowMissing  == step = "openQr" /\ ~window.active /\ redeems = baseline

WizardTick ==
  /\ awaitingAp' = (awaitingAp /\ radio # "up")
  /\ \/ /\ step = "openQr" /\ ~awaitingAp' /\ radio \notin {"connecting", "connected"}
        /\ IF WindowMissing THEN StartPairing ELSE UNCHANGED window
        /\ pc' = "count" /\ UNCHANGED <<step, baseline>>
     \/ /\ step = "joinQr" /\ ~awaitingAp' /\ radio \notin {"connecting", "connected"}
        /\ SetStep("openQr")   \* a station has joined
        /\ pc' = "take"
     \/ /\ step # "openQr" \/ radio \in {"connecting", "connected"} \/ awaitingAp'
        /\ step' = StepAfterTick /\ UNCHANGED <<baseline, window>>
        /\ pc' = "take"
  /\ UNCHANGED <<screen, overlay, wifiOn, restore, outcome, attempted, radioVars, storeVars>>

CountRedemptions ==
  /\ pc = "count" /\ pc' = "take"
  /\ step' = IF redeems > baseline THEN "inBrowser" ELSE step
  /\ UNCHANGED <<radioVars, authVars, screen, overlay, wifiOn, awaitingAp, baseline, restore,
                 outcome, attempted, torn, fuel>>

-----------------------------------------------------------------------------
(* The screen pass *)

Gesture ==
  /\ pc = "ui" /\ Burn
  /\ \/ OpenStatus /\ pc' = "take"
     \/ /\ screen = "status"
        /\ \/ (Visit \/ OpenMenu \/ CloseOverlay \/ SwitchWifi \/ ChooseUnpair \/ Unpair)
              /\ pc' = "tick"
           \/ (LeaveStatus \/ ChooseNetwork) /\ pc' = "take"
     \/ screen = "wizard" /\ WizardGesture
  /\ UNCHANGED <<redeems, cookies, minted, request, admitted, wrong, torn>>

NoGesture ==
  /\ pc = "ui" /\ pc' = "tick"
  /\ UNCHANGED <<radioVars, authVars, uiVars, attempted, torn, fuel>>

\* The status screen sends a device that is not set up to the wizard, unless
\* the user has just cancelled it, and counts the clients.
StatusTick ==
  IF configured
  THEN /\ outcome' = "none"
       /\ IF Reachable /\ overlay = "none" /\ ~window.active THEN \E ok \in BOOLEAN : ReadTokens(ok)
          ELSE UNCHANGED storeVars
       /\ UNCHANGED <<screen, overlay, wifiOn, step, awaitingAp, baseline, restore, attempted,
                      radioVars, window>>
  ELSE IF outcome = "cancelled"
  THEN /\ Leave /\ screen' = "other" /\ outcome' = "none"
       /\ UNCHANGED <<overlay, wifiOn, step, awaitingAp, baseline, restore, attempted,
                      radioVars, storeVars>>
  ELSE PushWizard

Tick ==
  /\ pc = "tick"
  /\ \/ screen = "other" /\ pc' = "take"
        /\ UNCHANGED <<radioVars, window, storeVars, uiVars, attempted>>
     \/ screen = "status" /\ StatusTick /\ pc' = "take"
     \/ screen = "wizard" /\ WizardTick
  /\ UNCHANGED <<redeems, cookies, minted, request, admitted, wrong, torn, fuel>>

-----------------------------------------------------------------------------
(* The server task, the driver, power *)

Request ==
  /\ Reachable /\ Burn /\ BeginRequest
  /\ UNCHANGED <<radioVars, pc, uiVars, attempted, torn>>

HandlerPosts ==
  /\ request.step = "post" /\ request' = NoRequest
  /\ PostRadio(IF request.kind = "join" THEN "connect" ELSE "reset")
  /\ UNCHANGED <<window, storeVars, redeems, cookies, minted, admitted, wrong>>

\* _onFirstPair marks the device configured, if flash lets it.
FirstPair ==
  /\ request.step = "first" /\ request' = NoRequest
  /\ \E ok \in BOOLEAN : Works(ok) /\ IF ok THEN MarkRadioConfigured ELSE UNCHANGED radioVars
  /\ UNCHANGED <<window, tokens, flash, gone, refused, back, redeems, cookies, minted, admitted, wrong>>

Handler ==
  /\ \/ (CheckToken \/ ConsumePairing \/ MintToken \/ CountArrival) /\ UNCHANGED radioVars
     \/ HandlerPosts \/ FirstPair
  /\ UNCHANGED <<pc, uiVars, attempted, torn, fuel>>

LinkReport ==
  /\ Burn /\ Report
  /\ UNCHANGED <<authVars, pc, uiVars, attempted, torn>>

TimePasses ==
  /\ WindowAges
  /\ UNCHANGED <<radioVars, storeVars, redeems, cookies, minted, request, admitted, wrong, pc,
                 uiVars, attempted, torn, fuel>>

\* In the middle of a reset the settings may be gone and the tokens not yet.
Restart ==
  /\ pc # "boot" /\ Burn
  /\ PowerCycle /\ (doing # "reset" => UNCHANGED <<configured, creds>>)
  /\ torn' = (torn \/ configured' # configured \/ request.first)
  /\ AuthPowerUp
  /\ pc' = "boot" /\ screen' = "other" /\ overlay' = "none" /\ wifiOn' = FALSE
  /\ step' = "joinQr" /\ awaitingAp' = FALSE /\ baseline' = 0
  /\ restore' = "off" /\ outcome' = "none" /\ attempted' = FALSE
  /\ UNCHANGED <<flash, gone, authFails, cookies, minted, admitted, wrong>>

MainLoop == Boot \/ RadioPass \/ LatePass \/ Tick \/ NoGesture \/ CountRedemptions

Next ==
  \/ MainLoop \/ Gesture
  \/ Request \/ Handler
  \/ LinkReport \/ TimePasses \/ Restart

\* The loop and the server task are scheduled; users and the link do as they like.
Spec == Init /\ [][Next]_vars /\ WF_vars(MainLoop) /\ WF_vars(Handler)

-----------------------------------------------------------------------------
\* Whatever two browsers and the screens do at once, a window lets in one client.
OneClientPerWindow == \A n \in DOMAIN admitted : admitted[n] <= 1

\* Of all clients and of both kinds of code, a window takes kMaxPinAttempts
\* wrong guesses and no more.
GuessesBounded == \A n \in DOMAIN wrong : wrong[n] <= MaxAttempts

\* What a window gives away: one client and kMaxPinAttempts guesses, whoever
\* asks, by whichever code, while it expires or is opened anew (_consumePairing).
WindowIsLimited == OneClientPerWindow /\ GuessesBounded

\* "so RAM and NVS never diverge" (_appendToken): once loaded, RAM holds the tokens
\* that flash holds, also when a later write fails; a forgetAll that flash refused is
\* the exception until the next write or restart.
TokensAgree == tokens.loaded /\ ~refused => tokens.list = flash

\* "Wipes all paired-client tokens" (forgetAll): a client that was unpaired or
\* evicted is not known again, by a restart, a failed access or a later pairing.
RevokedStayOut == ToSet(Known) \cap gone = {}

\* The same, but for tokens that flash refused to forget and a restart has read
\* again: until the restart RAM keeps those out too, and once forgotten or
\* overwritten in flash they are out for good.
RevokedReturnByRestartOnly == ToSet(Known) \cap gone \subseteq back

\* Who is let in: memory and flash agree on it, and nobody who was sent away
\* comes back, but for what flash refused to forget (_appendToken, forgetAll,
\* _ensureTokensLoaded).
KnownArePaired == TokensAgree /\ RevokedReturnByRestartOnly

\* A device that has a client comes up with the radio on: the first pairing
\* marked it, and a reset takes both or neither (unless power failed in either).
PairedIsConfigured ==
  flash # <<>> /\ NoRequestRuns /\ authFails = 0 /\ ~torn => configured

\* Codes can be redeemed only while a screen that shows them is up.
WindowHasScreen == window.active => screen # "other"

\* What the wizard takes for progress is an attempt made since it was opened,
\* not the connection it is about to replace.
OldLinkIsNoProgress ==
  screen = "wizard" /\ step \in {"connecting", "success", "failed"} => attempted

\* While the wizard asks to open the set-up page there is a code to open it
\* with, also after one expired, was guessed at or was redeemed in vain.
CodeToScan ==
  (screen = "wizard" /\ step = "openQr") ~>
    (window.active \/ screen # "wizard" \/ step # "openQr" \/ window.n = MaxWindows)

\* The access point the wizard asked for comes up, or the wizard is left.
WizardGetsItsAp == awaitingAp /\ screen = "wizard" ~> (~awaitingAp \/ screen # "wizard")
=============================================================================
