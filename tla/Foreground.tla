----------------------------- MODULE Foreground -----------------------------
(***************************************************************************)
(* The foreground of the device: UiHost's stack of screens, the status bar *)
(* (Chrome), the drawing of what changed, MainNavigation's choice of the   *)
(* first and the next screen, and the screens whose own control matters    *)
(* here: the menus, the guided tour (OnboardingScreen), the target editor, *)
(* and the two that erase storage.  UiHost::update runs on the main task   *)
(* only, so one update is one step; the live view is reduced to its cycle  *)
(* of views, and the leaves of the menus that other modules describe are   *)
(* left out of the menus.                                                  *)
(*                                                                         *)
(* The display is what the panel holds: the picture last pushed and the    *)
(* bar last painted, which a picture without a bar paints over.            *)
(***************************************************************************)
EXTENDS Naturals, Sequences

CONSTANTS
  Tens,       \* the tens digit of a target counts 1 .. Tens (9 in the code)
  Ones        \* the ones digit counts 0 .. Ones (9 in the code)

VARIABLE ui   \* the host, its screens, the display and the settings in flash

LOCAL INSTANCE SequencesExt

Gestures == {"NONE", "A_SHORT", "A_LONG", "B_SHORT", "B_LONG"}
NoScreen == "none"
NoPicture == <<"blank">>
Covered == <<"covered">>

(* What a handler answers: the screen's next state, whether it asked for a *)
(* drawing, and where to go.                                               *)
Remain(st) == [state |-> st, draw |-> FALSE, kind |-> "Stay", to |-> NoScreen]
Redraw(st) == [Remain(st) EXCEPT !.draw = TRUE]
Ignored(st) == [Remain(st) EXCEPT !.kind = "Ignored"]
Exits(st) == [Remain(st) EXCEPT !.kind = "Exit"]
PushTo(st, s) == [Remain(st) EXCEPT !.kind = "Push", !.to = s]
-----------------------------------------------------------------------------
(* The screens.                                                            *)
Items(u, s) ==
  IF s = "menu" THEN <<"target", "diagnostics", "tips">>
  ELSE IF u.listed THEN <<"recovery", "erase">> ELSE <<"erase">>

MenuEvent(u, s, g) ==
  LET st == u.scr[s] IN
  CASE g = "A_SHORT" -> Redraw((st % Len(Items(u, s))) + 1)
    [] g = "A_LONG" -> PushTo(st, Items(u, s)[st])
    [] g = "B_SHORT" -> Exits(st)
    [] OTHER -> Ignored(st)

(* ok: there is a finished shot, and it has enough points for a chart.     *)
LiveEvent(st, g, ok) ==
  CASE g = "B_SHORT" -> IF st = "Replay" THEN Redraw("LastShot") ELSE Exits(st)
    [] g = "A_SHORT" ->
         Redraw(CASE st = "Live" -> "LastShot"
                  [] st = "LastShot" -> IF ok THEN "LastShotChart" ELSE "Live"
                  [] st = "LastShotChart" -> "Live"
                  [] st = "Replay" -> "Replay")
    [] g = "A_LONG" /\ st = "Replay" -> Redraw("Replay")
    [] g = "A_LONG" /\ st \in {"LastShot", "LastShotChart"} /\ ok -> Redraw("Replay")
    [] OTHER -> Ignored(st)

Card == [Buttons |-> 0, Navigate |-> 1, Hold |-> 2, Power |-> 3, Motion |-> 4,
         Live |-> 5, MainMenu |-> 6]

FirstCard == [card |-> 0, hold |-> FALSE, rotation |-> FALSE,
              completed |-> FALSE, confirmExit |-> FALSE]

ExercisePending(st) ==
  (st.card = Card.Hold /\ ~st.hold) \/ (st.card = Card.Motion /\ ~st.rotation)

Completes(u, g) ==
  LET st == u.scr["tips"] IN
  IF st.confirmExit THEN g = "A_LONG" ELSE st.card = Card.MainMenu /\ g = "A_SHORT"

TipsEvent(u, g) ==
  LET st == u.scr["tips"] IN
  CASE Completes(u, g) -> Exits([st EXCEPT !.completed = ~st.confirmExit])
    [] st.confirmExit ->
         IF g = "B_SHORT" THEN Redraw([st EXCEPT !.confirmExit = FALSE]) ELSE Ignored(st)
    [] ~st.confirmExit /\ g = "B_LONG" ->
         IF u.toured THEN Ignored(st) ELSE Redraw([st EXCEPT !.confirmExit = TRUE])
    [] ~st.confirmExit /\ g = "B_SHORT" ->
         IF st.card = Card.Buttons THEN Exits(st) ELSE Redraw([st EXCEPT !.card = @ - 1])
    [] g = "A_LONG" /\ st.card = Card.Hold /\ ~st.hold /\ ~st.confirmExit ->
         Redraw([st EXCEPT !.hold = TRUE])
    [] g = "A_SHORT" /\ st.card # Card.MainMenu /\ ~ExercisePending(st) /\ ~st.confirmExit ->
         Redraw([st EXCEPT !.card = @ + 1])
    [] OTHER -> Ignored(st)

(* The target editor: digits, the arm switch and the field being edited.   *)
(* An unset target is 0; the lowest that can be set is a full ten grams.   *)
Value(st) == <<st.tens, st.ones, st.half>>
Unset == <<0, 0, 0>>
Seed(u) ==
  [tens |-> IF u.target[1] = 0 THEN 1 ELSE u.target[1], ones |-> u.target[2],
   half |-> u.target[3], armed |-> u.armed, field |-> "None", blinkOn |-> TRUE]

NextField(f) ==
  CASE f = "None" -> "Tens" [] f = "Tens" -> "Ones" [] f = "Ones" -> "Half"
    [] f = "Half" -> "Armed" [] f = "Armed" -> "None"

Bump(st) ==
  CASE st.field = "Tens" -> [st EXCEPT !.tens = (@ % Tens) + 1, !.armed = TRUE]
    [] st.field = "Ones" -> [st EXCEPT !.ones = (@ + 1) % (Ones + 1), !.armed = TRUE]
    [] st.field = "Half" -> [st EXCEPT !.half = 1 - @, !.armed = TRUE]
    [] st.field = "Armed" -> [st EXCEPT !.armed = ~@]
    [] OTHER -> st

TargetEvent(st, g) ==
  CASE g = "A_LONG" -> Redraw([st EXCEPT !.field = NextField(@), !.blinkOn = TRUE])
    [] g = "A_SHORT" -> Redraw(Bump(st))
    [] g = "B_SHORT" -> Exits(st)
    [] OTHER -> Ignored(st)

(* The screen for storage that did not mount; ok: the retry mounts.        *)
RecoveryEvent(st, g, ok) ==
  CASE st.stage = "Notice" /\ g = "A_SHORT" ->
         Redraw([st EXCEPT !.stage = IF ok THEN "Restarting" ELSE "ActionFailed"])
    [] st.stage = "Notice" /\ g = "A_LONG" -> Redraw([st EXCEPT !.stage = "Confirm"])
    [] st.stage = "Notice" /\ g = "B_SHORT" -> Exits(st)
    [] st.stage = "Confirm" /\ g = "A_LONG" ->
         Redraw([stage |-> "Formatting", presented |-> FALSE])
    [] st.stage \in {"Confirm", "ActionFailed"} /\ g = "B_SHORT" ->
         Redraw([st EXCEPT !.stage = "Notice"])
    [] OTHER -> Ignored(st)

EraseEvent(st, g) ==
  CASE st.stage = "Confirm" /\ g = "A_LONG" ->
         Redraw([stage |-> "Erasing", presented |-> FALSE])
    [] st.stage = "Confirm" /\ g = "B_SHORT" -> Exits(st)
    [] OTHER -> Ignored(st)

OnEvent(u, s, g, ok) ==
  CASE s \in {"menu", "diagnostics"} -> MenuEvent(u, s, g)
    [] s = "live" -> LiveEvent(u.scr[s], g, ok)
    [] s = "tips" -> TipsEvent(u, g)
    [] s = "target" -> TargetEvent(u.scr[s], g)
    [] s = "recovery" -> RecoveryEvent(u.scr[s], g, ok)
    [] s = "erase" -> EraseEvent(u.scr[s], g)

(* The state onEnter leaves a screen in; a menu keeps its cursor.          *)
OnScreenEnter(u, s) ==
  CASE s \in {"menu", "diagnostics"} -> u.scr[s]
    [] s = "live" -> "Live"
    [] s = "tips" -> FirstCard
    [] s = "target" -> Seed(u)
    [] s = "recovery" -> [stage |-> "Notice", presented |-> FALSE]
    [] s = "erase" -> [stage |-> "Confirm", presented |-> FALSE]

(* Only the target editor's onExit changes what outlives the screen.  What *)
(* onEnter will set again is forgotten here.                               *)
OnExit(u, s) ==
  LET saved == IF s = "target"
               THEN [u EXCEPT !.target = Value(u.scr[s]), !.armed = u.scr[s].armed] ELSE u
  IN IF s = "tips" THEN saved ELSE [saved EXCEPT !.scr[s] = OnScreenEnter(saved, s)]

AllowsRootShortcut(u, s) ==
  CASE s = "tips" -> u.toured
    [] s = "recovery" -> FALSE
    [] s = "erase" -> u.scr[s].stage = "Confirm"
    [] OTHER -> TRUE

WantsStatusBar(s) == s # "live"

(* What each screen draws, and the hints it shows in the bar.              *)
MenuView(st) == <<"cursor", st>>
LiveView(st) == <<"mode", st>>
TipsView(st) ==
  IF st.confirmExit THEN <<"exit?">> ELSE <<"card", st.card, ExercisePending(st)>>
TargetView(st) == <<Value(st), st.armed, st.field, st.blinkOn>>
RecoveryView(st) == <<st.stage>>
EraseView(st) == <<st.stage>>

ScreenView(u, s) ==
  LET st == u.scr[s] IN
  <<s>> \o CASE s = "live" -> LiveView(st)
            [] s = "tips" -> TipsView(st)
            [] s = "target" -> TargetView(st)
            [] s = "recovery" -> RecoveryView(st)
            [] s = "erase" -> EraseView(st)
            [] OTHER -> MenuView(st)

TargetHints(st) == <<"target", st.field, st.armed>>
RecoveryHints(st) == <<"recovery", st.stage>>
EraseHints(st) == <<"erase", st.stage>>
TipsHints(st) == <<"tips">> \o TipsView(st)

Hints(u, s) ==
  LET st == u.scr[s] IN
  CASE s = "tips" -> TipsHints(st)
    [] s = "target" -> TargetHints(st)
    [] s = "recovery" -> RecoveryHints(st)
    [] s = "erase" -> EraseHints(st)
    [] OTHER -> <<"icons">>
-----------------------------------------------------------------------------
(* The host.                                                               *)
Top(u) == Last(u.stack)

OrdinaryInitialScreen(u) == IF u.toured THEN "live" ELSE "tips"

ScreenAfterExit(u, exiting) ==
  CASE exiting = "recovery" -> OrdinaryInitialScreen(u)
    [] exiting = "tips" /\ u.scr["tips"].completed -> "menu"
    [] exiting = "live" -> "menu"
    [] OTHER -> "live"

EnterScreen(u) ==
  [u EXCEPT !.scr[Top(u)] = OnScreenEnter(u, Top(u)), !.scr["tips"] = FirstCard, !.dirty = TRUE]

(* No screen of the program asks for Replace, so only Push and Exit.       *)
ApplyResult(u, result) ==
  LET left == OnExit(u, Top(u)) IN
  CASE result.kind = "Push" ->
         EnterScreen([left EXCEPT !.stack = Append(@, result.to)])
    [] result.kind = "Exit" ->
         EnterScreen([left EXCEPT !.stack =
           IF Len(@) > 1 THEN Front(@) ELSE <<ScreenAfterExit(left, Last(@))>>])
    [] OTHER -> u

(* The state a handler asked for, with the drawing it requested.           *)
Took(u, out) ==
  [u EXCEPT !.scr[Top(u)] = out.state, !.dirty = u.dirty \/ out.draw]

(* Leaving the tour at its end, or by confirming, marks it as done: in the *)
(* running program whatever happens, in flash when the write succeeds.     *)
Handled(u, g, ok) ==
  LET done == Top(u) = "tips" /\ Completes(u, g) IN
  [Took(u, OnEvent(u, Top(u), g, ok)) EXCEPT
        !.toured = @ \/ done, !.flash = @ \/ (done /\ ok)]

(* The long work of the two storage screens begins in a tick.              *)
Announced(u) ==
  u.scr[Top(u)].stage \in {"Formatting", "Erasing"} /\ u.scr[Top(u)].presented

Worked(u, ok) ==
  LET s == Top(u)
      ended == IF s = "recovery" THEN IF ok THEN "Restarting" ELSE "ActionFailed"
               ELSE IF ok THEN "Done" ELSE "Incomplete"
  IN [u EXCEPT !.scr[s] = [stage |-> ended, presented |-> FALSE], !.dirty = TRUE]

(* ok: the work succeeds, and the half of the blink that is lit.           *)
Ticked(u, ok) ==
  CASE Top(u) = "target" /\ u.scr["target"].blinkOn # (ok \/ u.scr["target"].field = "None") ->
         [u EXCEPT !.scr["target"].blinkOn = ~@, !.dirty = TRUE]
    [] Top(u) \in {"recovery", "erase"} /\ Announced(u) -> Worked(u, ok)
    [] Top(u) = "live" ->  \* a replay is at its end, or a pour starts
         IF ~ok THEN u
         ELSE [u EXCEPT !.scr["live"] = IF @ = "Replay" THEN "LastShot" ELSE "Live",
                        !.dirty = TRUE]
    [] OTHER -> u

(* updateActiveScreen: the gesture first; a screen that was just left or   *)
(* entered is not ticked in the same update.                               *)
UpdateActiveScreen(u, g, due, ok) ==
  LET out == OnEvent(u, Top(u), g, ok)
      shortcut == /\ g = "B_LONG" /\ out.kind = "Ignored" /\ Top(u) # "live"
                  /\ AllowsRootShortcut(u, Top(u))
      after == IF g = "NONE" THEN u ELSE Handled(u, g, ok)
  IN CASE g # "NONE" /\ shortcut ->
            EnterScreen([OnExit(u, Top(u)) EXCEPT !.stack = <<"live">>])
       [] g # "NONE" /\ ~shortcut /\ out.kind \in {"Push", "Exit"} -> ApplyResult(after, out)
       [] OTHER -> IF due THEN Ticked(after, ok) ELSE after

(* The bar repaints itself only when what it shows differs from what it    *)
(* painted last, wherever the panel has been painted over since.           *)
SyncChrome(u) == IF WantsStatusBar(Top(u)) THEN [u EXCEPT !.hints = Hints(u, Top(u))] ELSE u

(* Without the buffer to compose it in, the bar stays as it was.           *)
BarDrawn(u) ==
  IF ~u.compose THEN u
  ELSE [u EXCEPT !.barDirty = FALSE, !.painted = u.hints, !.display.bar = <<u.edge, u.hints>>]

BarUpdated(u) == IF u.barDirty \/ u.painted # u.hints THEN BarDrawn(u) ELSE u

OnPresented(u) ==
  LET s == Top(u) IN
  IF s \in {"recovery", "erase"} /\ u.scr[s].stage \in {"Formatting", "Erasing"}
  THEN [u EXCEPT !.scr[s].presented = TRUE] ELSE u

DrawContent(u) ==
  IF ~u.canvas THEN u
  ELSE OnPresented([u EXCEPT
         !.display.picture = <<u.edge, ScreenView(u, Top(u))>>,
         !.display.bar = IF WantsStatusBar(Top(u)) THEN @ ELSE Covered])

OnLayoutChanged(u) ==
  IF Top(u) = "tips" /\ u.scr["tips"].card = Card.Motion
  THEN [u EXCEPT !.scr["tips"].rotation = TRUE] ELSE u

X_SyncLayoutAndDraw(u, rotated) ==
  LET visible == WantsStatusBar(Top(u))
      shown == IF visible THEN BarUpdated(u) ELSE u
      relaid == DrawContent(IF visible THEN BarDrawn(OnLayoutChanged(u)) ELSE OnLayoutChanged(u))
      drawn == IF rotated THEN relaid ELSE IF shown.dirty THEN DrawContent(shown) ELSE shown
  IN [drawn EXCEPT !.dirty = FALSE, !.prevShowChrome = visible]

(* A turned device, or a bar that comes or goes, repaints bar and content; *)
(* else the bar updates itself and the content is drawn if it was asked.   *)
SyncLayoutAndDraw(u, rotated) ==
  LET visible == WantsStatusBar(Top(u))
      laid == IF rotated THEN OnLayoutChanged(u) ELSE u
      relaid == DrawContent(IF visible THEN BarDrawn(laid) ELSE laid)
      shown == IF visible THEN BarUpdated(u) ELSE u
      drawn == IF rotated \/ visible # u.prevShowChrome THEN relaid
               ELSE IF shown.dirty THEN DrawContent(shown) ELSE shown
  IN [drawn EXCEPT !.dirty = FALSE, !.prevShowChrome = visible]

Turned(u, rotated) ==
  IF rotated THEN [u EXCEPT !.edge = IF @ = "Bottom" THEN "Right" ELSE "Bottom", !.barDirty = TRUE]
  ELSE u

(* UiHost::update, once per pass of the main loop.                         *)
HostUpdate(g, rotated, due, ok) ==
  ui' = [SyncLayoutAndDraw(
           SyncChrome(UpdateActiveScreen(Turned(ui, rotated), g, due, ok)), rotated)
         EXCEPT !.settled = ~rotated]

(* The bar asks again for its buffer by every drawing that lacks it: when  *)
(* memory has become free, the next update has it.                         *)
MemoryFreed == ~ui.compose /\ ui' = [ui EXCEPT !.compose = TRUE, !.settled = FALSE]

(* setup(): storage mounts or not, the canvas is allocated or not, and the *)
(* first screen is entered and drawn; the bar waits for the first update.  *)
Booted(flash, target, armed, mounted, canvas, compose) ==
  LET first == IF ~mounted THEN "recovery" ELSE IF flash THEN "live" ELSE "tips"
      u == [stack |-> <<first>>,
            scr |-> [menu |-> 1, diagnostics |-> 1, live |-> "Live", tips |-> FirstCard,
                     target |-> Seed([target |-> target, armed |-> armed]),
                     recovery |-> [stage |-> "Notice", presented |-> FALSE],
                     erase |-> [stage |-> "Confirm", presented |-> FALSE]],
            toured |-> flash, flash |-> flash, target |-> target, armed |-> armed,
            listed |-> ~mounted, canvas |-> canvas, compose |-> compose,
            edge |-> "Bottom", dirty |-> TRUE, prevShowChrome |-> TRUE,
            hints |-> <<"icons">>, painted |-> <<"icons">>, barDirty |-> TRUE,
            display |-> [picture |-> NoPicture, bar |-> Covered],
            settled |-> FALSE]
  IN [DrawContent(EnterScreen(u)) EXCEPT !.dirty = ~canvas, !.prevShowChrome = WantsStatusBar(first)]

ForegroundInit ==
  \E flash, mounted, canvas, compose \in BOOLEAN :
    ui = Booted(flash, Unset, FALSE, mounted, canvas, compose)

(* A restart: the storage screens ask for one when their work is done; the *)
(* power may also go at any time.  Erased settings are gone; an erase that *)
(* was incomplete, or that the power cut short, took them or did not.      *)
Repower ==
  LET stage == ui.scr["erase"].stage
      keeps == CASE stage = "Done" -> {FALSE}
                 [] stage \in {"Erasing", "Incomplete"} -> BOOLEAN
                 [] OTHER -> {TRUE}
  IN \E mounted, canvas, compose \in BOOLEAN, kept \in keeps :
       ui' = Booted(kept /\ ui.flash, IF kept THEN ui.target ELSE Unset, kept /\ ui.armed,
                    mounted, canvas, compose)

(* Time and luck change nothing for the other screens.                     *)
Chances(screens) == IF Top(ui) \in screens THEN BOOLEAN ELSE {TRUE}

Foreground ==
  \/ \E g \in Gestures, rotated \in BOOLEAN,
        due \in Chances({"target", "recovery", "erase", "live"}),
        ok \in Chances({"target", "recovery", "erase", "tips", "live"}) : HostUpdate(g, rotated, due, ok)
  \/ MemoryFreed
  \/ Repower

ForegroundSpec == ForegroundInit /\ [][Foreground]_ui
-----------------------------------------------------------------------------
(* After every update the panel shows the active screen as it is now: its  *)
(* own picture in the present orientation, and its own bar, or none where  *)
(* it has none.  Only the hints of an update that turned the device may    *)
(* lag by one update, and a bar that never had a buffer to be composed in  *)
(* is missing (UiHost::syncLayoutAndDraw, Chrome::_draw).                  *)
PanelShowsActive ==
  LET s == Top(ui) IN
  (ui.canvas /\ ui.settled) =>
    /\ ui.display.picture = <<ui.edge, ScreenView(ui, s)>>
    /\ ui.display.bar = IF WantsStatusBar(s) /\ ui.compose THEN <<ui.edge, Hints(ui, s)>>
                        ELSE Covered
=============================================================================
