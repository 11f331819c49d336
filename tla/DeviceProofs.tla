---------------------------- MODULE DeviceProofs ----------------------------
(***************************************************************************)
(* Proofs about three components of the main loop that share nothing: the  *)
(* screens and their frame (Foreground), power saving with the way down to *)
(* the motion wake (PowerPolicy), and the page of the running shot         *)
(* (LiveScreen), for every value of their constants.                       *)
(***************************************************************************)
EXTENDS Foreground, PowerPolicy, LiveScreen, TLAPS
LOCAL INSTANCE SequencesExt

(***************************************************************************)
(* Part 1: Foreground.                                                     *)
(***************************************************************************)
ScreenNames == {"menu", "diagnostics", "live", "tips", "target", "recovery", "erase"}
HostFields ==
  {"stack", "scr", "toured", "flash", "target", "armed", "listed", "canvas", "compose", "edge",
   "dirty", "prevShowChrome", "hints", "painted", "barDirty", "display", "settled"}
Menus == {"menu", "diagnostics"}
StorageScreens == {"recovery", "erase"}

\* What a step may rely on of the host and its screens: the active screen is
\* one of them, and a menu's cursor is on one of its items.
Proper(u) ==
  /\ DOMAIN u = HostFields /\ DOMAIN u.scr = ScreenNames
  /\ DOMAIN u.display = {"picture", "bar"}
  /\ u.stack \in Seq(ScreenNames) /\ u.stack # <<>>
  /\ \A s \in Menus : u.scr[s] \in 1 .. Len(Items(u, s))
  /\ \A s \in StorageScreens : DOMAIN u.scr[s] = {"stage", "presented"}
  /\ {u.dirty, u.prevShowChrome, u.barDirty, u.canvas, u.compose} \subseteq BOOLEAN

\* The bar on the panel is the one painted last, until the bar itself is to be
\* repainted, or it is covered by a picture that has none.  Without a buffer
\* it was never painted.
Unpainted(u) == ~u.compose => u.barDirty /\ u.display.bar = Covered

BarKept(u) ==
  /\ Unpainted(u)
  /\ u.canvas => IF u.prevShowChrome THEN u.barDirty \/ u.display.bar = <<u.edge, u.painted>>
                 ELSE u.display.bar = Covered

PictureKept(u) ==
  u.canvas => ~u.dirty /\ u.display.picture = <<u.edge, ScreenView(u, Top(u))>>

\* PanelShowsActive, of any state of the host.
ShowsActive(u) ==
  (u.canvas /\ u.settled) =>
    /\ u.display.picture = <<u.edge, ScreenView(u, Top(u))>>
    /\ u.display.bar =
         IF WantsStatusBar(Top(u)) /\ u.compose THEN <<u.edge, Hints(u, Top(u))>> ELSE Covered

PanelRests(u) ==
  /\ Proper(u) /\ BarKept(u) /\ PictureKept(u)
  /\ u.prevShowChrome = WantsStatusBar(Top(u))
  /\ ShowsActive(u)

PanelInv == PanelRests(ui)
------------------------------------------------------------------------------
LEMMA ActiveScreen ==
  ASSUME NEW u, Proper(u)
  PROVE  Top(u) \in ScreenNames /\ Top(u) = u.stack[Len(u.stack)] /\ Len(u.stack) > 0
<1>1. Len(u.stack) \in 1 .. Len(u.stack) /\ Len(u.stack) > 0
  BY DEF Proper
<1>2. u.stack[Len(u.stack)] \in ScreenNames
  BY <1>1 DEF Proper
<1> QED BY <1>1, <1>2 DEF Top, Last

\* A screen's picture and hints are functions of its own state.
LEMMA SameView ==
  ASSUME NEW u, NEW v, NEW s, u.scr[s] = v.scr[s]
  PROVE  ScreenView(u, s) = ScreenView(v, s) /\ Hints(u, s) = Hints(v, s)
BY DEF ScreenView, Hints

\* The storage screens draw their stage alone.
LEMMA StageView ==
  ASSUME NEW u, NEW v, NEW s \in StorageScreens, u.scr[s].stage = v.scr[s].stage
  PROVE  ScreenView(u, s) = ScreenView(v, s) /\ Hints(u, s) = Hints(v, s)
<1>1. CASE s = "recovery"
  BY <1>1 DEF ScreenView, Hints, RecoveryView, RecoveryHints
<1>2. CASE s = "erase"
  BY <1>2 DEF ScreenView, Hints, EraseView, EraseHints
<1> QED BY <1>1, <1>2 DEF StorageScreens

------------------------------------------------------------------------------
(* What a handler answers.                                                 *)
\* Whatever keeps its screen active either asks for a drawing or changes
\* nothing that is drawn; where a handler goes to is a screen.
StateFits(u, s, st) ==
  /\ s \in Menus => st \in 1 .. Len(Items(u, s))
  /\ s \in StorageScreens => DOMAIN st = {"stage", "presented"}

Fits(u, s, out) ==
  /\ StateFits(u, s, out.state)
  /\ out.draw \in BOOLEAN
  /\ \/ out.kind = "Exit"
     \/ out.kind = "Push" /\ out.to \in ScreenNames
     \/ out.kind = "Stay" /\ out.draw
     \/ out.kind = "Ignored" /\ out.state = u.scr[s]

LEMMA MenuItems ==
  ASSUME NEW u, NEW s \in Menus
  PROVE  /\ Len(Items(u, s)) \in Nat \ {0}
         /\ \A n \in 1 .. Len(Items(u, s)) : Items(u, s)[n] \in ScreenNames
<1>1. CASE s = "menu"
  BY <1>1 DEF Items, ScreenNames
<1>2. CASE s # "menu" /\ u.listed
  BY <1>2 DEF Items, ScreenNames
<1>3. CASE s # "menu" /\ ~u.listed
  BY <1>3 DEF Items, ScreenNames
<1> QED BY <1>1, <1>2, <1>3

LEMMA AnswersFit ==
  ASSUME NEW u, NEW s, NEW st, StateFits(u, s, st)
  PROVE  /\ Fits(u, s, Redraw(st)) /\ Fits(u, s, Exits(st))
         /\ st = u.scr[s] => Fits(u, s, Ignored(st))
         /\ \A to \in ScreenNames : Fits(u, s, PushTo(st, to))
<1> USE DEF Fits, Remain
<1>1. Fits(u, s, Redraw(st))
  BY DEF Redraw
<1>2. Fits(u, s, Exits(st))
  BY DEF Exits
<1>3. st = u.scr[s] => Fits(u, s, Ignored(st))
  BY DEF Ignored
<1>4. ASSUME NEW to \in ScreenNames PROVE Fits(u, s, PushTo(st, to))
  BY DEF PushTo
<1> QED BY <1>1, <1>2, <1>3, <1>4

LEMMA OnEventFits ==
  ASSUME NEW u, Proper(u), NEW s \in ScreenNames, NEW g \in Gestures, NEW ok \in BOOLEAN
  PROVE  Fits(u, s, OnEvent(u, s, g, ok))
<1> DEFINE st == u.scr[s]
           out == OnEvent(u, s, g, ok)
<1>1. StateFits(u, s, st)
  BY DEF Proper, StateFits
<1>2. /\ Fits(u, s, Redraw(st)) /\ Fits(u, s, Exits(st)) /\ Fits(u, s, Ignored(st))
      /\ \A to \in ScreenNames : Fits(u, s, PushTo(st, to))
  BY <1>1, AnswersFit
<1> HIDE DEF st
<1>3. CASE s \in Menus
  <2>1. out = MenuEvent(u, s, g)
    BY <1>3 DEF OnEvent, Menus
  <2>2. st \in 1 .. Len(Items(u, s)) /\ Len(Items(u, s)) \in Nat \ {0}
    BY <1>1, <1>3, MenuItems DEF StateFits
  <2>3. Items(u, s)[st] \in ScreenNames
    BY <1>3, <2>2, MenuItems
  <2>4. (st % Len(Items(u, s))) + 1 \in 1 .. Len(Items(u, s))
    BY <2>2
  <2>5. StateFits(u, s, (st % Len(Items(u, s))) + 1)
    BY <2>4, <1>3 DEF StateFits, Menus, StorageScreens
  <2>6. Fits(u, s, Redraw((st % Len(Items(u, s))) + 1)) /\ Fits(u, s, PushTo(st, Items(u, s)[st]))
    BY <2>5, <2>3, <1>2, AnswersFit
  <2>7. MenuEvent(u, s, g) \in {Redraw((st % Len(Items(u, s))) + 1), PushTo(st, Items(u, s)[st]),
                                 Exits(st), Ignored(st)}
    BY DEF MenuEvent, st
  <2> QED BY <2>1, <2>6, <2>7, <1>2
<1>4. CASE s \notin Menus /\ s \notin StorageScreens
  <2>1. ASSUME NEW x PROVE Fits(u, s, Redraw(x)) /\ Fits(u, s, Exits(x))
    BY <1>4, AnswersFit DEF StateFits
  <2>2. CASE s = "live"
    <3>1. out = LiveEvent(st, g, ok)
      BY <2>2 DEF OnEvent, st
    <3>2. out = Exits(st) \/ out = Ignored(st) \/ \E x : out = Redraw(x)
      BY <3>1 DEF LiveEvent
    <3> QED BY <3>2, <2>1, <1>2
  <2>3. CASE s = "tips"
    <3>1. out = TipsEvent(u, g) /\ st = u.scr["tips"]
      BY <2>3 DEF OnEvent, st
    <3>2. out = Ignored(st) \/ \E x : out = Redraw(x) \/ out = Exits(x)
      BY <3>1 DEF TipsEvent
    <3> QED BY <3>2, <2>1, <1>2
  <2>4. CASE s = "target"
    <3>1. out = TargetEvent(st, g)
      BY <2>4 DEF OnEvent, st
    <3>2. out = Exits(st) \/ out = Ignored(st) \/ \E x : out = Redraw(x)
      BY <3>1 DEF TargetEvent
    <3> QED BY <3>2, <2>1, <1>2
  <2> QED BY <1>4, <2>2, <2>3, <2>4 DEF ScreenNames, Menus, StorageScreens
<1>5. CASE s \in StorageScreens
  <2>1. DOMAIN st = {"stage", "presented"}
    BY <1>1, <1>5 DEF StateFits
  <2>2. ASSUME NEW x, DOMAIN x = {"stage", "presented"} PROVE Fits(u, s, Redraw(x))
    <3>1. StateFits(u, s, x)
      BY <1>5, <2>2 DEF StateFits, Menus, StorageScreens
    <3> QED BY <3>1, AnswersFit
  <2>3. CASE s = "recovery"
    <3>1. out = RecoveryEvent(st, g, ok)
      BY <2>3 DEF OnEvent, st
    <3>2. \/ out = Exits(st) \/ out = Ignored(st)
          \/ \E y : out = Redraw([st EXCEPT !.stage = y])
          \/ out = Redraw([stage |-> "Formatting", presented |-> FALSE])
      BY <3>1 DEF RecoveryEvent
    <3>3. \A y : DOMAIN [st EXCEPT !.stage = y] = {"stage", "presented"}
      BY <2>1
    <3>4. DOMAIN [stage |-> "Formatting", presented |-> FALSE] = {"stage", "presented"}
      OBVIOUS
    <3> QED BY <3>2, <3>3, <3>4, <2>2, <1>2
  <2>4. CASE s = "erase"
    <3>1. out = EraseEvent(st, g)
      BY <2>4 DEF OnEvent, st
    <3>2. out \in {Exits(st), Ignored(st), Redraw([stage |-> "Erasing", presented |-> FALSE])}
      BY <3>1 DEF EraseEvent
    <3>3. DOMAIN [stage |-> "Erasing", presented |-> FALSE] = {"stage", "presented"}
      OBVIOUS
    <3> QED BY <3>2, <3>3, <2>2, <1>2
  <2> QED BY <1>5, <2>3, <2>4 DEF StorageScreens
<1> QED BY <1>3, <1>4, <1>5

------------------------------------------------------------------------------
(* What the gesture and the tick do to the host.                           *)

\* The part of the host that only turning, the bar and drawing change.
Carries(u, v) ==
  /\ DOMAIN v = HostFields /\ v.dirty \in BOOLEAN
  /\ v.display = u.display /\ v.listed = u.listed /\ v.canvas = u.canvas /\ v.edge = u.edge
  /\ v.compose = u.compose
  /\ v.painted = u.painted /\ v.barDirty = u.barDirty /\ v.hints = u.hints
  /\ v.prevShowChrome = u.prevShowChrome /\ v.settled = u.settled

LEMMA ProperKept ==
  ASSUME NEW u, Proper(u), NEW v, Carries(u, v), v.stack \in Seq(ScreenNames), v.stack # <<>>,
         DOMAIN v.scr = ScreenNames, \A s \in ScreenNames : StateFits(u, s, v.scr[s])
  PROVE  Proper(v)
<1>1. \A s \in Menus : Items(v, s) = Items(u, s)
  BY DEF Items, Carries
<1>2. \A s \in Menus : v.scr[s] \in 1 .. Len(Items(v, s))
  BY <1>1 DEF StateFits, Menus, ScreenNames
<1>3. \A s \in StorageScreens : DOMAIN v.scr[s] = {"stage", "presented"}
  BY DEF StateFits, StorageScreens, ScreenNames
<1> QED BY <1>2, <1>3 DEF Proper, Carries

LEMMA ProperFits ==
  ASSUME NEW u, Proper(u), NEW s \in ScreenNames
  PROVE  StateFits(u, s, u.scr[s])
BY DEF Proper, StateFits

LEMMA HandledKeeps ==
  ASSUME NEW u, Proper(u), NEW g, NEW ok, Fits(u, Top(u), OnEvent(u, Top(u), g, ok))
  PROVE  LET w == Handled(u, g, ok)
             out == OnEvent(u, Top(u), g, ok)
         IN /\ Proper(w) /\ Carries(u, w) /\ w.stack = u.stack
            /\ w.scr[Top(u)] = out.state /\ (w.dirty <=> u.dirty \/ out.draw)
<1> DEFINE w == Handled(u, g, ok)
           out == OnEvent(u, Top(u), g, ok)
           t == Top(u)
<1>1. t \in ScreenNames
  BY ActiveScreen
<1>2. StateFits(u, t, out.state) /\ out.draw \in BOOLEAN
  BY DEF Fits
<1>3. \E a, b : w = [Took(u, out) EXCEPT !.toured = a, !.flash = b]
  BY DEF Handled
<1> HIDE DEF w, out, t
<1>4. PICK a, b : w = [Took(u, out) EXCEPT !.toured = a, !.flash = b]
  BY <1>3
<1>5. Took(u, out) = [u EXCEPT !.scr[t] = out.state, !.dirty = u.dirty \/ out.draw]
  BY DEF Took, t
<1>6. DOMAIN u = HostFields /\ DOMAIN u.scr = ScreenNames /\ u.dirty \in BOOLEAN
  BY DEF Proper
<1>7. /\ DOMAIN w = HostFields /\ w.stack = u.stack /\ w.scr = [u.scr EXCEPT ![t] = out.state]
      /\ w.display = u.display /\ w.listed = u.listed /\ w.canvas = u.canvas /\ w.edge = u.edge
      /\ w.compose = u.compose
      /\ w.painted = u.painted /\ w.barDirty = u.barDirty /\ w.hints = u.hints
      /\ w.prevShowChrome = u.prevShowChrome /\ w.settled = u.settled
  BY <1>4, <1>5, <1>6 DEF HostFields
<1>8. w.dirty = (u.dirty \/ out.draw)
  BY <1>4, <1>5, <1>6 DEF HostFields
<1>9. Carries(u, w)
  BY <1>2, <1>6, <1>7, <1>8 DEF Carries
<1>10. DOMAIN w.scr = ScreenNames /\ \A s \in ScreenNames : StateFits(u, s, w.scr[s])
  BY <1>1, <1>2, <1>6, <1>7, ProperFits
<1>11. Proper(w)
  BY <1>7, <1>9, <1>10, ProperKept DEF Proper
<1>12. w.scr[t] = out.state
  BY <1>1, <1>6, <1>7
<1> QED BY <1>7, <1>8, <1>9, <1>11, <1>12 DEF w, out, t

LEMMA EnterFits ==
  ASSUME NEW u, Proper(u), NEW s \in ScreenNames
  PROVE  StateFits(u, s, OnScreenEnter(u, s))
<1>1. CASE s \in Menus
  <2>1. OnScreenEnter(u, s) = u.scr[s]
    BY <1>1 DEF OnScreenEnter, Menus
  <2> QED BY <2>1, ProperFits
<1>2. CASE s \in StorageScreens
  <2>1. OnScreenEnter(u, s) \in {[stage |-> "Notice", presented |-> FALSE],
                                 [stage |-> "Confirm", presented |-> FALSE]}
    BY <1>2 DEF OnScreenEnter, StorageScreens
  <2>2. DOMAIN OnScreenEnter(u, s) = {"stage", "presented"}
    BY <2>1
  <2> QED BY <2>2, <1>2 DEF StateFits, Menus, StorageScreens
<1> QED BY <1>1, <1>2 DEF StateFits

LEMMA EnterKeeps ==
  ASSUME NEW u, Proper(u)
  PROVE  /\ Proper(EnterScreen(u)) /\ Carries(u, EnterScreen(u))
         /\ EnterScreen(u).dirty = TRUE /\ EnterScreen(u).stack = u.stack
<1> DEFINE v == EnterScreen(u)
           t == Top(u)
           x == OnScreenEnter(u, t)
<1>1. t \in ScreenNames /\ StateFits(u, t, x)
  BY ActiveScreen, EnterFits
<1>2. v = [u EXCEPT !.scr[t] = x, !.scr["tips"] = FirstCard, !.dirty = TRUE]
  BY DEF EnterScreen
<1>3. DOMAIN u = HostFields /\ DOMAIN u.scr = ScreenNames
  BY DEF Proper
<1> HIDE DEF v, t, x
<1>4. /\ Carries(u, v) /\ v.dirty = TRUE /\ v.stack = u.stack
      /\ v.scr = [[u.scr EXCEPT ![t] = x] EXCEPT !["tips"] = FirstCard]
  BY <1>2, <1>3 DEF Carries, HostFields
<1>5. StateFits(u, "tips", FirstCard)
  BY DEF StateFits, Menus, StorageScreens
<1>6. DOMAIN v.scr = ScreenNames /\ \A s \in ScreenNames : StateFits(u, s, v.scr[s])
  BY <1>1, <1>3, <1>4, <1>5, ProperFits DEF ScreenNames
<1>7. Proper(v)
  BY <1>4, <1>6, ProperKept DEF Proper
<1> QED BY <1>4, <1>7 DEF v

LEMMA ExitKeeps ==
  ASSUME NEW u, Proper(u), NEW s \in ScreenNames
  PROVE  Proper(OnExit(u, s)) /\ Carries(u, OnExit(u, s)) /\ OnExit(u, s).stack = u.stack
<1> DEFINE storedTarget == IF s = "target"
                           THEN [u EXCEPT !.target = Value(u.scr[s]), !.armed = u.scr[s].armed] ELSE u
           x == OnScreenEnter(storedTarget, s)
           v == OnExit(u, s)
<1>1. DOMAIN u = HostFields /\ DOMAIN u.scr = ScreenNames /\ u.dirty \in BOOLEAN
  BY DEF Proper
<1>2. v = IF s = "tips" THEN storedTarget ELSE [storedTarget EXCEPT !.scr[s] = x]
  BY DEF OnExit
<1>3. /\ DOMAIN storedTarget = HostFields /\ storedTarget.stack = u.stack /\ storedTarget.scr = u.scr
      /\ storedTarget.dirty = u.dirty /\ storedTarget.display = u.display /\ storedTarget.listed = u.listed
      /\ storedTarget.canvas = u.canvas /\ storedTarget.edge = u.edge
      /\ storedTarget.compose = u.compose
      /\ storedTarget.painted = u.painted /\ storedTarget.barDirty = u.barDirty /\ storedTarget.hints = u.hints
      /\ storedTarget.prevShowChrome = u.prevShowChrome /\ storedTarget.settled = u.settled
  BY <1>1 DEF HostFields
<1> HIDE DEF storedTarget
<1>4. Carries(u, storedTarget)
  BY <1>1, <1>3 DEF Carries
<1>5. Proper(storedTarget)
  BY <1>1, <1>3, <1>4, ProperKept, ProperFits DEF Proper
<1>6. StateFits(storedTarget, s, x)
  BY <1>5, EnterFits
<1> HIDE DEF x, v
<1>7. CASE s = "tips"
  BY <1>2, <1>3, <1>4, <1>5, <1>7 DEF v
<1>8. CASE s # "tips"
  <2>1. /\ Carries(storedTarget, v) /\ v.stack = u.stack /\ v.scr = [u.scr EXCEPT ![s] = x]
    BY <1>2, <1>3, <1>8, <1>1 DEF Carries, HostFields
  <2>2. DOMAIN v.scr = ScreenNames /\ \A q \in ScreenNames : StateFits(storedTarget, q, v.scr[q])
    BY <2>1, <1>1, <1>3, <1>5, <1>6, ProperFits
  <2>3. Proper(v)
    BY <2>1, <2>2, <1>3, <1>5, ProperKept DEF Proper
  <2>4. Carries(u, v)
    BY <2>1, <1>4 DEF Carries
  <2> QED BY <2>1, <2>3, <2>4 DEF v
<1> QED BY <1>7, <1>8

LEMMA StackKeeps ==
  ASSUME NEW u, Proper(u), NEW q \in Seq(ScreenNames), q # <<>>
  PROVE  LET v == [u EXCEPT !.stack = q] IN Proper(v) /\ Carries(u, v)
<1> DEFINE v == [u EXCEPT !.stack = q]
<1>1. DOMAIN u = HostFields /\ u.dirty \in BOOLEAN
  BY DEF Proper
<1>2. Carries(u, v) /\ v.stack = q /\ v.scr = u.scr
  BY <1>1 DEF Carries, HostFields
<1> HIDE DEF v
<1>3. Proper(v)
  BY <1>2, ProperKept, ProperFits DEF Proper
<1> QED BY <1>2, <1>3 DEF v

LEMMA TickedKeeps ==
  ASSUME NEW u, Proper(u), NEW ok \in BOOLEAN
  PROVE  LET v == Ticked(u, ok) IN Proper(v) /\ Carries(u, v) /\ (v.dirty \/ v = u)
<1> DEFINE v == Ticked(u, ok)
<1>1. DOMAIN u = HostFields /\ DOMAIN u.scr = ScreenNames /\ u.dirty \in BOOLEAN
  BY DEF Proper
<1>2. \A s \in ScreenNames : StateFits(u, s, u.scr[s])
  BY ProperFits
<1>3. Carries(u, u)
  BY <1>1 DEF Carries
<1>4. ASSUME NEW s \in ScreenNames, NEW x, StateFits(u, s, x), NEW f,
             v = [u EXCEPT !.scr[s] = x, !.dirty = TRUE, !.flash = f]
      PROVE  Proper(v) /\ Carries(u, v) /\ v.dirty
  <2> HIDE DEF v
  <2>1. Carries(u, v) /\ v.dirty = TRUE /\ v.stack = u.stack /\ v.scr = [u.scr EXCEPT ![s] = x]
    BY <1>1, <1>4 DEF Carries, HostFields
  <2>2. DOMAIN v.scr = ScreenNames /\ \A q \in ScreenNames : StateFits(u, q, v.scr[q])
    BY <1>1, <1>2, <1>4, <2>1
  <2> QED BY <2>1, <2>2, ProperKept DEF Proper
<1>5. ASSUME NEW x, NEW y PROVE [u EXCEPT !.scr[x] = y, !.dirty = TRUE] =
                               [u EXCEPT !.scr[x] = y, !.dirty = TRUE, !.flash = u.flash]
  BY <1>1 DEF HostFields
<1>6. CASE Top(u) = "target" /\ v # u
  <2>1. v = [u EXCEPT !.scr["target"].blinkOn = ~@, !.dirty = TRUE]
    BY <1>6 DEF Ticked
  <2> DEFINE x == [u.scr["target"] EXCEPT !.blinkOn = ~@]
  <2>2. v = [u EXCEPT !.scr["target"] = x, !.dirty = TRUE, !.flash = u.flash]
    <3>1. v = [u EXCEPT !.scr["target"] = x, !.dirty = TRUE]
      BY <2>1
    <3> HIDE DEF x, v
    <3> QED BY <3>1, <1>5
  <2>3. \A s : StateFits(u, "target", s)
    BY DEF StateFits, Menus, StorageScreens
  <2>4. Proper(v) /\ Carries(u, v) /\ v.dirty
    <3> HIDE DEF x, v
    <3> QED BY <2>2, <2>3, <1>4 DEF ScreenNames
  <2> QED BY <2>4
<1>7. CASE Top(u) \in StorageScreens /\ v # u
  <2>1. v = Worked(u, ok)
    BY <1>7 DEF Ticked, StorageScreens
  <2>2. PICK x : v = [u EXCEPT !.scr[Top(u)] = [stage |-> x, presented |-> FALSE], !.dirty = TRUE]
    BY <2>1 DEF Worked
  <2> DEFINE y == [stage |-> x, presented |-> FALSE]
  <2>3. StateFits(u, Top(u), y) /\ Top(u) \in ScreenNames
    BY <1>7, ActiveScreen DEF StateFits, Menus, StorageScreens
  <2>4. v = [u EXCEPT !.scr[Top(u)] = y, !.dirty = TRUE]
    BY <2>2
  <2> HIDE DEF y, v
  <2>5. v = [u EXCEPT !.scr[Top(u)] = y, !.dirty = TRUE, !.flash = u.flash]
    BY <2>4, <1>5
  <2>6. Proper(v) /\ Carries(u, v) /\ v.dirty
    BY <2>3, <2>5, <1>4
  <2> QED BY <2>6 DEF v
<1>8. CASE Top(u) \notin StorageScreens \cup {"target"} /\ v # u
  <2>1. /\ Top(u) = "live"
        /\ \E x : v = [u EXCEPT !.scr["live"] = x, !.dirty = TRUE]
    BY <1>8 DEF Ticked, StorageScreens
  <2>2. \E x : v = [u EXCEPT !.scr["live"] = x, !.dirty = TRUE, !.flash = u.flash]
    BY <2>1, <1>5
  <2>3. \A x : StateFits(u, "live", x)
    BY DEF StateFits, Menus, StorageScreens
  <2> QED BY <2>2, <2>3, <1>4 DEF ScreenNames
<1>9. CASE v = u
  BY <1>3, <1>9
<1> QED BY <1>6, <1>7, <1>8, <1>9

\* A gesture and a tick either ask for a drawing or leave the active screen
\* and what it shows alone.
LEMMA UpdateKeeps ==
  ASSUME NEW u, Proper(u), NEW g \in Gestures, NEW due \in BOOLEAN, NEW ok \in BOOLEAN
  PROVE  LET v == UpdateActiveScreen(u, g, due, ok)
         IN /\ Proper(v) /\ Carries(u, v)
            /\ v.dirty \/ (v.stack = u.stack /\ v.scr[Top(u)] = u.scr[Top(u)])
<1> DEFINE v == UpdateActiveScreen(u, g, due, ok)
           t == Top(u)
           out == OnEvent(u, t, g, ok)
           after == IF g = "NONE" THEN u ELSE Handled(u, g, ok)
           Good == /\ Proper(v) /\ Carries(u, v)
                   /\ v.dirty \/ (v.stack = u.stack /\ v.scr[t] = u.scr[t])
           shortcut == /\ g = "B_LONG" /\ out.kind = "Ignored" /\ t # "live"
                       /\ AllowsRootShortcut(u, t)
<1>1. t \in ScreenNames /\ u.dirty \in BOOLEAN
  BY ActiveScreen DEF Proper
<1>2. Fits(u, t, out)
  BY <1>1, OnEventFits
<1>3. /\ Proper(after) /\ Carries(u, after) /\ after.stack = u.stack
      /\ out.kind \in {"Stay", "Ignored"} =>
           after.dirty \/ after.scr[t] = u.scr[t]
      /\ g = "NONE" => after = u
  <2>1. CASE g = "NONE"
    BY <2>1, <1>1 DEF Carries, Proper
  <2>2. CASE g # "NONE"
    <3>1. /\ Proper(after) /\ Carries(u, after) /\ after.stack = u.stack
          /\ after.scr[t] = out.state /\ (after.dirty <=> u.dirty \/ out.draw)
      BY <2>2, <1>2, HandledKeeps
    <3> QED BY <3>1, <2>2, <1>2 DEF Fits
  <2> QED BY <2>1, <2>2
<1>4. \A w, x, y : Carries(w, x) /\ Carries(x, y) => Carries(w, y)
  BY DEF Carries
<1>5. Top(after) = t
  BY <1>3 DEF Top
<1> HIDE DEF t, out, after
<1>6. CASE g # "NONE" /\ shortcut
  <2> DEFINE left == OnExit(u, t)
             home == [left EXCEPT !.stack = <<"live">>]
  <2>1. v = EnterScreen(home)
    BY <1>6 DEF UpdateActiveScreen, t, out
  <2>2. Proper(left) /\ Carries(u, left)
    BY <1>1, ExitKeeps
  <2>3. <<"live">> \in Seq(ScreenNames) /\ <<"live">> # <<>>
    BY DEF ScreenNames
  <2> HIDE DEF left
  <2>4. Proper(home) /\ Carries(left, home)
    BY <2>2, <2>3, StackKeeps
  <2> HIDE DEF home
  <2>5. Proper(v) /\ Carries(home, v) /\ v.dirty = TRUE
    BY <2>1, <2>4, EnterKeeps
  <2>6. Carries(u, v)
    BY <2>2, <2>4, <2>5, <1>4
  <2> QED BY <2>5, <2>6 DEF t
<1>7. CASE g # "NONE" /\ ~shortcut /\ out.kind \in {"Push", "Exit"}
  <2> DEFINE left == OnExit(after, t)
             q == CASE out.kind = "Push" -> Append(left.stack, out.to)
                    [] out.kind = "Exit" ->
                         IF Len(left.stack) > 1 THEN Front(left.stack)
                         ELSE <<ScreenAfterExit(left, Last(left.stack))>>
             moved == [left EXCEPT !.stack = q]
  <2>1. v = ApplyResult(after, out)
    BY <1>7 DEF UpdateActiveScreen, t, out, after
  <2>2. Proper(left) /\ Carries(after, left) /\ left.stack = u.stack
    BY <1>1, <1>3, ExitKeeps
  <2>3. v = EnterScreen(moved)
    BY <1>7, <2>1, <1>5 DEF ApplyResult
  <2>4. q \in Seq(ScreenNames) /\ q # <<>>
    <3>1. left.stack \in Seq(ScreenNames) /\ left.stack # <<>>
      BY <2>2 DEF Proper
    <3>2. CASE out.kind = "Push"
      <4>1. out.to \in ScreenNames
        BY <1>2, <3>2 DEF Fits
      <4> QED BY <3>1, <3>2, <4>1
    <3>3. CASE out.kind = "Exit" /\ Len(left.stack) > 1
      <4>1. q = SubSeq(left.stack, 1, Len(left.stack) - 1)
        BY <3>3 DEF Front
      <4> QED BY <4>1, <3>1, <3>3
    <3>4. CASE out.kind = "Exit" /\ ~(Len(left.stack) > 1)
      <4>1. q = <<ScreenAfterExit(left, Last(left.stack))>>
        BY <3>4
      <4>2. ScreenAfterExit(left, Last(left.stack)) \in ScreenNames
        BY DEF ScreenAfterExit, OrdinaryInitialScreen, ScreenNames
      <4>3. \A x \in ScreenNames : <<x>> \in Seq(ScreenNames) /\ <<x>> # <<>>
        OBVIOUS
      <4> HIDE DEF q
      <4> QED BY <4>1, <4>2, <4>3
    <3> QED BY <3>2, <3>3, <3>4, <1>7
  <2> HIDE DEF left, q
  <2>5. Proper(moved) /\ Carries(left, moved)
    BY <2>2, <2>4, StackKeeps
  <2> HIDE DEF moved
  <2>6. Proper(v) /\ Carries(moved, v) /\ v.dirty = TRUE
    BY <2>3, <2>5, EnterKeeps
  <2>7. Carries(u, v)
    BY <1>3, <1>4, <2>2, <2>5, <2>6
  <2> QED BY <2>6, <2>7 DEF t
<1>8. CASE g = "NONE" \/ (~shortcut /\ out.kind \in {"Stay", "Ignored"})
  <2>1. v = IF due THEN Ticked(after, ok) ELSE after
    BY <1>8 DEF UpdateActiveScreen, t, out, after
  <2>2. after.dirty \/ after.scr[t] = u.scr[t]
    BY <1>3, <1>8
  <2>3. CASE ~due
    BY <2>1, <2>2, <2>3, <1>3 DEF t
  <2>4. CASE due
    <3>1. Proper(v) /\ Carries(after, v) /\ (v.dirty \/ v = after)
      BY <2>1, <2>4, <1>3, TickedKeeps
    <3>2. Carries(u, v)
      BY <3>1, <1>3, <1>4
    <3> QED BY <3>1, <3>2, <2>2, <1>3 DEF t
  <2> QED BY <2>3, <2>4
<1>9. out.kind \in {"Stay", "Ignored", "Push", "Exit"}
  BY <1>2 DEF Fits
<1> QED BY <1>6, <1>7, <1>8, <1>9

------------------------------------------------------------------------------
(* What the bar and the drawing do.                                        *)

\* A step that leaves the screens alone.
Shows(u, v) ==
  /\ DOMAIN v = HostFields /\ DOMAIN v.display = {"picture", "bar"}
  /\ v.stack = u.stack /\ v.scr = u.scr /\ v.listed = u.listed /\ v.canvas = u.canvas
  /\ v.compose = u.compose
  /\ v.settled = u.settled /\ {v.dirty, v.prevShowChrome, v.barDirty} \subseteq BOOLEAN

LEMMA ShowsKeeps ==
  ASSUME NEW u, Proper(u), NEW v, Shows(u, v)
  PROVE  /\ Proper(v) /\ Top(v) = Top(u)
         /\ ScreenView(v, Top(u)) = ScreenView(u, Top(u)) /\ Hints(v, Top(u)) = Hints(u, Top(u))
<1>1. \A s \in Menus : Items(v, s) = Items(u, s)
  BY DEF Items, Shows
<1>2. Proper(v)
  BY <1>1 DEF Proper, Shows
<1> QED BY <1>2, SameView DEF Shows, Top

LEMMA BarDrawnShows ==
  ASSUME NEW u, Proper(u)
  PROVE  LET v == BarDrawn(u)
         IN /\ Shows(u, v) /\ v.edge = u.edge
            /\ v.hints = u.hints /\ v.dirty = u.dirty /\ v.prevShowChrome = u.prevShowChrome
            /\ v.display.picture = u.display.picture
            /\ u.compose => /\ v.barDirty = FALSE /\ v.painted = u.hints
                            /\ v.display.bar = <<u.edge, u.hints>>
            /\ ~u.compose => v = u
<1>1. CASE u.compose
  BY <1>1 DEF BarDrawn, Proper, Shows, HostFields
<1>2. CASE ~u.compose
  BY <1>2 DEF BarDrawn, Proper, Shows
<1> QED BY <1>1, <1>2

LEMMA PresentedKeeps ==
  ASSUME NEW u, Proper(u)
  PROVE  LET v == OnPresented(u)
         IN /\ Proper(v) /\ Carries(u, v) /\ v.stack = u.stack
            /\ ScreenView(v, Top(u)) = ScreenView(u, Top(u))
            /\ Hints(v, Top(u)) = Hints(u, Top(u))
<1> DEFINE v == OnPresented(u)
           s == Top(u)
<1>1. DOMAIN u = HostFields /\ DOMAIN u.scr = ScreenNames /\ u.dirty \in BOOLEAN
  BY DEF Proper
<1>2. CASE v = u
  BY <1>1, <1>2 DEF Carries
<1>3. CASE v # u
  <2>1. s \in StorageScreens /\ v = [u EXCEPT !.scr[s].presented = TRUE]
    BY <1>3 DEF OnPresented, StorageScreens
  <2> DEFINE x == [u.scr[s] EXCEPT !.presented = TRUE]
  <2>2. v = [u EXCEPT !.scr[s] = x]
    BY <2>1
  <2>3. DOMAIN u.scr[s] = {"stage", "presented"}
    BY <2>1 DEF Proper
  <2>4. x.stage = u.scr[s].stage /\ DOMAIN x = {"stage", "presented"}
    BY <2>3
  <2>5. s \in ScreenNames
    BY <2>1 DEF StorageScreens, ScreenNames
  <2> HIDE DEF v, x, s
  <2>6. Carries(u, v) /\ v.stack = u.stack /\ v.scr = [u.scr EXCEPT ![s] = x]
    BY <1>1, <2>2 DEF Carries, HostFields
  <2>7. StateFits(u, s, x)
    BY <2>1, <2>4 DEF StateFits, Menus, StorageScreens
  <2>8. DOMAIN v.scr = ScreenNames /\ \A q \in ScreenNames : StateFits(u, q, v.scr[q])
    BY <1>1, <2>6, <2>7, ProperFits
  <2>9. Proper(v)
    BY <2>6, <2>8, ProperKept DEF Proper
  <2>10. v.scr[s].stage = u.scr[s].stage
    BY <1>1, <2>4, <2>5, <2>6
  <2>11. ScreenView(v, s) = ScreenView(u, s) /\ Hints(v, s) = Hints(u, s)
    BY <2>1, <2>10, StageView
  <2> QED BY <2>6, <2>9, <2>11 DEF v, s
<1> QED BY <1>2, <1>3

LEMMA DrawnKeeps ==
  ASSUME NEW u, Proper(u)
  PROVE  LET v == DrawContent(u)
         IN /\ Proper(v) /\ v.stack = u.stack /\ v.canvas = u.canvas /\ v.edge = u.edge
            /\ v.compose = u.compose /\ (Unpainted(u) => Unpainted(v))
            /\ v.barDirty = u.barDirty /\ v.painted = u.painted /\ v.settled = u.settled
            /\ Hints(v, Top(u)) = Hints(u, Top(u))
            /\ u.canvas =>
                 /\ v.display.picture = <<u.edge, ScreenView(v, Top(u))>>
                 /\ v.display.bar = IF WantsStatusBar(Top(u)) THEN u.display.bar ELSE Covered
<1> DEFINE w == [u EXCEPT !.display.picture = <<u.edge, ScreenView(u, Top(u))>>,
                          !.display.bar = IF WantsStatusBar(Top(u)) THEN @ ELSE Covered]
           v == DrawContent(u)
<1>1. CASE ~u.canvas
  BY <1>1 DEF DrawContent, Proper
<1>2. CASE u.canvas
  <2>1. v = OnPresented(w)
    BY <1>2 DEF DrawContent
  <2>2. DOMAIN u = HostFields /\ DOMAIN u.display = {"picture", "bar"}
    BY DEF Proper
  <2>3. /\ w.display.picture = <<u.edge, ScreenView(u, Top(u))>>
        /\ w.display.bar = IF WantsStatusBar(Top(u)) THEN u.display.bar ELSE Covered
        /\ w.edge = u.edge /\ w.canvas = u.canvas /\ w.painted = u.painted
        /\ w.barDirty = u.barDirty /\ w.stack = u.stack /\ w.settled = u.settled
        /\ w.compose = u.compose
    BY <2>2 DEF HostFields
  <2>4. Shows(u, w)
    BY <2>2 DEF Shows, HostFields, Proper
  <2> HIDE DEF w, v
  <2>5. /\ Proper(w) /\ Top(w) = Top(u)
        /\ ScreenView(w, Top(u)) = ScreenView(u, Top(u)) /\ Hints(w, Top(u)) = Hints(u, Top(u))
    BY <2>4, ShowsKeeps
  <2>6. /\ Proper(v) /\ Carries(w, v) /\ v.stack = w.stack
        /\ ScreenView(v, Top(w)) = ScreenView(w, Top(w))
        /\ Hints(v, Top(w)) = Hints(w, Top(w))
    BY <2>1, <2>5, PresentedKeeps
  <2>7. /\ v.stack = u.stack /\ v.canvas = u.canvas /\ v.edge = u.edge /\ v.settled = u.settled
        /\ v.barDirty = u.barDirty /\ v.painted = u.painted /\ v.display = w.display
        /\ v.compose = u.compose
    BY <2>3, <2>6 DEF Carries
  <2>8. Unpainted(u) => Unpainted(v)
    BY <2>3, <2>7 DEF Unpainted
  <2> QED BY <2>3, <2>5, <2>6, <2>7, <2>8 DEF v
<1> QED BY <1>1, <1>2 DEF Proper

LEMMA LayoutKeeps ==
  ASSUME NEW u, Proper(u)
  PROVE  LET v == OnLayoutChanged(u) IN Proper(v) /\ Carries(u, v) /\ v.stack = u.stack
<1> DEFINE v == OnLayoutChanged(u)
<1>1. DOMAIN u = HostFields /\ DOMAIN u.scr = ScreenNames /\ u.dirty \in BOOLEAN
  BY DEF Proper
<1>2. CASE v = u
  BY <1>1, <1>2 DEF Carries
<1>3. CASE v # u
  <2> DEFINE x == [u.scr["tips"] EXCEPT !.rotation = TRUE]
  <2>1. v = [u EXCEPT !.scr["tips"] = x]
    BY <1>3 DEF OnLayoutChanged
  <2> HIDE DEF v, x
  <2>2. Carries(u, v) /\ v.stack = u.stack /\ v.scr = [u.scr EXCEPT !["tips"] = x]
    BY <1>1, <2>1 DEF Carries, HostFields
  <2>3. StateFits(u, "tips", x)
    BY DEF StateFits, Menus, StorageScreens
  <2>4. DOMAIN v.scr = ScreenNames /\ \A q \in ScreenNames : StateFits(u, q, v.scr[q])
    BY <1>1, <2>2, <2>3, ProperFits
  <2>5. Proper(v)
    BY <2>2, <2>4, ProperKept DEF Proper
  <2> QED BY <2>2, <2>5 DEF v
<1> QED BY <1>2, <1>3

\* The picture is current and the bar is the screen's or covered; the bar's
\* hints are current too unless the device was turned in the same update.
Shown(u, d, rotated) ==
  /\ Proper(d) /\ d.stack = u.stack /\ d.canvas = u.canvas /\ d.compose = u.compose
  /\ Unpainted(d)
  /\ u.canvas =>
       /\ d.display.picture = <<d.edge, ScreenView(d, Top(u))>>
       /\ IF WantsStatusBar(Top(u)) THEN d.barDirty \/ d.display.bar = <<d.edge, d.painted>>
          ELSE d.display.bar = Covered
       /\ ~rotated /\ u.compose /\ WantsStatusBar(Top(u)) => d.display.bar = <<d.edge, Hints(d, Top(u))>>

LEMMA BarUpdatedKeeps ==
  ASSUME NEW u, Proper(u), Unpainted(u),
         u.canvas => u.barDirty \/ u.display.bar = <<u.edge, u.painted>>
  PROVE  LET v == BarUpdated(u)
         IN /\ Shows(u, v) /\ v.edge = u.edge /\ v.dirty = u.dirty
            /\ v.display.picture = u.display.picture
            /\ u.canvas /\ u.compose => v.display.bar = <<u.edge, u.hints>>
            /\ u.compose => v.painted = u.hints
            /\ Unpainted(v)
<1> DEFINE v == BarUpdated(u)
<1>1. CASE u.barDirty \/ u.painted # u.hints
  BY <1>1, BarDrawnShows DEF BarUpdated, Unpainted, Shows
<1>2. CASE ~u.barDirty /\ u.painted = u.hints
  BY <1>2 DEF BarUpdated, Shows, Proper
<1> QED BY <1>1, <1>2 DEF Proper

LEMMA SyncKeeps ==
  ASSUME NEW u, Proper(u), BarKept(u), NEW rotated \in BOOLEAN,
         u.canvas /\ ~rotated /\ WantsStatusBar(Top(u)) = u.prevShowChrome =>
           u.dirty \/ u.display.picture = <<u.edge, ScreenView(u, Top(u))>>,
         WantsStatusBar(Top(u)) => u.hints = Hints(u, Top(u))
  PROVE  LET v == SyncLayoutAndDraw(u, rotated)
         IN /\ Shown(u, v, rotated) /\ v.dirty = FALSE
            /\ v.prevShowChrome = WantsStatusBar(Top(u))
<1> DEFINE visible == WantsStatusBar(Top(u))
           laid == IF rotated THEN OnLayoutChanged(u) ELSE u
           barred == IF visible THEN BarDrawn(laid) ELSE laid
           relaid == DrawContent(barred)
           shown == IF visible THEN BarUpdated(u) ELSE u
           drawn == IF rotated \/ visible # u.prevShowChrome THEN relaid
                    ELSE IF shown.dirty THEN DrawContent(shown) ELSE shown
           v == SyncLayoutAndDraw(u, rotated)
<1>1. visible \in BOOLEAN /\ u.prevShowChrome \in BOOLEAN /\ u.canvas \in BOOLEAN
      /\ u.compose \in BOOLEAN /\ Unpainted(u)
  BY DEF Proper, WantsStatusBar, BarKept
<1>2. v = [drawn EXCEPT !.dirty = FALSE, !.prevShowChrome = visible]
  BY DEF SyncLayoutAndDraw
<1>3. /\ Proper(laid) /\ laid.stack = u.stack /\ laid.canvas = u.canvas /\ laid.edge = u.edge
      /\ laid.hints = u.hints /\ Top(laid) = Top(u) /\ (~rotated => laid = u)
      /\ laid.compose = u.compose /\ Unpainted(laid)
  BY <1>1, LayoutKeeps DEF Carries, Top, Unpainted
<1> HIDE DEF laid, visible
<1>4. ASSUME rotated \/ visible # u.prevShowChrome PROVE Shown(u, drawn, rotated)
  <2>1. /\ Proper(barred) /\ barred.stack = u.stack /\ barred.canvas = u.canvas
        /\ barred.edge = u.edge /\ Top(barred) = Top(u) /\ barred.compose = u.compose
        /\ Unpainted(barred)
        /\ visible /\ u.compose =>
             barred.display.bar = <<u.edge, u.hints>> /\ barred.painted = u.hints
        /\ ~rotated => Hints(barred, Top(u)) = Hints(u, Top(u))
    <3>1. CASE visible
      <4>1. /\ Shows(laid, barred) /\ barred.edge = laid.edge
            /\ laid.compose => /\ barred.painted = laid.hints
                               /\ barred.display.bar = <<laid.edge, laid.hints>>
            /\ ~laid.compose => barred = laid
        BY <3>1, <1>3, BarDrawnShows
      <4> HIDE DEF barred
      <4>2. /\ Proper(barred) /\ Top(barred) = Top(laid)
            /\ Hints(barred, Top(laid)) = Hints(laid, Top(laid))
        BY <4>1, <1>3, ShowsKeeps
      <4>3. Unpainted(barred) /\ barred.compose = u.compose
        BY <4>1, <1>3 DEF Shows, Unpainted
      <4> QED BY <4>1, <4>2, <4>3, <1>3, <3>1 DEF Shows
    <3>2. CASE ~visible
      BY <3>2, <1>3
    <3> QED BY <3>1, <3>2
  <2> HIDE DEF barred
  <2>2. /\ Proper(relaid) /\ relaid.stack = u.stack /\ relaid.canvas = u.canvas
        /\ relaid.edge = u.edge /\ relaid.painted = barred.painted
        /\ relaid.compose = u.compose /\ Unpainted(relaid)
        /\ Hints(relaid, Top(u)) = Hints(barred, Top(u))
        /\ u.canvas =>
             /\ relaid.display.picture = <<u.edge, ScreenView(relaid, Top(u))>>
             /\ relaid.display.bar = IF visible THEN barred.display.bar ELSE Covered
    BY <2>1, DrawnKeeps DEF visible
  <2> HIDE DEF relaid
  <2>3. Shown(u, relaid, rotated)
    BY <2>1, <2>2, <1>1 DEF Shown, visible, Unpainted
  <2> QED BY <2>3, <1>4
<1>5. ASSUME ~rotated, visible = u.prevShowChrome PROVE Shown(u, drawn, rotated)
  <2>1. u.canvas => IF visible THEN u.barDirty \/ u.display.bar = <<u.edge, u.painted>>
                    ELSE u.display.bar = Covered
    BY <1>5 DEF BarKept
  <2>2. /\ Shows(u, shown) /\ shown.edge = u.edge /\ shown.dirty = u.dirty
        /\ shown.display.picture = u.display.picture
        /\ u.canvas /\ u.compose =>
             shown.display.bar = IF visible THEN <<u.edge, u.hints>> ELSE Covered
        /\ visible /\ u.compose => shown.painted = u.hints
        /\ Unpainted(shown)
    <3>1. CASE visible
      BY <3>1, <2>1, <1>1, BarUpdatedKeeps
    <3>2. CASE ~visible
      BY <3>2, <2>1, <1>1 DEF Shows, Proper
    <3> QED BY <3>1, <3>2
  <2> HIDE DEF shown
  <2>3. /\ Proper(shown) /\ Top(shown) = Top(u) /\ shown.stack = u.stack
        /\ shown.canvas = u.canvas /\ shown.compose = u.compose
        /\ ScreenView(shown, Top(u)) = ScreenView(u, Top(u))
        /\ Hints(shown, Top(u)) = Hints(u, Top(u))
    BY <2>2, ShowsKeeps DEF Shows
  <2>4. CASE shown.dirty
    <3> DEFINE d == DrawContent(shown)
    <3>1. /\ Proper(d) /\ d.stack = u.stack /\ d.canvas = u.canvas
          /\ d.edge = u.edge /\ d.painted = shown.painted
          /\ d.compose = u.compose /\ Unpainted(d)
          /\ Hints(d, Top(u)) = Hints(u, Top(u))
          /\ u.canvas =>
               /\ d.display.picture = <<u.edge, ScreenView(d, Top(u))>>
               /\ d.display.bar = IF visible THEN shown.display.bar ELSE Covered
      BY <2>2, <2>3, DrawnKeeps DEF visible
    <3>2. drawn = d
      BY <2>4, <1>5
    <3> HIDE DEF d, drawn
    <3>3. Shown(u, d, rotated)
      BY <3>1, <2>2, <1>1 DEF Shown, visible, Unpainted
    <3> QED BY <3>2, <3>3
  <2>5. CASE ~shown.dirty
    <3>1. drawn = shown
      BY <2>5, <1>5
    <3>2. u.canvas => shown.display.picture = <<u.edge, ScreenView(u, Top(u))>>
      BY <2>2, <2>5, <1>5 DEF visible
    <3> HIDE DEF drawn
    <3>3. Shown(u, shown, rotated)
      BY <3>2, <2>2, <2>3, <1>1 DEF Shown, visible, Unpainted
    <3> QED BY <3>1, <3>3
  <2> QED BY <2>4, <2>5
<1>6. Shown(u, drawn, rotated) => Shown(u, v, rotated) /\ v.dirty = FALSE /\ v.prevShowChrome = visible
  <2> SUFFICES ASSUME Shown(u, drawn, rotated)
               PROVE  Shown(u, v, rotated) /\ v.dirty = FALSE /\ v.prevShowChrome = visible
    OBVIOUS
  <2>1. Proper(drawn) /\ drawn.stack = u.stack
    BY DEF Shown
  <2> HIDE DEF drawn, v
  <2>2. /\ Shows(drawn, v) /\ v.dirty = FALSE /\ v.prevShowChrome = visible
        /\ v.display = drawn.display /\ v.edge = drawn.edge /\ v.painted = drawn.painted
        /\ v.barDirty = drawn.barDirty
    BY <2>1, <1>1, <1>2 DEF Shows, Proper, HostFields
  <2>3. Top(drawn) = Top(u)
    BY <2>1 DEF Top
  <2>4. /\ Proper(v) /\ ScreenView(v, Top(u)) = ScreenView(drawn, Top(u))
        /\ Hints(v, Top(u)) = Hints(drawn, Top(u))
    BY <2>1, <2>2, <2>3, ShowsKeeps
  <2> QED BY <2>2, <2>4 DEF Shown, Shows, Unpainted
<1>7. Shown(u, drawn, rotated)
  BY <1>4, <1>5
<1> QED BY <1>6, <1>7 DEF visible

------------------------------------------------------------------------------
(* The invariant.                                                          *)
LEMMA BootedInv ==
  ASSUME NEW flash, NEW target, NEW armed, NEW entered \in BOOLEAN, NEW canvas \in BOOLEAN,
         NEW compose \in BOOLEAN, NEW w,
         w = Booted(flash, target, armed, entered, canvas, compose)
  PROVE  PanelRests(w)
<1> DEFINE first == IF ~entered THEN "recovery" ELSE IF flash THEN "live" ELSE "tips"
           u == [stack |-> <<first>>,
                 scr |-> [menu |-> 1, diagnostics |-> 1, live |-> "Live", tips |-> FirstCard,
                          target |-> Seed([target |-> target, armed |-> armed]),
                          recovery |-> [stage |-> "Notice", presented |-> FALSE],
                          erase |-> [stage |-> "Confirm", presented |-> FALSE]],
                 toured |-> flash, flash |-> flash, target |-> target, armed |-> armed,
                 listed |-> ~entered, canvas |-> canvas, compose |-> compose,
                 edge |-> "Bottom", dirty |-> TRUE, prevShowChrome |-> TRUE,
                 hints |-> <<"icons">>, painted |-> <<"icons">>, barDirty |-> TRUE,
                 display |-> [picture |-> NoPicture, bar |-> Covered],
                 settled |-> FALSE]
           e == EnterScreen(u)
           d == DrawContent(e)
<1>1. w = [d EXCEPT !.dirty = ~canvas, !.prevShowChrome = WantsStatusBar(first)]
  BY DEF Booted
<1>2. first \in ScreenNames
  BY DEF ScreenNames
<1> HIDE DEF first
<1>3. /\ DOMAIN u = HostFields /\ DOMAIN u.scr = ScreenNames
      /\ DOMAIN u.display = {"picture", "bar"}
  BY DEF HostFields, ScreenNames
<1>4. u.stack \in Seq(ScreenNames) /\ u.stack # <<>> /\ Top(u) = first
  BY <1>2 DEF Top, Last
<1>5. \A s \in Menus : u.scr[s] = 1
  BY DEF Menus
<1>6. \A s \in StorageScreens : DOMAIN u.scr[s] = {"stage", "presented"}
  BY DEF StorageScreens
<1>7. u.canvas = canvas /\ u.dirty = TRUE /\ u.prevShowChrome = TRUE /\ u.barDirty = TRUE
      /\ u.settled = FALSE /\ u.compose = compose /\ Unpainted(u)
  BY DEF Unpainted
<1> HIDE DEF u
<1>8. Proper(u)
  <2>1. \A s \in Menus : 1 \in 1 .. Len(Items(u, s))
    BY MenuItems
  <2>2. {u.dirty, u.prevShowChrome, u.barDirty, u.canvas, u.compose} \subseteq BOOLEAN
    BY <1>7
  <2> QED BY <1>3, <1>4, <1>5, <1>6, <2>1, <2>2 DEF Proper
<1> HIDE DEF e, d
<1>9. Proper(e) /\ Carries(u, e) /\ Top(e) = first /\ e.stack = u.stack
  BY <1>4, <1>8, EnterKeeps DEF e, Top
<1>10. /\ Proper(d) /\ d.stack = e.stack /\ d.canvas = canvas /\ d.edge = e.edge
       /\ d.barDirty = TRUE /\ d.settled = FALSE /\ Unpainted(d)
       /\ canvas => /\ d.display.picture = <<d.edge, ScreenView(d, first)>>
                    /\ d.display.bar = IF WantsStatusBar(first) THEN e.display.bar ELSE Covered
  <2>1. Unpainted(e)
    BY <1>7, <1>9 DEF Unpainted, Carries
  <2> QED BY <1>7, <1>9, <2>1, DrawnKeeps DEF d, Carries
<1>11. WantsStatusBar(first) \in BOOLEAN
  BY DEF WantsStatusBar
<1>12. /\ Shows(d, w) /\ w.dirty = ~canvas /\ w.prevShowChrome = WantsStatusBar(first)
       /\ w.display = d.display /\ w.edge = d.edge /\ w.barDirty = d.barDirty
  BY <1>1, <1>10, <1>11 DEF Shows, Proper, HostFields
<1>13. Top(d) = first
  BY <1>9, <1>10 DEF Top
<1>14. Proper(w) /\ Top(w) = first /\ ScreenView(w, first) = ScreenView(d, first)
  BY <1>10, <1>12, <1>13, ShowsKeeps
<1>15. BarKept(w) /\ PictureKept(w)
  BY <1>10, <1>12, <1>14 DEF BarKept, PictureKept, Shows, Unpainted
<1>16. ShowsActive(w)
  BY <1>10, <1>12 DEF ShowsActive, Shows
<1> QED BY <1>12, <1>14, <1>15, <1>16 DEF PanelRests

LEMMA HostKeeps ==
  ASSUME PanelInv, NEW g \in Gestures, NEW rotated \in BOOLEAN, NEW due \in BOOLEAN,
         NEW ok \in BOOLEAN, HostUpdate(g, rotated, due, ok)
  PROVE  PanelInv'
<1> DEFINE u == Turned(ui, rotated)
           v == UpdateActiveScreen(u, g, due, ok)
           c == SyncChrome(v)
           d == SyncLayoutAndDraw(c, rotated)
<1>1. ui' = [d EXCEPT !.settled = ~rotated]
  BY DEF HostUpdate
<1>2. Proper(ui) /\ BarKept(ui) /\ PictureKept(ui) /\ ui.prevShowChrome = WantsStatusBar(Top(ui))
  BY DEF PanelInv, PanelRests
<1>3. /\ Shows(ui, u) /\ u.display = ui.display /\ u.painted = ui.painted
      /\ u.prevShowChrome = ui.prevShowChrome /\ u.dirty = ui.dirty
      /\ (ui.barDirty => u.barDirty)
      /\ rotated => u.barDirty = TRUE
      /\ ~rotated => u = ui
  BY <1>2 DEF Turned, Shows, Proper, HostFields
<1>4. Proper(u) /\ Top(u) = Top(ui) /\ BarKept(u)
  BY <1>2, <1>3, ShowsKeeps DEF BarKept, Shows, Unpainted
<1> HIDE DEF u, v
<1>5. /\ Proper(v) /\ Carries(u, v)
      /\ v.dirty \/ (v.stack = u.stack /\ v.scr[Top(u)] = u.scr[Top(u)])
  BY <1>4, UpdateKeeps DEF v
<1>6. BarKept(v)
  BY <1>4, <1>5 DEF BarKept, Carries, Unpainted
<1>7. v.canvas /\ ~rotated => v.dirty \/ v.display.picture = <<v.edge, ScreenView(v, Top(v))>>
  <2> SUFFICES ASSUME v.canvas, ~rotated, ~v.dirty
               PROVE  v.display.picture = <<v.edge, ScreenView(v, Top(v))>>
    OBVIOUS
  <2>1. u.display.picture = <<u.edge, ScreenView(u, Top(u))>>
    BY <1>2, <1>3, <1>5 DEF PictureKept, Carries
  <2>2. Top(v) = Top(u) /\ v.scr[Top(u)] = u.scr[Top(u)]
    BY <1>5 DEF Top
  <2>3. ScreenView(v, Top(u)) = ScreenView(u, Top(u))
    BY <2>2, SameView
  <2> QED BY <2>1, <2>2, <2>3, <1>5 DEF Carries
<1>8. /\ Shows(v, c) /\ c.display = v.display /\ c.painted = v.painted /\ c.edge = v.edge
      /\ c.barDirty = v.barDirty /\ c.dirty = v.dirty /\ c.prevShowChrome = v.prevShowChrome
      /\ WantsStatusBar(Top(v)) => c.hints = Hints(v, Top(v))
  BY <1>5 DEF SyncChrome, Shows, Proper, HostFields
<1> HIDE DEF c
<1>9. /\ Proper(c) /\ Top(c) = Top(v) /\ ScreenView(c, Top(v)) = ScreenView(v, Top(v))
      /\ Hints(c, Top(v)) = Hints(v, Top(v))
  BY <1>5, <1>8, ShowsKeeps
<1>10. BarKept(c)
  BY <1>6, <1>8 DEF BarKept, Shows, Unpainted
<1>11. c.canvas /\ ~rotated => c.dirty \/ c.display.picture = <<c.edge, ScreenView(c, Top(c))>>
  BY <1>7, <1>8, <1>9 DEF Shows
<1>12. WantsStatusBar(Top(c)) => c.hints = Hints(c, Top(c))
  BY <1>8, <1>9
<1>13. Shown(c, d, rotated) /\ d.dirty = FALSE /\ d.prevShowChrome = WantsStatusBar(Top(c))
  BY <1>9, <1>10, <1>11, <1>12, SyncKeeps
<1> HIDE DEF d
<1>14. Proper(d) /\ Top(d) = Top(c)
  BY <1>13 DEF Shown, Top
<1>15. /\ DOMAIN ui' = HostFields /\ ui'.display = d.display /\ ui'.edge = d.edge
       /\ ui'.painted = d.painted /\ ui'.barDirty = d.barDirty /\ ui'.dirty = d.dirty
       /\ ui'.prevShowChrome = d.prevShowChrome /\ ui'.canvas = d.canvas
       /\ ui'.stack = d.stack /\ ui'.scr = d.scr /\ ui'.listed = d.listed
       /\ ui'.settled = ~rotated /\ ui'.compose = d.compose
  BY <1>1, <1>14 DEF Proper, HostFields
<1> DEFINE w == ui'
<1> HIDE DEF w
<1>16. Proper(w) /\ Top(w) = Top(c)
  <2>1. \A s \in Menus : Items(w, s) = Items(d, s)
    BY <1>15 DEF Items, w
  <2> QED BY <2>1, <1>14, <1>15 DEF Proper, Top, w
<1>17. ScreenView(w, Top(c)) = ScreenView(d, Top(c)) /\ Hints(w, Top(c)) = Hints(d, Top(c))
  BY <1>15, SameView DEF w
<1>18. BarKept(w) /\ PictureKept(w) /\ w.prevShowChrome = WantsStatusBar(Top(w))
  BY <1>13, <1>15, <1>16, <1>17 DEF Shown, BarKept, PictureKept, WantsStatusBar, Unpainted, w
<1>19. ShowsActive(w)
  BY <1>13, <1>15, <1>16, <1>17 DEF Shown, ShowsActive, Unpainted, w
<1> QED BY <1>16, <1>18, <1>19 DEF PanelInv, PanelRests, w

\* A buffer that is there at last changes nothing on the panel, and the bar is
\* still to be painted.
LEMMA FreedKeeps == PanelInv /\ MemoryFreed => PanelInv'
<1> SUFFICES ASSUME PanelInv, MemoryFreed PROVE PanelInv'
  OBVIOUS
<1> DEFINE w == ui'
           u == ui
<1>1. Proper(u) /\ BarKept(u) /\ PictureKept(u) /\ u.prevShowChrome = WantsStatusBar(Top(u))
  BY DEF PanelInv, PanelRests
<1>2. w = [u EXCEPT !.compose = TRUE, !.settled = FALSE] /\ ~u.compose
  BY DEF MemoryFreed
<1> HIDE DEF w, u
<1>3. /\ DOMAIN w = HostFields /\ w.stack = u.stack /\ w.scr = u.scr /\ w.listed = u.listed
      /\ w.canvas = u.canvas /\ w.edge = u.edge /\ w.dirty = u.dirty /\ w.compose = TRUE
      /\ w.prevShowChrome = u.prevShowChrome /\ w.barDirty = u.barDirty
      /\ w.painted = u.painted /\ w.display = u.display /\ w.settled = FALSE
  BY <1>1, <1>2 DEF Proper, HostFields
<1>4. Top(w) = Top(u) /\ ScreenView(w, Top(u)) = ScreenView(u, Top(u))
  BY <1>3, SameView DEF Top
<1>5. \A s \in Menus : Items(w, s) = Items(u, s)
  BY <1>3 DEF Items
<1>6. Proper(w)
  BY <1>1, <1>3, <1>5 DEF Proper
<1>7. BarKept(w) /\ PictureKept(w) /\ ShowsActive(w) /\ w.prevShowChrome = WantsStatusBar(Top(w))
  BY <1>1, <1>3, <1>4 DEF BarKept, PictureKept, ShowsActive, Unpainted
<1> QED BY <1>6, <1>7 DEF PanelInv, PanelRests, w

LEMMA ForegroundNextInv == PanelInv /\ [Foreground]_ui => PanelInv'
<1> SUFFICES ASSUME PanelInv, [Foreground]_ui PROVE PanelInv'
  OBVIOUS
<1>1. ASSUME NEW g \in Gestures, NEW rotated \in BOOLEAN,
             NEW due \in Chances({"target", "recovery", "erase", "live"}),
             NEW ok \in Chances({"target", "recovery", "erase", "tips", "live"}),
             HostUpdate(g, rotated, due, ok)
      PROVE  PanelInv'
  <2>1. due \in BOOLEAN /\ ok \in BOOLEAN
    BY DEF Chances
  <2> QED BY <1>1, <2>1, HostKeeps
<1>2. CASE Repower
  <2>1. \E entered, canvas, compose \in BOOLEAN : \E flash, target, armed :
          ui' = Booted(flash, target, armed, entered, canvas, compose)
    BY <1>2 DEF Repower
  <2> DEFINE w == ui'
  <2>2. PICK entered \in BOOLEAN, canvas \in BOOLEAN, compose \in BOOLEAN :
          \E flash, target, armed : w = Booted(flash, target, armed, entered, canvas, compose)
    BY <2>1
  <2>3. PICK flash, target, armed : w = Booted(flash, target, armed, entered, canvas, compose)
    BY <2>2
  <2> HIDE DEF w
  <2>4. PanelRests(w)
    BY <2>3, BootedInv
  <2> QED BY <2>4 DEF PanelInv, w
<1>3. CASE MemoryFreed
  BY <1>3, FreedKeeps
<1>4. CASE UNCHANGED ui
  BY <1>4 DEF PanelInv
<1> QED BY <1>1, <1>2, <1>3, <1>4 DEF Foreground

LEMMA ForegroundInitInv == ForegroundInit => PanelInv
BY BootedInv DEF ForegroundInit, PanelInv

(* After every update of the host the panel shows the active screen as it  *)
(* is now, with its bar or none, however gestures, ticks, turns and        *)
(* restarts follow each other (UiHost::update, Chrome).                    *)
THEOREM PanelIsActive == ForegroundSpec => []PanelShowsActive
<1>1. PanelInv => PanelShowsActive
  BY DEF PanelInv, PanelRests, ShowsActive, PanelShowsActive
<1> QED BY <1>1, ForegroundInitInv, ForegroundNextInv, PTL DEF ForegroundSpec

(***************************************************************************)
(* Part 2: PowerPolicy.                                                    *)
(***************************************************************************)
Keys == Pm1Keys \cup SensorKeys

WakeTypeOK ==
  /\ hw \in [Keys -> BOOLEAN] /\ faults \in Nat
  /\ phase \in {"run", "arm", "unwind", "asleep", "off", "boot"}
  /\ pc \in 1 .. Len(ArmSteps) /\ (phase = "unwind" => pc <= Len(UnwindSteps))

\* How far the arming has come: what an entry wrote stays until the power goes.
ArmedSoFar ==
  phase = "arm" =>
    /\ pc > 3 => hw["pin"]
    /\ pc > 4 => hw["hold"]
    /\ pc > 6 => hw["acc"]
    /\ pc > 7 => hw["motion"]
    /\ pc > 8 => hw["int1"]
    /\ pc > 9 => ~ hw["data"]
    /\ pc > 10 => hw["lowPower"]
    /\ pc > 12 => hw["aps"]
    /\ pc > 13 => hw["armed"]

\* How far a sequence in which no transfer has failed has taken it back.
UnwoundSoFar ==
  (phase \in {"unwind", "boot"} /\ faults = 0) =>
    /\ pc > 2 => ~ hw["armed"]
    /\ pc > 4 => ~ hw["hold"]

\* While the loop runs, nothing is armed: a boot undoes what it finds.
RunsUnarmed == (phase = "run" /\ faults = 0) => ~ hw["hold"] /\ ~ hw["armed"]

PowerInv == WakeTypeOK /\ ArmedSoFar /\ UnwoundSoFar /\ RunsUnarmed /\ DownAsIntended

\* A ring holds events that were recorded, the oldest first, none of them
\* cleared, each with the time of its own boot or none.
LogEvent == [kind : {"Wake", "Sleep"}, utc : Nat, boot : Nat, number : Nat]
Truthful(log) ==
  \A i \in 1 .. Len(log) :
    /\ log[i].number > cleared /\ log[i].number <= count
    /\ log[i].utc \in {0, log[i].boot}
    /\ \A j \in 1 .. (i - 1) : log[j].number < log[i].number

\* The newest event in memory is of the boot that runs, so that the time it is
\* given late is the time of its own boot.
NewestIsOfThisBoot == items # <<>> => items[Len(items)].boot = boot

LogInv ==
  /\ items \in Seq(LogEvent) /\ stored \in Seq(LogEvent)
  /\ boot \in Nat /\ count \in Nat /\ cleared \in 0 .. count
  /\ Truthful(items) /\ Truthful(stored) /\ NewestIsOfThisBoot
------------------------------------------------------------------------------
(* What a step of the program does to the chips and to the log.            *)
WakeStep ==
  \/ UNCHANGED <<hw, phase, pc>>
  \/ ArmStep \/ UnwindStep \/ BootStep
  \/ phase = "run" /\ BeginArming /\ UNCHANGED hw
  \/ phase = "boot" /\ pc > Len(UnwindSteps) /\ phase' = "run" /\ UNCHANGED hw /\ pc' = 1
  \/ HardOff \/ PowerUp

LogStep ==
  \/ UNCHANGED <<items, stored, boot, count, cleared>>
  \/ \E opened, ok \in BOOLEAN : RecordWake(opened, ok)
  \/ \E ok \in BOOLEAN : recordSleepEvent(ok)
  \/ LogLost \/ backfillWakeTimestamp \/ ClearLog

LEMMA CountGrows ==
  ASSUME faults \in Nat, NEW oks, Count(oks)
  PROVE  faults' \in Nat /\ faults' >= faults
BY DEF Count

LEMMA StepsAre ==
  ASSUME faults \in Nat, [Next]_vars
  PROVE  WakeStep /\ LogStep /\ faults' \in Nat /\ faults' >= faults
<1> USE DEF vars, wakeVars, logVars, policyVars, memory
<1>1. CASE Update
  BY <1>1, CountGrows DEF Update, performShutdown, WakeStep, LogStep
<1>2. CASE IdleTick \/ BatteryTick \/ ButtonTick
  BY <1>2 DEF IdleTick, BatteryTick, ButtonTick, WakeStep, LogStep
<1>3. CASE notifyActivity \/ keepAwake \/ setForegroundFullPerformanceRequired
  BY <1>3, CountGrows DEF notifyActivity, keepAwake, Activity, setForegroundFullPerformanceRequired,
     WakeStep, LogStep
<1>4. CASE External(KeyDown) \/ KeyUp \/ External(BatteryChanges)
  BY <1>4 DEF External, KeyDown, KeyUp, BatteryChanges, WakeStep, LogStep
<1>5. CASE External(Shakes)
  BY <1>5 DEF External, Shakes, Moves, WakeStep, LogStep
<1>6. CASE DoubleClickOff
  BY <1>6 DEF DoubleClickOff, WakeStep, LogStep
<1>7. CASE Wakes \/ ResetsIt
  BY <1>7 DEF External, Wakes, ResetsIt, Boots, MotionBoots, ButtonBoots, Resets, WakeStep, LogStep
<1>8. CASE Lowering
  BY <1>8, CountGrows DEF Lowering, ArmStep, UnwindStep, BootStep, Outcome, WakeStep, LogStep
<1>9. CASE EndBoot
  BY <1>9, CountGrows DEF EndBoot, WakeStep, LogStep
<1>10. CASE Logging
  <2>1. CASE StartSntp /\ UNCHANGED <<wakeVars, policyVars>>
    BY <2>1 DEF StartSntp, WakeStep, LogStep
  <2>2. CASE External(SntpSyncs) /\ UNCHANGED <<wakeVars, memory, battery, key, cause>>
    BY <2>2 DEF External, SntpSyncs, WakeStep, LogStep
  <2>3. CASE backfillWakeTimestamp /\ UNCHANGED <<hw, phase, pc, moving, policyVars>>
    <3>1. faults' \in Nat /\ faults' >= faults
      <4>1. (\E oks : Count(oks)) \/ faults' = faults
        BY <2>3 DEF backfillWakeTimestamp
      <4> QED BY <4>1, CountGrows
    <3> QED BY <2>3, <3>1 DEF WakeStep, LogStep
  <2> QED BY <1>10, <2>1, <2>2, <2>3 DEF Logging
<1>11. CASE Clears
  BY <1>11, CountGrows DEF Clears, External, ClearLog, WakeStep, LogStep
<1>12. CASE UNCHANGED vars
  BY <1>12 DEF WakeStep, LogStep
<1> QED BY <1>1, <1>2, <1>3, <1>4, <1>5, <1>6, <1>7, <1>8, <1>9, <1>10, <1>11, <1>12 DEF Next

------------------------------------------------------------------------------
(* The log.                                                                *)
LEMMA RingTruthful ==
  ASSUME NEW ring \in Seq(LogEvent), NEW e \in LogEvent, count \in Nat, cleared \in 0 .. count,
         Truthful(ring), e.number = count + 1, e.utc \in {0, e.boot}, CapAssumption
  PROVE  LET r == Ring(ring, e)
         IN /\ r \in Seq(LogEvent) /\ r # <<>> /\ r[Len(r)] = e
            /\ \A i \in 1 .. Len(r) :
                 /\ r[i].number > cleared /\ r[i].number <= count + 1
                 /\ r[i].utc \in {0, r[i].boot}
                 /\ \A j \in 1 .. (i - 1) : r[j].number < r[i].number
<1> DEFINE kept == IF Len(ring) < Cap THEN ring ELSE Tail(ring)
           r == Append(kept, e)
<1>1. Len(ring) < Cap \/ ring # <<>>
  BY CapAssumption
<1>2. kept \in Seq(LogEvent)
  BY <1>1
<1>3. \E k \in {0, 1} : /\ Len(kept) = Len(ring) - k
                        /\ \A i \in 1 .. Len(kept) : kept[i] = ring[i + k]
  <2>1. CASE Len(ring) < Cap
    BY <2>1
  <2>2. CASE ~(Len(ring) < Cap)
    <3>1. ring # <<>> /\ kept = Tail(ring)
      BY <2>2, <1>1
    <3>2. Len(kept) = Len(ring) - 1 /\ \A i \in 1 .. Len(kept) : kept[i] = ring[i + 1]
      BY <3>1
    <3> QED BY <3>2
  <2> QED BY <2>1, <2>2
<1> HIDE DEF kept
<1>4. PICK k \in {0, 1} : /\ Len(kept) = Len(ring) - k
                          /\ \A i \in 1 .. Len(kept) : kept[i] = ring[i + k]
  BY <1>3
<1>5. \A i \in 1 .. Len(kept) : i + k \in 1 .. Len(ring)
  BY <1>2, <1>4
<1>6. ASSUME NEW i \in 1 .. Len(kept)
      PROVE  /\ kept[i].number > cleared /\ kept[i].number <= count
             /\ kept[i].utc \in {0, kept[i].boot}
             /\ \A j \in 1 .. (i - 1) : kept[j].number < kept[i].number
  <2>1. i + k \in 1 .. Len(ring) /\ kept[i] = ring[i + k]
    BY <1>4, <1>5
  <2>2. ASSUME NEW j \in 1 .. (i - 1) PROVE kept[j].number < kept[i].number
    <3>1. j \in 1 .. Len(kept) /\ j + k \in 1 .. (i + k - 1)
      BY <1>2, <1>4
    <3>2. kept[j] = ring[j + k]
      BY <3>1, <1>4
    <3> QED BY <2>1, <3>1, <3>2 DEF Truthful
  <2> QED BY <2>1, <2>2 DEF Truthful
<1>7. /\ r \in Seq(LogEvent) /\ Len(r) = Len(kept) + 1 /\ r[Len(kept) + 1] = e
      /\ \A i \in 1 .. Len(kept) : r[i] = kept[i] /\ kept[i].number \in Nat
  <2>1. \A i \in 1 .. Len(kept) : kept[i] \in LogEvent
    BY <1>2
  <2>2. \A i \in 1 .. Len(kept) : kept[i].number \in Nat
    BY <2>1 DEF LogEvent
  <2>3. /\ r \in Seq(LogEvent) /\ Len(r) = Len(kept) + 1 /\ r[Len(kept) + 1] = e
        /\ \A i \in 1 .. Len(kept) : r[i] = kept[i]
    BY <1>2
  <2> QED BY <2>2, <2>3
<1> HIDE DEF r
<1>8. ASSUME NEW i \in 1 .. Len(r)
      PROVE  /\ r[i].number > cleared /\ r[i].number <= count + 1
             /\ r[i].utc \in {0, r[i].boot}
             /\ \A j \in 1 .. (i - 1) : r[j].number < r[i].number
  <2>1. CASE i \in 1 .. Len(kept)
    <3>1. /\ r[i] = kept[i] /\ r[i].number > cleared /\ r[i].number <= count
          /\ r[i].utc \in {0, r[i].boot} /\ r[i].number \in Nat
      BY <2>1, <1>6, <1>7
    <3>2. \A j \in 1 .. (i - 1) : j \in 1 .. Len(kept) /\ r[j] = kept[j]
      BY <2>1, <1>2, <1>7
    <3>3. \A j \in 1 .. (i - 1) : r[j].number < r[i].number
      BY <2>1, <3>1, <3>2, <1>6
    <3> QED BY <3>1, <3>3
  <2>2. CASE i = Len(kept) + 1
    <3>1. \A j \in 1 .. (i - 1) : r[j].number <= count
      BY <2>2, <1>2, <1>6, <1>7
    <3>2. \A j \in 1 .. (i - 1) : r[j].number \in Nat
      BY <2>2, <1>2, <1>7
    <3> QED BY <2>2, <1>7, <3>1, <3>2
  <2> QED BY <2>1, <2>2, <1>2, <1>7
<1>9. r # <<>> /\ r[Len(r)] = e
  BY <1>2, <1>7
<1>10. r = Ring(ring, e)
  BY DEF Ring, r, kept
<1> QED BY <1>7, <1>8, <1>9, <1>10

LEMMA LogKeeps == LogInv /\ LogStep => LogInv'
<1> SUFFICES ASSUME LogInv, LogStep PROVE LogInv'
  OBVIOUS
<1> USE DEF LogInv
<1>1. Truthful(<<>>) /\ <<>> \in Seq(LogEvent)
  BY DEF Truthful
<1>2. CASE UNCHANGED <<items, stored, boot, count, cleared>>
  BY <1>2 DEF Truthful, NewestIsOfThisBoot
<1>3. ASSUME NEW ring \in Seq(LogEvent), Truthful(ring), NEW kind \in {"Wake", "Sleep"},
             NEW set, NEW ok, record(ring, Event(kind, set), ok), boot' = boot, cleared' = cleared
      PROVE  LogInv'
  <2> DEFINE e == Event(kind, set)
             r == Ring(ring, e)
  <2>1. e \in LogEvent /\ e.number = count + 1 /\ e.utc \in {0, e.boot} /\ e.boot = boot
    BY DEF Event, utcNow, LogEvent
  <2> HIDE DEF e
  <2>2. /\ r \in Seq(LogEvent) /\ r # <<>> /\ r[Len(r)] = e
        /\ \A i \in 1 .. Len(r) :
             /\ r[i].number > cleared /\ r[i].number <= count + 1
             /\ r[i].utc \in {0, r[i].boot}
             /\ \A j \in 1 .. (i - 1) : r[j].number < r[i].number
    BY <1>3, <2>1, RingTruthful, CapAssumption
  <2>3. items' = r /\ stored' \in {r, stored} /\ count' = count + 1
    BY <1>3 DEF record, e
  <2> HIDE DEF r
  <2>4. \A q \in {r, stored} : \A i \in 1 .. Len(q) :
          /\ q[i].number > cleared /\ q[i].number <= count + 1
          /\ q[i].utc \in {0, q[i].boot}
          /\ \A j \in 1 .. (i - 1) : q[j].number < q[i].number
    <3>1. \A i \in 1 .. Len(stored) : stored[i].number \in Nat
      <4>1. \A i \in 1 .. Len(stored) : stored[i] \in LogEvent
        OBVIOUS
      <4> QED BY <4>1 DEF LogEvent
    <3>2. \A i \in 1 .. Len(stored) :
            /\ stored[i].number > cleared /\ stored[i].number <= count
            /\ stored[i].utc \in {0, stored[i].boot}
            /\ \A j \in 1 .. (i - 1) : stored[j].number < stored[i].number
      BY DEF Truthful
    <3>3. \A i \in 1 .. Len(stored) : stored[i].number <= count + 1
      BY <3>1, <3>2
    <3> QED BY <2>2, <3>2, <3>3
  <2>5. Truthful(items)' /\ Truthful(stored)'
    BY <1>3, <2>3, <2>4 DEF Truthful
  <2>6. NewestIsOfThisBoot'
    BY <1>3, <2>1, <2>2, <2>3 DEF NewestIsOfThisBoot
  <2> QED BY <1>3, <2>2, <2>3, <2>5, <2>6
<1>4. ASSUME NEW opened \in BOOLEAN, NEW ok \in BOOLEAN, RecordWake(opened, ok) PROVE LogInv'
  <2> DEFINE ring == IF opened THEN stored ELSE <<>>
  <2>1. ring \in Seq(LogEvent) /\ Truthful(ring)
    BY <1>1
  <2>2. record(ring, Event("Wake", rtc), ok) /\ boot' = boot /\ cleared' = cleared
    BY <1>4 DEF RecordWake
  <2> QED BY <1>3, <2>1, <2>2
<1>5. ASSUME NEW ok \in BOOLEAN, recordSleepEvent(ok) PROVE LogInv'
  <2>1. record(items, Event("Sleep", clock), ok) /\ boot' = boot /\ cleared' = cleared
    BY <1>5 DEF recordSleepEvent
  <2> QED BY <1>3, <2>1
<1>6. CASE LogLost
  <2>1. items' = <<>> /\ boot' = boot + 1 /\ UNCHANGED <<stored, count, cleared>>
    BY <1>6 DEF LogLost
  <2> QED BY <1>1, <2>1 DEF Truthful, NewestIsOfThisBoot
<1>7. CASE backfillWakeTimestamp
  <2> DEFINE timed == [items EXCEPT ![Len(items)].utc = boot]
  <2>1. UNCHANGED <<boot, count, cleared>>
    BY <1>7 DEF backfillWakeTimestamp
  <2>2. (items' = items /\ stored' = stored) \/
        (items # <<>> /\ items' = timed /\ stored' = timed)
    BY <1>7 DEF backfillWakeTimestamp, Untimed, utcNow
  <2>3. ASSUME items # <<>>
        PROVE  timed \in Seq(LogEvent) /\ Truthful(timed) /\ timed[Len(timed)].boot = boot /\ timed # <<>>
    <3> DEFINE n == Len(items)
               x == [items[n] EXCEPT !.utc = boot]
    <3>1. n \in 1 .. Len(items) /\ items[n] \in LogEvent /\ items[n].boot = boot
      BY <2>3 DEF NewestIsOfThisBoot
    <3>2. /\ x \in LogEvent /\ x.number = items[n].number /\ x.boot = boot /\ x.utc = boot
      BY <3>1 DEF LogEvent
    <3>3. timed = [items EXCEPT ![n] = x]
      OBVIOUS
    <3> HIDE DEF timed, x
    <3>4. /\ timed \in Seq(LogEvent) /\ Len(timed) = Len(items) /\ timed[n] = x
          /\ \A i \in 1 .. Len(items) : i # n => timed[i] = items[i]
      BY <3>1, <3>2, <3>3
    <3>5. \A i \in 1 .. Len(items) : timed[i].number = items[i].number
      BY <3>2, <3>4
    <3>6. \A i \in 1 .. Len(items) : timed[i].utc \in {0, timed[i].boot}
      BY <3>2, <3>4 DEF Truthful
    <3>7. ASSUME NEW i \in 1 .. Len(items), NEW j \in 1 .. (i - 1)
          PROVE  timed[j].number < timed[i].number
      <4>1. j \in 1 .. Len(items) /\ items[j].number < items[i].number
        BY DEF Truthful
      <4> QED BY <4>1, <3>5
    <3>8. Truthful(timed)
      BY <3>4, <3>5, <3>6, <3>7 DEF Truthful
    <3> QED BY <3>1, <3>2, <3>4, <3>8
  <2>4. Truthful(items)' /\ Truthful(stored)'
    BY <2>1, <2>2, <2>3 DEF Truthful
  <2> QED BY <2>1, <2>2, <2>3, <2>4 DEF NewestIsOfThisBoot
<1>8. CASE ClearLog
  <2>1. /\ items' = <<>> /\ boot' = boot /\ count' = count
        /\ \/ stored' = <<>> /\ cleared' = count
           \/ stored' = stored /\ cleared' = cleared
    BY <1>8 DEF ClearLog
  <2>2. Truthful(items)' /\ Truthful(stored)'
    BY <2>1 DEF Truthful
  <2>3. items' \in Seq(LogEvent) /\ stored' \in Seq(LogEvent) /\ cleared' \in 0 .. count'
    <3>1. items' = <<>> /\ stored' \in {<<>>, stored} /\ cleared' \in {cleared, count} /\ count' = count
      BY <2>1
    <3>2. cleared' \in 0 .. count'
      BY <3>1
    <3>3. \A q \in {<<>>, stored} : q \in Seq(LogEvent)
      BY <1>1
    <3> QED BY <3>1, <3>2, <3>3
  <2>4. NewestIsOfThisBoot'
    BY <2>1 DEF NewestIsOfThisBoot
  <2>5. boot' \in Nat /\ count' \in Nat
    BY <2>1
  <2> QED BY <2>2, <2>3, <2>4, <2>5
<1> QED BY <1>2, <1>4, <1>5, <1>6, <1>7, <1>8 DEF LogStep

------------------------------------------------------------------------------
(* The sequences of writes.                                                *)
LEMMA ArmTable ==
  /\ Len(ArmSteps) = 14
  /\ ArmSteps[1].key = "ready" /\ ArmSteps[1].value = TRUE
  /\ ArmSteps[2].key = "armed" /\ ArmSteps[2].value = FALSE
  /\ ArmSteps[3].key = "pin" /\ ArmSteps[3].value = TRUE
  /\ ArmSteps[4].key = "hold" /\ ArmSteps[4].value = TRUE
  /\ ArmSteps[5].key = "led" /\ ArmSteps[5].value = TRUE
  /\ ArmSteps[6].key = "acc" /\ ArmSteps[6].value = TRUE
  /\ ArmSteps[7].key = "motion" /\ ArmSteps[7].value = TRUE
  /\ ArmSteps[8].key = "int1" /\ ArmSteps[8].value = TRUE
  /\ ArmSteps[9].key = "data" /\ ArmSteps[9].value = FALSE
  /\ ArmSteps[10].key = "lowPower" /\ ArmSteps[10].value = TRUE
  /\ ArmSteps[11].key = "idle" /\ ArmSteps[11].value = TRUE
  /\ ArmSteps[12].key = "aps" /\ ArmSteps[12].value = TRUE
  /\ ArmSteps[13].key = "armed" /\ ArmSteps[13].value = TRUE
  /\ ArmSteps[14].key = "shutdown" /\ ArmSteps[14].value = TRUE
BY DEF ArmSteps, Set, _initPM1, _ensureBmiReady, _configureBmiAnyMotion,
       _configureBmiInt1ForAnyMotion, _clearBmiDataInterruptMap, _configureBmiLowPowerStandby,
       _setBmiAdvPowerSave, _waitForMotionInterruptIdle, pm1Shutdown

LEMMA UnwindTable ==
  /\ Len(UnwindSteps) = 4
  /\ UnwindSteps[1].key = "ready" /\ UnwindSteps[1].value = TRUE
  /\ UnwindSteps[2].key = "armed" /\ UnwindSteps[2].value = FALSE
  /\ UnwindSteps[3].key = "pin" /\ UnwindSteps[3].value = FALSE
  /\ UnwindSteps[4].key = "hold" /\ UnwindSteps[4].value = FALSE
BY DEF UnwindSteps, Set, _initPM1

LEMMA KeysAre ==
  Keys = {"ready", "pin", "armed", "hold", "led",
          "acc", "motion", "int1", "data", "lowPower", "aps"}
BY DEF Keys, Pm1Keys, SensorKeys

\* A write that goes through leaves its value and nothing else changed.
LEMMA WrittenIs ==
  ASSUME hw \in [Keys -> BOOLEAN], NEW ok \in BOOLEAN, NEW regs \in Written(ok),
         Now.value \in BOOLEAN
  PROVE  /\ regs \in [Keys -> BOOLEAN]
         /\ ok => \A k \in Keys : regs[k] = IF k = Now.key THEN Now.value ELSE hw[k]
BY DEF Written

\* A transfer that does not go through, for an entry that is not the poll, counts.
LEMMA FailureCounts ==
  ASSUME faults \in Nat, NEW ok \in BOOLEAN, Outcome(ok)
  PROVE  /\ faults' \in Nat /\ faults' >= faults
         /\ ~ ok => faults' > 0
BY DEF Outcome, Count

LEMMA PowerCutKeeps ==
  ASSUME NEW regs \in [Keys -> BOOLEAN], PowerCut(regs)
  PROVE  /\ hw' \in [Keys -> BOOLEAN]
         /\ regs["hold"] => hw' = regs
         /\ hw'["hold"] = regs["hold"] /\ hw'["armed"] = regs["armed"]
<1>1. SensorDefault \in [SensorKeys -> BOOLEAN]
  BY DEF SensorDefault
<1>2. hw' = [k \in Keys |->
               IF k \in SensorKeys /\ ~ regs["hold"] THEN SensorDefault[k] ELSE regs[k]]
  BY DEF PowerCut
<1>3. "hold" \in Keys /\ "armed" \in Keys /\ "hold" \notin SensorKeys /\ "armed" \notin SensorKeys
  BY DEF Keys, Pm1Keys, SensorKeys
<1> QED BY <1>1, <1>2, <1>3 DEF Keys

LEMMA ArmStepKeeps ==
  ASSUME PowerInv, ArmStep
  PROVE  PowerInv'
<1> USE DEF PowerInv, WakeTypeOK
<1>0. phase = "arm" /\ pc \in 1 .. 14 /\ Len(ArmSteps) = 14
  BY ArmTable DEF ArmStep
<1>1. PICK ok \in BOOLEAN :
        /\ Outcome(ok)
        /\ \E regs \in Written(ok) :
             IF ~ Passes(ok) THEN hw' = regs /\ phase' = "unwind" /\ pc' = 1
             ELSE IF pc = Len(ArmSteps)
                  THEN PowerCut(regs) /\ phase' = "asleep" /\ pc' = 1
                  ELSE hw' = regs /\ phase' = "arm" /\ pc' = pc + 1
  BY DEF ArmStep
<1>2. PICK regs \in Written(ok) :
        IF ~ Passes(ok) THEN hw' = regs /\ phase' = "unwind" /\ pc' = 1
        ELSE IF pc = 14
             THEN PowerCut(regs) /\ phase' = "asleep" /\ pc' = 1
             ELSE hw' = regs /\ phase' = "arm" /\ pc' = pc + 1
  BY <1>0, <1>1
<1>3. Now = ArmSteps[pc] /\ Now.value \in BOOLEAN
  <2>1. Now = ArmSteps[pc]
    BY <1>0 DEF Now, Steps
  <2>2. \A n \in 1 .. 14 : ArmSteps[n].value \in BOOLEAN
    <3> TAKE n \in 1 .. 14
    <3>1. ArmSteps[n].value = TRUE \/ ArmSteps[n].value = FALSE
      BY ArmTable
    <3> QED BY <3>1
  <2> QED BY <1>0, <2>1, <2>2
<1>4. /\ regs \in [Keys -> BOOLEAN]
      /\ ok => \A k \in Keys : regs[k] = IF k = Now.key THEN Now.value ELSE hw[k]
  BY <1>3, WrittenIs
<1>5. faults' \in Nat /\ faults' >= faults
  BY <1>1, FailureCounts
<1> HIDE DEF Now
<1>6. CASE ~ Passes(ok)
  BY <1>0, <1>2, <1>4, <1>5, <1>6, ArmTable, UnwindTable
     DEF ArmedSoFar, UnwoundSoFar, RunsUnarmed, DownAsIntended
<1>7. ASSUME Passes(ok) PROVE ok
  BY <1>7 DEF Passes
<1>8. CASE Passes(ok) /\ pc = 14
  <2>1. Now.key \notin Keys
    BY <1>3, <1>8, ArmTable, KeysAre
  <2>2. regs = hw
    BY <1>2, <2>1 DEF Written
  <2>3. /\ hw["pin"] /\ hw["hold"] /\ hw["acc"] /\ hw["motion"] /\ hw["int1"] /\ ~ hw["data"]
        /\ hw["lowPower"] /\ hw["aps"] /\ hw["armed"]
    BY <1>0, <1>8 DEF ArmedSoFar
  <2>4. hw' = hw /\ phase' = "asleep" /\ pc' = 1
    BY <1>2, <1>8, <2>2, <2>3, PowerCutKeeps
  <2>5. DownAsIntended'
    BY <2>3, <2>4 DEF DownAsIntended, WakesOnMotion
  <2> QED BY <1>0, <1>5, <2>4, <2>5 DEF ArmedSoFar, UnwoundSoFar, RunsUnarmed
<1>9. CASE Passes(ok) /\ pc # 14
  <2>1. hw' = regs /\ phase' = "arm" /\ pc' = pc + 1
    BY <1>2, <1>9
  <2>2. \A k \in Keys : hw'[k] = IF k = Now.key THEN Now.value ELSE hw[k]
    BY <1>4, <1>7, <1>9, <2>1
  <2>3. ArmedSoFar'
    <3>1. pc \in 1 .. 13
      BY <1>0, <1>9
    <3>2. /\ pc = 3 => Now.key = "pin" /\ Now.value = TRUE
          /\ pc = 4 => Now.key = "hold" /\ Now.value = TRUE
          /\ pc = 6 => Now.key = "acc" /\ Now.value = TRUE
          /\ pc = 7 => Now.key = "motion" /\ Now.value = TRUE
          /\ pc = 8 => Now.key = "int1" /\ Now.value = TRUE
          /\ pc = 9 => Now.key = "data" /\ Now.value = FALSE
          /\ pc = 10 => Now.key = "lowPower" /\ Now.value = TRUE
          /\ pc = 12 => Now.key = "aps" /\ Now.value = TRUE
          /\ pc = 13 => Now.key = "armed" /\ Now.value = TRUE
      BY <1>3, ArmTable
    <3>3. /\ (Now.key = "pin" => pc = 3) /\ (Now.key = "hold" => pc = 4)
          /\ (Now.key = "acc" => pc = 6) /\ (Now.key = "motion" => pc = 7)
          /\ (Now.key = "int1" => pc = 8) /\ (Now.key = "data" => pc = 9)
          /\ (Now.key = "lowPower" => pc = 10) /\ (Now.key = "aps" => pc = 12)
          /\ Now.key = "armed" => pc \in {2, 13}
      BY <1>3, <3>1, ArmTable
    <3> QED BY <1>0, <2>1, <2>2, <3>1, <3>2, <3>3, KeysAre DEF ArmedSoFar
  <2>4. pc' \in 1 .. Len(ArmSteps)
    BY <1>0, <1>9, <2>1
  <2>5. UnwoundSoFar' /\ RunsUnarmed' /\ DownAsIntended'
    BY <2>1 DEF UnwoundSoFar, RunsUnarmed, DownAsIntended
  <2> QED BY <1>0, <1>4, <1>5, <2>1, <2>3, <2>4, <2>5
<1> QED BY <1>6, <1>8, <1>9

\* One entry of the sequence that takes the arming back, at boot or after an
\* arming that failed: with no fault it wrote what the table says.
LEMMA UnwindWrites ==
  ASSUME PowerInv, phase \in {"unwind", "boot"}, pc \in 1 .. 4,
         NEW ok \in BOOLEAN, Outcome(ok), NEW regs \in Written(ok)
  PROVE  /\ regs \in [Keys -> BOOLEAN] /\ faults' \in Nat /\ faults' >= faults
         /\ Passes(ok) = ok
         /\ faults' = 0 =>
              /\ ok /\ faults = 0
              /\ pc >= 2 => ~ regs["armed"]
              /\ pc = 4 => ~ regs["hold"]
<1> USE DEF PowerInv, WakeTypeOK
<1>1. Now = UnwindSteps[pc]
  BY DEF Now, Steps
<1>2. /\ Now.value \in BOOLEAN /\ Now.key # "idle"
      /\ pc = 2 => Now.key = "armed" /\ Now.value = FALSE
      /\ pc = 3 => Now.key # "armed"
      /\ pc = 4 => Now.key = "hold" /\ Now.value = FALSE
  <2>1. \A n \in 1 .. 4 : (UnwindSteps[n].value = TRUE \/ UnwindSteps[n].value = FALSE)
                         /\ UnwindSteps[n].key # "idle"
    BY UnwindTable
  <2> QED BY <1>1, <2>1, UnwindTable
<1>3. /\ regs \in [Keys -> BOOLEAN]
      /\ ok => \A k \in Keys : regs[k] = IF k = Now.key THEN Now.value ELSE hw[k]
  BY <1>2, WrittenIs
<1>4. /\ faults' \in Nat /\ faults' >= faults
      /\ ~ ok => faults' > 0
  BY FailureCounts
<1>5. Passes(ok) = ok
  BY <1>2 DEF Passes
<1> HIDE DEF Now
<1>6. ASSUME faults' = 0
      PROVE  /\ ok /\ faults = 0
             /\ pc >= 2 => ~ regs["armed"]
             /\ pc = 4 => ~ regs["hold"]
  <2>1. ok /\ faults = 0
    BY <1>4, <1>6
  <2>2. pc > 2 => ~ hw["armed"]
    BY <2>1 DEF UnwoundSoFar
  <2>3. \A k \in Keys : regs[k] = IF k = Now.key THEN Now.value ELSE hw[k]
    BY <1>3, <2>1
  <2>4. pc = 4 => ~ regs["hold"]
    BY <1>2, <2>3, KeysAre
  <2>5. pc >= 2 => ~ regs["armed"]
    BY <1>2, <2>2, <2>3, KeysAre
  <2> QED BY <2>1, <2>4, <2>5
<1> QED BY <1>3, <1>4, <1>5, <1>6

LEMMA UnwindStepKeeps ==
  ASSUME PowerInv, UnwindStep
  PROVE  PowerInv'
<1> USE DEF PowerInv, WakeTypeOK
<1>1. PICK ok \in BOOLEAN :
        /\ Outcome(ok)
        /\ \E regs \in Written(ok) :
             IF ~ Passes(ok) \/ pc = Len(UnwindSteps)
             THEN PowerCut(regs) /\ phase' = "off" /\ pc' = 1
             ELSE hw' = regs /\ phase' = "unwind" /\ pc' = pc + 1
  BY DEF UnwindStep
<1>2. PICK regs \in Written(ok) :
        IF ~ Passes(ok) \/ pc = 4
        THEN PowerCut(regs) /\ phase' = "off" /\ pc' = 1
        ELSE hw' = regs /\ phase' = "unwind" /\ pc' = pc + 1
  BY <1>1, UnwindTable
<1>3. phase = "unwind"
  BY DEF UnwindStep
<1>4. CASE pc \in 1 .. 4
  <2>1. /\ regs \in [Keys -> BOOLEAN] /\ faults' \in Nat /\ faults' >= faults
        /\ Passes(ok) = ok
        /\ faults' = 0 =>
             /\ ok /\ faults = 0
             /\ pc >= 2 => ~ regs["armed"]
             /\ pc = 4 => ~ regs["hold"]
    BY <1>1, <1>3, <1>4, UnwindWrites
  <2>2. CASE ~ ok \/ pc = 4
    <3>1. PowerCut(regs) /\ phase' = "off" /\ pc' = 1
      BY <1>2, <2>1, <2>2
    <3>2. /\ hw' \in [Keys -> BOOLEAN]
          /\ hw'["hold"] = regs["hold"] /\ hw'["armed"] = regs["armed"]
      BY <2>1, <3>1, PowerCutKeeps
    <3>3. DownAsIntended'
      BY <2>1, <2>2, <3>1, <3>2 DEF DownAsIntended
    <3> QED BY <2>1, <3>1, <3>2, <3>3, ArmTable DEF ArmedSoFar, UnwoundSoFar, RunsUnarmed
  <2>3. CASE ok /\ pc # 4
    <3>1. hw' = regs /\ phase' = "unwind" /\ pc' = pc + 1
      BY <1>2, <2>1, <2>3
    <3>2. UnwoundSoFar'
      BY <1>4, <2>1, <2>3, <3>1 DEF UnwoundSoFar
    <3>3. pc \in 1 .. 4
      BY <1>3, ArmTable, UnwindTable
    <3>4. pc + 1 <= Len(UnwindSteps)
      BY <2>3, <3>3, UnwindTable
    <3> QED BY <1>4, <2>1, <2>3, <3>1, <3>2, <3>3, <3>4, ArmTable DEF ArmedSoFar, RunsUnarmed, DownAsIntended
  <2> QED BY <2>2, <2>3
<1>5. pc \in 1 .. 4
  BY <1>3, ArmTable, UnwindTable
<1> QED BY <1>4, <1>5

LEMMA BootStepKeeps ==
  ASSUME PowerInv, BootStep
  PROVE  PowerInv'
<1> USE DEF PowerInv, WakeTypeOK
<1>1. PICK ok \in BOOLEAN :
        /\ Outcome(ok)
        /\ \E regs \in Written(ok) :
             /\ hw' = regs
             /\ pc' = IF Passes(ok) THEN pc + 1 ELSE Len(UnwindSteps) + 1
  BY DEF BootStep
<1>2. PICK regs \in Written(ok) :
        hw' = regs /\ pc' = IF Passes(ok) THEN pc + 1 ELSE 5
  BY <1>1, UnwindTable
<1>3. phase = "boot" /\ phase' = "boot" /\ pc \in 1 .. 4
  BY ArmTable, UnwindTable DEF BootStep
<1>4. /\ regs \in [Keys -> BOOLEAN] /\ faults' \in Nat /\ faults' >= faults
      /\ Passes(ok) = ok
      /\ faults' = 0 =>
           /\ ok /\ faults = 0
           /\ pc >= 2 => ~ regs["armed"]
           /\ pc = 4 => ~ regs["hold"]
  BY <1>1, <1>3, UnwindWrites
<1>5. UnwoundSoFar'
  BY <1>2, <1>3, <1>4 DEF UnwoundSoFar
<1>6. pc' \in 1 .. Len(ArmSteps)
  BY <1>2, <1>3, <1>4, ArmTable
<1> QED BY <1>2, <1>3, <1>4, <1>5, <1>6 DEF ArmedSoFar, RunsUnarmed, DownAsIntended

LEMMA WakeKeeps ==
  ASSUME PowerInv, WakeStep, faults' \in Nat, faults' >= faults
  PROVE  PowerInv'
<1> USE DEF PowerInv, WakeTypeOK
<1> USE ArmTable, UnwindTable
<1>1. CASE UNCHANGED <<hw, phase, pc>>
  BY <1>1 DEF ArmedSoFar, UnwoundSoFar, RunsUnarmed, DownAsIntended, WakesOnMotion
<1>2. CASE phase = "run" /\ BeginArming /\ UNCHANGED hw
  BY <1>2 DEF BeginArming, ArmedSoFar, UnwoundSoFar, RunsUnarmed, DownAsIntended
<1>3. CASE phase = "boot" /\ pc > Len(UnwindSteps) /\ phase' = "run" /\ UNCHANGED hw /\ pc' = 1
  BY <1>3 DEF ArmedSoFar, UnwoundSoFar, RunsUnarmed, DownAsIntended
<1>4. CASE HardOff
  <2>1. PowerCut(hw) /\ phase = "run" /\ phase' = "off" /\ pc' = 1
    BY <1>4 DEF HardOff
  <2>2. /\ hw' \in [Keys -> BOOLEAN]
        /\ hw'["hold"] = hw["hold"] /\ hw'["armed"] = hw["armed"]
    BY <2>1, PowerCutKeeps
  <2> QED BY <2>1, <2>2 DEF ArmedSoFar, UnwoundSoFar, RunsUnarmed, DownAsIntended
<1>5. CASE PowerUp
  <2>1. hw' \in [Keys -> BOOLEAN] /\ phase' = "boot" /\ pc' = 1
    BY <1>5 DEF PowerUp
  <2> QED BY <2>1 DEF ArmedSoFar, UnwoundSoFar, RunsUnarmed, DownAsIntended
<1> QED BY <1>1, <1>2, <1>3, <1>4, <1>5, ArmStepKeeps, UnwindStepKeeps, BootStepKeeps DEF WakeStep

------------------------------------------------------------------------------
LEMMA PowerInit == Init => PowerInv /\ LogInv
<1> SUFFICES ASSUME Init PROVE PowerInv /\ LogInv
  OBVIOUS
<1>1. hw \in [Keys -> BOOLEAN]
  <2>1. SensorDefault \in [SensorKeys -> BOOLEAN]
    BY DEF SensorDefault
  <2>2. hw = [k \in Keys |-> IF k \in SensorKeys THEN SensorDefault[k] ELSE k = "led"]
    BY DEF Init, WakeInit, PowerOnHw, Keys
  <2> QED BY <2>1, <2>2
<1>2. PowerInv
  BY <1>1, ArmTable DEF Init, WakeInit, PowerInv, WakeTypeOK, ArmedSoFar, UnwoundSoFar,
     RunsUnarmed, DownAsIntended
<1>3. <<>> \in Seq(LogEvent)
  OBVIOUS
<1>4. LogInv
  BY <1>3 DEF Init, LogInit, LogInv, Truthful, NewestIsOfThisBoot
<1> QED BY <1>2, <1>4

LEMMA PowerNext == PowerInv /\ LogInv /\ [Next]_vars => PowerInv' /\ LogInv'
<1> SUFFICES ASSUME PowerInv, LogInv, [Next]_vars PROVE PowerInv' /\ LogInv'
  OBVIOUS
<1>1. faults \in Nat
  BY DEF PowerInv, WakeTypeOK
<1>2. WakeStep /\ LogStep /\ faults' \in Nat /\ faults' >= faults
  BY <1>1, StepsAre
<1> QED BY <1>2, WakeKeeps, LogKeeps

(* How far the power-down sequences have come and what the log's ring      *)
(* holds, in every state of the main loop's policies.                      *)
THEOREM PowerInvariant == Spec => [](PowerInv /\ LogInv)
BY PowerInit, PowerNext, PTL DEF Spec

(* A device that went to sleep wakes when it is moved, and one that was    *)
(* switched off because the arming was interrupted holds neither the       *)
(* sensor's supply nor the wake input, unless a transfer failed            *)
(* (enableWakeUpOnMotionAndShutdown, disableWakeUpOnMotion).               *)
THEOREM DownIsAsIntended == Spec => []DownAsIntended
<1>1. PowerInv /\ LogInv => DownAsIntended
  BY DEF PowerInv
<1> QED BY <1>1, PowerInvariant, PTL

(* No event that was cleared comes back and none carries the time of       *)
(* another boot, for any capacity of the ring, number of boots and of      *)
(* failing writes (PowerEventLog).                                         *)
THEOREM LogIsTruthful == Spec => []LogTellsTheTruth
<1>1. PowerInv /\ LogInv => LogTellsTheTruth
  BY DEF LogInv, Truthful, LogTellsTheTruth
<1> QED BY <1>1, PowerInvariant, PTL

(***************************************************************************)
(* Part 3: LiveScreen.                                                     *)
(***************************************************************************)
LiveViews == {"Live", "LastShot", "LastShotChart"}
Phases == {"IDLE", "RUNNING", "POST_PUMP", "DONE"}
Levels == {"OFF", "APPROACHING", "STOP_NOW"}

LiveRec == [phase : Phases, yield : Int, meaningful : BOOLEAN, real : BOOLEAN,
            target : 0 .. MaxYield + 1]
LiveAlert == [target : Int, fired : BOOLEAN, have : BOOLEAN, flow : BOOLEAN,
              level : Levels, remaining : Int]
LiveCue == [level : Levels, flow : BOOLEAN, silenced : BOOLEAN, bucket : Int,
            sinceBeep : Int, tone : {"none", "beep", "cut"}]

LiveTypeOK ==
  /\ liveView \in LiveViews \cup {"Replay", "Gone"}
  /\ paused \in BOOLEAN /\ user \in UserTargets /\ coeffs \in 0 .. MaxYield
  /\ rec \in LiveRec /\ alert \in LiveAlert /\ cue \in LiveCue
  /\ accepted \in 0 .. MaxYield + 2 /\ loaded \in 0 .. MaxYield + 2

\* A record whose pump was on has been through the alert, which gave it the
\* coefficients of then.
RecordHasTarget == CurrentInPumpWindow(rec) => rec.target # NoSnapshot

\* So have a live record and its alert, to the end of the pump window.
TargetsAgree ==
  liveView \in LiveViews =>
    /\ coeffs = user
    /\ CurrentInPumpWindow(rec) => alert.target = user /\ rec.target = user

\* The sounds know the level of the alert, which is up with the pump only.
CueFollows == cue.level = alert.level /\ (alert.level # "OFF" => rec.phase = "RUNNING")

\* Only a replay can be paused, and nothing runs while the screen is gone.
OnlyReplayPaused == (paused => liveView = "Replay") /\ (liveView = "Gone" => rec.phase # "RUNNING")

LiveInv ==
  /\ LiveTypeOK
  /\ RecordHasTarget /\ TargetsAgree /\ CueFollows /\ OnlyReplayPaused
  /\ ToneMeansAlert /\ PanelShowsPresent
-----------------------------------------------------------------------------
(* The record: how an update may change it.                                *)
LEMMA ReadingsKeep ==
  ASSUME NEW r \in LiveRec, NEW weighed \in BOOLEAN, NEW q \in Readings(r, weighed)
  PROVE  /\ q \in LiveRec /\ q.phase = r.phase /\ q.target = r.target
         /\ ~CurrentInPumpWindow(r) => q = r
<1>1. CASE q = r
  BY <1>1
<1>2. CASE CurrentInPumpWindow(r) /\ \E y \in 0 .. MaxYield : q = Weighed(r, y)
  <2>1. PICK y \in 0 .. MaxYield : q = Weighed(r, y)
    BY <1>2
  <2>2. (r.meaningful \/ y >= Meaningful) \in BOOLEAN
    BY DEF LiveRec
  <2>3. y \in Int
    BY LiveAssumption
  <2> DEFINE m == r.meaningful \/ y >= Meaningful
  <2>4. q = [r EXCEPT !.yield = y, !.meaningful = m] /\ m \in BOOLEAN
    BY <2>1, <2>2 DEF Weighed
  <2> HIDE DEF m
  <2> QED BY <1>2, <2>3, <2>4 DEF LiveRec
<1> QED BY <1>1, <1>2 DEF Readings

LEMMA NewRecType == NoRec \in LiveRec /\ NewRec \in LiveRec /\ NewRec.phase = "RUNNING"
                    /\ NewRec.target = NoSnapshot /\ NoRec.phase = "IDLE"
<1>1. NoSnapshot \in 0 .. MaxYield + 1 /\ NoYield \in Int
  BY LiveAssumption DEF NoSnapshot, NoYield
<1>2. NoRec \in LiveRec /\ NoRec.phase = "IDLE" /\ NoRec.target = NoSnapshot
  BY <1>1 DEF NoRec, LiveRec, Phases
<1> QED BY <1>2 DEF NewRec, LiveRec, Phases

LEMMA FinishedType ==
  ASSUME NEW r \in LiveRec, NEW f \in Finished(r)
  PROVE  f \in LiveRec /\ f.phase = "DONE" /\ f.target = r.target
<1>1. PICK b \in BOOLEAN : f = [r EXCEPT !.phase = "DONE", !.real = b]
  BY DEF Finished
<1> QED BY <1>1 DEF LiveRec, Phases

\* Where the record may go in an update: a record that was in its pump window
\* keeps its target, another begins as new, one at rest without an edge of the
\* pump is left alone.
RecordMoves(r, up) ==
  /\ up.rec \in LiveRec /\ up.finished \in LiveRec
  /\ CurrentInPumpWindow(up.rec) =>
       \/ CurrentInPumpWindow(r) /\ up.rec.target = r.target
       \/ up.rec = NewRec /\ r.phase # "RUNNING"
  /\ ~CurrentInPumpWindow(r) /\ ~CurrentInPumpWindow(up.rec) =>
       up.rec = r /\ up.finished = NoRec

LEMMA AdvancesMove ==
  ASSUME NEW q \in LiveRec, NEW turned \in BOOLEAN, NEW up \in Advances(q, turned)
  PROVE  RecordMoves(q, up)
<1> USE NewRecType
<1>1. CASE ~turned /\ q.phase # "POST_PUMP"
  <2>1. up = Advanced(q, NoRec)
    BY <1>1 DEF Advances
  <2>2. up.rec = q /\ up.finished = NoRec
    BY <2>1 DEF Advanced
  <2> QED BY <2>2 DEF RecordMoves
<1>2. CASE turned /\ q.phase \in {"IDLE", "DONE"}
  <2>1. up = Advanced(NewRec, NoRec)
    BY <1>2 DEF Advances
  <2>2. up.rec = NewRec /\ up.finished = NoRec
    BY <2>1 DEF Advanced
  <2> QED BY <1>2, <2>2 DEF RecordMoves, CurrentInPumpWindow
<1>3. CASE turned /\ q.phase = "RUNNING"
  <2>1. up = Advanced([q EXCEPT !.phase = "POST_PUMP"], NoRec)
    BY <1>3 DEF Advances
  <2>2. up.rec = [q EXCEPT !.phase = "POST_PUMP"] /\ up.finished = NoRec
    BY <2>1 DEF Advanced
  <2> QED BY <1>3, <2>2 DEF RecordMoves, CurrentInPumpWindow, LiveRec, Phases
<1>4. CASE turned /\ q.phase = "POST_PUMP"
  <2>1. \/ up = Advanced([q EXCEPT !.phase = "RUNNING"], NoRec)
        \/ \E f \in Finished(q) : up = Advanced(NewRec, f)
    BY <1>4 DEF Advances
  <2>2. CASE up = Advanced([q EXCEPT !.phase = "RUNNING"], NoRec)
    <3>1. up.rec = [q EXCEPT !.phase = "RUNNING"] /\ up.finished = NoRec
      BY <2>2 DEF Advanced
    <3> QED BY <1>4, <3>1 DEF RecordMoves, CurrentInPumpWindow, LiveRec, Phases
  <2>3. CASE \E f \in Finished(q) : up = Advanced(NewRec, f)
    <3>1. PICK f \in Finished(q) : up.rec = NewRec /\ up.finished = f
      BY <2>3 DEF Advanced
    <3> QED BY <1>4, <3>1, FinishedType DEF RecordMoves, CurrentInPumpWindow
  <2> QED BY <2>1, <2>2, <2>3
<1>5. CASE ~turned /\ q.phase = "POST_PUMP"
  <2>1. \/ up = Advanced(q, NoRec)
        \/ \E f \in Finished(q) : up = Advanced(f, f)
    BY <1>5 DEF Advances
  <2>2. CASE up = Advanced(q, NoRec)
    <3>1. up.rec = q /\ up.finished = NoRec
      BY <2>2 DEF Advanced
    <3> QED BY <3>1 DEF RecordMoves
  <2>3. CASE \E f \in Finished(q) : up = Advanced(f, f)
    <3>1. PICK f \in Finished(q) : up.rec = f /\ up.finished = f
      BY <2>3 DEF Advanced
    <3> QED BY <1>5, <3>1, FinishedType DEF RecordMoves, CurrentInPumpWindow
  <2> QED BY <2>1, <2>2, <2>3
<1> QED BY <1>1, <1>2, <1>3, <1>4, <1>5 DEF LiveRec, Phases

LEMMA UpdatesMove ==
  ASSUME NEW r \in LiveRec, NEW turned \in BOOLEAN, NEW weighed \in BOOLEAN,
         NEW up \in RecorderUpdates(r, turned, weighed)
  PROVE  RecordMoves(r, up)
<1>1. PICK q \in Readings(r, weighed) : up \in Advances(q, turned)
  BY DEF RecorderUpdates
<1>2. /\ q \in LiveRec /\ q.phase = r.phase /\ q.target = r.target
      /\ ~CurrentInPumpWindow(r) => q = r
  BY ReadingsKeep
<1>3. RecordMoves(q, up)
  BY <1>1, <1>2, AdvancesMove
<1> QED BY <1>2, <1>3 DEF RecordMoves, CurrentInPumpWindow
-----------------------------------------------------------------------------
(* The alert: what an update of it leaves.                                 *)
LEMMA FreshAlertType == FreshAlert \in LiveAlert /\ FreshAlert.level = "OFF"
BY DEF FreshAlert, LiveAlert, Levels

AlertMoves(a, r, b) ==
  /\ b \in LiveAlert /\ b.target = a.target
  /\ a.fired => b.fired
  /\ b.level # "OFF" => r.phase = "RUNNING"
  /\ b.level = "STOP_NOW" => b.fired
  /\ b.level = "APPROACHING" => ~b.fired

LEMMA AlertUpdatedMoves ==
  ASSUME NEW a \in LiveAlert, NEW r \in LiveRec, NEW flow \in BOOLEAN
  PROVE  AlertMoves(a, r, AlertUpdated(a, r, flow))
<1> DEFINE running == r.phase = "RUNNING"
           have == a.have \/ (running /\ HasPour(r))
           valid == have /\ flow
           enabled == a.target > 0 /\ running /\ have
           fired == a.fired \/ (enabled /\ Projected(r, valid) >= a.target)
           left == a.target - Projected(r, valid)
           level == CASE enabled /\ fired -> "STOP_NOW"
                      [] enabled /\ ~fired /\ valid /\ left \in 1 .. ApproachWindow -> "APPROACHING"
                      [] OTHER -> "OFF"
           remaining == IF level = "APPROACHING" THEN left ELSE 0
<1>1. AlertUpdated(a, r, flow) =
        [a EXCEPT !.have = have, !.flow = valid, !.fired = fired, !.level = level,
                  !.remaining = remaining]
  BY DEF AlertUpdated
<1>2. have \in BOOLEAN /\ valid \in BOOLEAN /\ fired \in BOOLEAN
  BY DEF LiveAlert
<1>3. left \in Int
  BY LiveAssumption DEF LiveAlert, LiveRec, Projected
<1>4. remaining \in Int
  BY <1>3
<1>5. /\ level \in Levels
      /\ level # "OFF" => running
      /\ level = "STOP_NOW" => fired
      /\ level = "APPROACHING" => ~fired
  BY DEF Levels
<1>6. a.fired => fired
  OBVIOUS
<1>7. running <=> r.phase = "RUNNING"
  OBVIOUS
<1> HIDE DEF running, have, valid, enabled, fired, left, level, remaining
<1> QED BY <1>1, <1>2, <1>4, <1>5, <1>6, <1>7 DEF AlertMoves, LiveAlert

\* What a pass of the alert makes of the record it is shown, and of itself.
LEMMA RunAlertMoves ==
  ASSUME NEW a \in LiveAlert, NEW r \in LiveRec, NEW flow \in BOOLEAN, coeffs \in 0 .. MaxYield
  PROVE  LET run == RunAlert(a, r, flow)
             new == r.phase = "RUNNING" /\ r.target = NoSnapshot
         IN /\ run.rec \in LiveRec /\ run.alert \in LiveAlert /\ run.edge \in BOOLEAN
            /\ run.rec.phase = r.phase
            /\ new => run.rec.target = coeffs /\ run.alert.target = coeffs
            /\ ~new => run.rec = r /\ run.alert.target = a.target
                       /\ (a.fired => run.alert.fired)
            /\ run.alert.level # "OFF" => r.phase = "RUNNING"
            /\ run.alert.level = "STOP_NOW" => run.alert.fired
            /\ run.alert.level = "APPROACHING" => ~run.alert.fired
            /\ run.edge => run.alert.fired
<1> DEFINE new == r.phase = "RUNNING" /\ r.target = NoSnapshot
           b == IF new THEN [FreshAlert EXCEPT !.target = coeffs] ELSE a
           c == AlertUpdated(b, r, flow)
           run == RunAlert(a, r, flow)
<1>1. run = [alert |-> c, rec |-> IF new THEN [r EXCEPT !.target = coeffs] ELSE r,
             edge |-> c.fired /\ ~b.fired]
  BY DEF RunAlert
<1>2. b \in LiveAlert /\ (new => b.target = coeffs) /\ (~new => b = a)
  <2>1. coeffs \in Int
    BY LiveAssumption
  <2>2. [FreshAlert EXCEPT !.target = coeffs] \in LiveAlert
        /\ [FreshAlert EXCEPT !.target = coeffs].target = coeffs
    BY <2>1, FreshAlertType DEF LiveAlert
  <2> QED BY <2>2
<1>3. AlertMoves(b, r, c)
  BY <1>2, AlertUpdatedMoves
<1>4. run.alert = c /\ run.rec = (IF new THEN [r EXCEPT !.target = coeffs] ELSE r)
      /\ run.edge = (c.fired /\ ~b.fired)
  BY <1>1
<1>5. c.fired \in BOOLEAN /\ b.fired \in BOOLEAN
  BY <1>2, <1>3 DEF AlertMoves, LiveAlert
<1>6. run.edge \in BOOLEAN /\ (run.edge => run.alert.fired)
  BY <1>4, <1>5
<1>7. new => run.rec \in LiveRec /\ run.rec.phase = r.phase /\ run.rec.target = coeffs
  BY <1>4, LiveAssumption DEF LiveRec
<1>8. ~new => run.rec = r
  BY <1>4
<1> HIDE DEF c, b, run
<1> QED BY <1>2, <1>3, <1>4, <1>6, <1>7, <1>8 DEF AlertMoves, run
-----------------------------------------------------------------------------
(* The sounds.                                                             *)
LEMMA NoCueType == NoCue \in LiveCue /\ NoCue.level = "OFF" /\ NoCue.tone = "none"
BY DEF NoCue, LiveCue, Levels

LEMMA HeardKeeps ==
  ASSUME LiveTypeOK, NEW before, NEW after
  PROVE  LET c == Heard(before, after)
         IN c \in LiveCue /\ c.level = cue.level /\ c.tone = cue.tone
            /\ (~cue.silenced => ~c.silenced)
BY DEF Heard, LiveTypeOK, LiveCue

LEMMA LaterKeeps ==
  ASSUME NEW c \in LiveCue, NEW late \in BOOLEAN
  PROVE  LET d == Later(c, late)
         IN d \in LiveCue /\ d.level = c.level /\ d.tone \in {"none", c.tone}
            /\ d.silenced = c.silenced
<1> DEFINE since == IF late /\ c.level = "APPROACHING" /\ c.sinceBeep < BeepMax
                    THEN c.sinceBeep + 1 ELSE c.sinceBeep
           tone == IF late THEN "none" ELSE c.tone
<1>1. Later(c, late) = [c EXCEPT !.tone = tone, !.sinceBeep = since]
  BY DEF Later
<1>2. since \in Int /\ tone \in {"none", "beep", "cut"} /\ tone \in {"none", c.tone}
  BY DEF LiveCue, BeepMax
<1> HIDE DEF since, tone
<1> QED BY <1>1, <1>2 DEF LiveCue

LEMMA RaisedType == ASSUME NEW x \in Int, NEW y \in Int PROVE Raised(x, y) \in Int
BY DEF Raised

LEMMA CountdownMoves ==
  ASSUME NEW c \in LiveCue, NEW a \in LiveAlert
  PROVE  LET d == Countdown(c, a)
         IN /\ d \in LiveCue /\ d.silenced = c.silenced
            /\ d.tone = c.tone \/ (d.tone = "beep" /\ ~c.silenced)
<1> DEFINE b == Bucket(a)
           due == c.sinceBeep >= BeepMax \/ (c.sinceBeep >= BeepMin /\ b < c.bucket)
           raised == Raised(IF due THEN b ELSE c.bucket, b)
           kept == [c EXCEPT !.bucket = raised]
           d == Countdown(c, a)
<1>1. b \in Int
  BY DEF Bucket, LiveAlert
<1> HIDE DEF b
<1>2. raised \in Int
  BY <1>1, RaisedType DEF LiveCue
<1> HIDE DEF raised
<1>3. kept \in LiveCue /\ kept.tone = c.tone /\ kept.silenced = c.silenced
  BY <1>2 DEF LiveCue
<1>4. d = CASE c.level = "OFF" -> [c EXCEPT !.bucket = b, !.sinceBeep = 0]
            [] c.level # "OFF" /\ due /\ ~c.silenced -> [kept EXCEPT !.tone = "beep", !.sinceBeep = 0]
            [] OTHER -> kept
  BY DEF Countdown, b, raised
<1> HIDE DEF d, kept, due
<1> DEFINE Good == /\ d \in LiveCue /\ d.silenced = c.silenced
                   /\ d.tone = c.tone \/ (d.tone = "beep" /\ ~c.silenced)
<1>5. ASSUME c.level = "OFF" PROVE Good
  <2> PICK z \in Int : z = 0
    OBVIOUS
  <2>1. d = [c EXCEPT !.bucket = b, !.sinceBeep = z]
    BY <1>4, <1>5
  <2> QED BY <1>1, <2>1 DEF LiveCue
<1>6. ASSUME c.level # "OFF", due, ~c.silenced PROVE Good
  <2> PICK z \in Int : z = 0
    OBVIOUS
  <2>1. d = [kept EXCEPT !.tone = "beep", !.sinceBeep = z]
    BY <1>4, <1>6
  <2> QED BY <1>3, <1>6, <2>1 DEF LiveCue
<1>7. ASSUME c.level # "OFF", ~(due /\ ~c.silenced) PROVE Good
  <2>1. d = kept
    BY <1>4, <1>7
  <2> QED BY <1>3, <2>1
<1> QED BY <1>5, <1>6, <1>7 DEF d

\* After driveAlert a tone needs a level; a tone that begins was not hushed,
\* and the cut tone begins with the edge.
LEMMA DriveAlertMoves ==
  ASSUME NEW c \in LiveCue, NEW a \in LiveAlert, NEW edge \in BOOLEAN,
         c.tone # "none" => c.level # "OFF"
  PROVE  LET d == DriveAlert(c, a, edge)
         IN /\ d \in LiveCue /\ d.level = a.level /\ d.silenced = c.silenced
            /\ d.tone # "none" => a.level # "OFF" /\ (d.tone = c.tone \/ ~c.silenced)
            /\ d.tone = "cut" => c.tone = "cut" \/ edge
<1> DEFINE driven ==
             CASE a.level = "STOP_NOW" ->
                    [c EXCEPT !.tone = IF edge /\ ~c.silenced THEN "cut" ELSE @,
                              !.bucket = 0, !.sinceBeep = 0]
               [] a.level = "APPROACHING" -> Countdown(c, a)
               [] a.level = "OFF" ->
                    [(IF c.level = "OFF" THEN c ELSE TargetSilence(c)) EXCEPT !.bucket = 0, !.sinceBeep = 0]
           d == DriveAlert(c, a, edge)
           Good == /\ driven \in LiveCue /\ driven.silenced = c.silenced
                   /\ driven.tone # "none" => a.level # "OFF" /\ (driven.tone = c.tone \/ ~c.silenced)
                   /\ driven.tone = "cut" => c.tone = "cut" \/ edge
<1>1. d = [driven EXCEPT !.level = a.level, !.flow = a.flow]
  BY DEF DriveAlert
<1>2. ASSUME a.level = "STOP_NOW" PROVE Good
  <2> DEFINE tone == IF edge /\ ~c.silenced THEN "cut" ELSE c.tone
  <2> PICK z \in Int : z = 0
    OBVIOUS
  <2>1. driven = [c EXCEPT !.tone = tone, !.bucket = z, !.sinceBeep = z]
    BY <1>2
  <2>2. tone \in {"none", "beep", "cut"} /\ (tone = c.tone \/ (edge /\ ~c.silenced))
    BY DEF LiveCue
  <2> HIDE DEF driven, tone
  <2>3. driven \in LiveCue /\ driven.silenced = c.silenced /\ driven.tone = tone
    BY <2>1, <2>2 DEF LiveCue
  <2> QED BY <1>2, <2>2, <2>3
<1>3. ASSUME a.level = "APPROACHING" PROVE Good
  <2>1. driven = Countdown(c, a)
    BY <1>3
  <2> HIDE DEF driven
  <2> QED BY <1>3, <2>1, CountdownMoves
<1>4. ASSUME a.level = "OFF" PROVE Good
  <2> DEFINE hushed == IF c.level = "OFF" THEN c ELSE TargetSilence(c)
  <2>1. hushed \in LiveCue /\ hushed.tone = "none" /\ hushed.silenced = c.silenced
    BY DEF TargetSilence, LiveCue
  <2> PICK z \in Int : z = 0
    OBVIOUS
  <2>2. driven = [hushed EXCEPT !.bucket = z, !.sinceBeep = z]
    BY <1>4
  <2> HIDE DEF driven, hushed
  <2>3. driven \in LiveCue /\ driven.tone = "none" /\ driven.silenced = c.silenced
    BY <2>1, <2>2 DEF LiveCue
  <2> QED BY <2>3
<1>5. Good
  BY <1>2, <1>3, <1>4 DEF LiveAlert, Levels
<1>6. a.level \in Levels /\ a.flow \in BOOLEAN
  BY DEF LiveAlert
<1> HIDE DEF driven, d
<1>7. d \in LiveCue /\ d.level = a.level /\ d.silenced = driven.silenced /\ d.tone = driven.tone
  BY <1>1, <1>5, <1>6 DEF LiveCue
<1> QED BY <1>5, <1>7 DEF d
-----------------------------------------------------------------------------
(* One frame, of a replay or live: the recorder, the predictor, the sounds.*)
Frame(kept, late, flow) ==
  LET run == RunAlert(alert, kept, flow)
  IN /\ rec' = run.rec /\ alert' = run.alert
     /\ cue' = DriveAlert(Later(Heard(rec, kept), late), run.alert, run.edge)

FrameInv ==
  /\ rec \in LiveRec /\ alert \in LiveAlert /\ cue \in LiveCue
  /\ RecordHasTarget /\ TargetsAgree /\ CueFollows /\ OnlyReplayPaused /\ ToneMeansAlert

LEMMA FrameKeeps ==
  ASSUME LiveInv, NEW turned \in BOOLEAN, NEW weighed \in BOOLEAN,
         NEW late \in BOOLEAN, NEW flow \in BOOLEAN,
         NEW up \in RecorderUpdates(rec, turned, weighed), NEW kept \in {up.rec, NoRec},
         Frame(kept, late, flow),
         ~paused, UNCHANGED <<paused, user, coeffs>>,
         liveView' # "Gone", liveView' \in LiveViews => liveView \in LiveViews
  PROVE  FrameInv'
<1> DEFINE run == RunAlert(alert, kept, flow)
           new == kept.phase = "RUNNING" /\ kept.target = NoSnapshot
           heard == Heard(rec, kept)
           c == Later(heard, late)
<1>1. RecordMoves(rec, up) /\ kept \in LiveRec
  BY UpdatesMove, NewRecType DEF LiveInv, LiveTypeOK, RecordMoves
<1>2. CurrentInPumpWindow(kept) =>
        \/ CurrentInPumpWindow(rec) /\ kept.target = rec.target
        \/ kept = NewRec /\ rec.phase # "RUNNING"
  BY <1>1, NewRecType DEF RecordMoves, CurrentInPumpWindow
<1>3. /\ run.rec \in LiveRec /\ run.alert \in LiveAlert /\ run.edge \in BOOLEAN
      /\ run.rec.phase = kept.phase
      /\ new => run.rec.target = coeffs /\ run.alert.target = coeffs
      /\ ~new => run.rec = kept /\ run.alert.target = alert.target
                 /\ (alert.fired => run.alert.fired)
      /\ run.alert.level # "OFF" => kept.phase = "RUNNING"
      /\ run.edge => run.alert.fired
  BY <1>1, RunAlertMoves DEF LiveInv, LiveTypeOK
<1>4. heard \in LiveCue /\ heard.level = cue.level /\ heard.tone = cue.tone
      /\ (~cue.silenced => ~heard.silenced)
  BY HeardKeeps DEF LiveInv
<1>5. c \in LiveCue /\ c.level = cue.level /\ c.tone \in {"none", cue.tone}
      /\ c.silenced = heard.silenced
  BY <1>4, LaterKeeps
<1>6. cue.tone # "none" =>
        /\ cue.level # "OFF" /\ ~cue.silenced /\ rec.phase = "RUNNING"
        /\ cue.tone = "cut" => alert.fired
  BY DEF LiveInv, ToneMeansAlert, CueFollows
<1>7. rec' = run.rec /\ alert' = run.alert /\ cue' = DriveAlert(c, run.alert, run.edge)
  BY DEF Frame
<1> HIDE DEF run, heard, c
<1>8. /\ cue' \in LiveCue /\ cue'.level = alert'.level /\ cue'.silenced = c.silenced
      /\ cue'.tone # "none" => alert'.level # "OFF" /\ (cue'.tone = c.tone \/ ~c.silenced)
      /\ cue'.tone = "cut" => c.tone = "cut" \/ run.edge
  <2>1. c.tone # "none" => c.level # "OFF"
    BY <1>5, <1>6
  <2>2. LET d == DriveAlert(c, run.alert, run.edge)
        IN /\ d \in LiveCue /\ d.level = run.alert.level /\ d.silenced = c.silenced
           /\ d.tone # "none" => run.alert.level # "OFF" /\ (d.tone = c.tone \/ ~c.silenced)
           /\ d.tone = "cut" => c.tone = "cut" \/ run.edge
    <3>1. run.alert \in LiveAlert /\ run.edge \in BOOLEAN
      BY <1>3
    <3> QED BY <1>5, <2>1, <3>1, DriveAlertMoves
  <2> QED BY <1>7, <2>2
<1>9. CurrentInPumpWindow(rec)' =>
        \/ new
        \/ ~new /\ CurrentInPumpWindow(rec) /\ rec' = kept /\ kept.target = rec.target
  <2>1. rec'.phase = kept.phase /\ (~new => rec' = kept)
    BY <1>3, <1>7
  <2>2. kept = NewRec => new
    BY NewRecType
  <2> HIDE DEF new
  <2> QED BY <1>2, <2>1, <2>2 DEF CurrentInPumpWindow
<1>10. coeffs # NoSnapshot /\ RecordHasTarget
  BY LiveAssumption DEF LiveInv, LiveTypeOK, NoSnapshot
<1>11. RecordHasTarget'
  BY <1>3, <1>7, <1>9, <1>10 DEF RecordHasTarget
<1>12. TargetsAgree'
  BY <1>3, <1>7, <1>9 DEF LiveInv, TargetsAgree
<1>13. CueFollows' /\ OnlyReplayPaused'
  BY <1>3, <1>7, <1>8 DEF CueFollows, OnlyReplayPaused
<1>14. ToneMeansAlert'
  <2> SUFFICES ASSUME cue'.tone # "none"
               PROVE  /\ ~cue'.silenced /\ rec'.phase = "RUNNING" /\ alert'.level # "OFF"
                      /\ cue'.tone = "cut" => alert'.fired
    BY DEF ToneMeansAlert
  <2>1. alert'.level # "OFF" /\ rec'.phase = "RUNNING" /\ kept.phase = "RUNNING"
    BY <1>3, <1>7, <1>8
  <2>2. ~cue'.silenced
    BY <1>4, <1>5, <1>6, <1>8
  <2>3. ASSUME cue'.tone = "cut" PROVE alert'.fired
    <3>1. CASE run.edge
      BY <1>3, <1>7, <3>1
    <3>2. CASE c.tone = "cut"
      <4>1. cue.tone = "cut" /\ rec.phase = "RUNNING" /\ alert.fired
        BY <1>5, <1>6, <3>2
      <4>2. ~new
        BY <1>2, <1>10, <2>1, <4>1 DEF CurrentInPumpWindow, RecordHasTarget
      <4> QED BY <1>3, <1>7, <4>1, <4>2
    <3> QED BY <1>8, <2>3, <3>1, <3>2
  <2> QED BY <2>1, <2>2, <2>3
<1> QED BY <1>3, <1>7, <1>8, <1>11, <1>12, <1>13, <1>14 DEF FrameInv
-----------------------------------------------------------------------------
(* The picture.                                                            *)
LEMMA DrawnShows == ASSUME NEW failed, Drawn(TRUE, failed) PROVE PanelShowsPresent'
BY DEF Drawn, PanelShowsPresent

\* A tick that asks for no drawing leaves what the panel shows true, or has
\* just lost a stored shot it could not read.
LEMMA PictureStill ==
  ASSUME ~CurrentInPumpWindow(rec), liveView \in LiveViews,
         UNCHANGED <<liveView, user, rec, scale, mounted, saved, accepted>>,
         liveView = "Live" \/ loaded' = loaded
  PROVE  Picture' = Picture
<1>1. CASE liveView = "Live"
  <2>1. CutState(rec, alert)' = CutState(rec, alert)
    BY DEF CutState, CurrentInPumpWindow
  <2>2. TargetBand("Live", rec, cue, scale, FALSE)' = TargetBand("Live", rec, cue, scale, FALSE)
    BY DEF TargetBand, EffectiveTarget, LiveState, CurrentInPumpWindow, GaugeActive
  <2>3. LiveBody("Live", rec, cue, scale, FALSE)' = LiveBody("Live", rec, cue, scale, FALSE)
    BY <2>2 DEF LiveBody, LiveState, WeightGauge, GaugeActive, CurrentInPumpWindow
  <2>4. LiveViewPicture("Live", rec, alert, cue, scale, FALSE)'
          = LiveViewPicture("Live", rec, alert, cue, scale, FALSE)
    BY <2>1, <2>3 DEF LiveViewPicture
  <2> QED BY <1>1, <2>4 DEF Picture, ScreenPicture, StorageWarning
<1>2. CASE liveView \in {"LastShot", "LastShotChart"}
  <2>1. EffectiveShot(accepted, loaded)' = EffectiveShot(accepted, loaded)
    BY <1>2 DEF EffectiveShot
  <2> QED BY <1>2, <2>1 DEF Picture, ScreenPicture, StorageWarning, LastShotPicture,
                            LastShotChartPicture, SummaryPanel
<1> QED BY <1>1, <1>2 DEF LiveViews
-----------------------------------------------------------------------------
LEMMA LiveInitially == LiveInit => LiveInv
<1> SUFFICES ASSUME LiveInit PROVE LiveInv
  OBVIOUS
<1>1. LiveTypeOK
  <2>1. 0 \in 0 .. MaxYield /\ NoLastShot \in 0 .. MaxYield + 2
    BY LiveAssumption DEF NoLastShot
  <2> QED BY <2>1, NewRecType, FreshAlertType, NoCueType DEF LiveInit, LiveTypeOK
<1>2. rec.phase = "IDLE" /\ alert.level = "OFF" /\ cue.level = "OFF" /\ cue.tone = "none"
  BY NewRecType, FreshAlertType, NoCueType DEF LiveInit
<1>3. RecordHasTarget /\ TargetsAgree /\ CueFollows /\ OnlyReplayPaused
  BY <1>2 DEF LiveInit, RecordHasTarget, CurrentInPumpWindow, TargetsAgree, LiveViews,
              CueFollows, OnlyReplayPaused
<1>4. ToneMeansAlert /\ PanelShowsPresent
  BY <1>2 DEF LiveInit, ToneMeansAlert, PanelShowsPresent
<1> QED BY <1>1, <1>3, <1>4 DEF LiveInv

LEMMA OnEnterStep == LiveInv /\ OnEnter => LiveInv'
<1> SUFFICES ASSUME LiveInv, OnEnter PROVE LiveInv'
  OBVIOUS
<1>1. /\ liveView = "Gone" /\ liveView' = "Live" /\ coeffs' = user /\ rec' = NoRec
      /\ cue' = [NoCue EXCEPT !.tone = cue.tone] /\ paused' = FALSE
      /\ UNCHANGED <<user, alert, accepted, loaded>>
  BY DEF OnEnter
<1>2. PanelShowsPresent'
  BY DrawnShows DEF OnEnter
<1>3. cue.tone = "none" /\ alert.level = "OFF"
  BY <1>1 DEF LiveInv, ToneMeansAlert, CueFollows, OnlyReplayPaused, LiveTypeOK, LiveCue
<1>4. cue' \in LiveCue /\ cue'.tone = "none" /\ cue'.level = "OFF"
  BY <1>1, <1>3, NoCueType DEF LiveCue
<1>5. LiveTypeOK'
  BY <1>1, <1>4, NewRecType, LiveAssumption DEF LiveInv, LiveTypeOK, LiveViews
<1>6. ~CurrentInPumpWindow(rec)' /\ rec'.phase # "RUNNING"
  BY <1>1, NewRecType DEF CurrentInPumpWindow
<1>7. RecordHasTarget' /\ TargetsAgree' /\ CueFollows' /\ OnlyReplayPaused' /\ ToneMeansAlert'
  BY <1>1, <1>3, <1>4, <1>6
     DEF RecordHasTarget, TargetsAgree, CueFollows, OnlyReplayPaused, ToneMeansAlert
<1> QED BY <1>2, <1>5, <1>7 DEF LiveInv

\* Leaving the screen, starting and ending a replay begin with nothing in flight.
LEMMA ResetStep ==
  ASSUME LiveInv, ResetInFlight, cue' = NoCue, paused' = FALSE, coeffs' \in 0 .. MaxYield,
         liveView' \in LiveViews \cup {"Replay", "Gone"}, liveView' \in LiveViews => coeffs' = user,
         UNCHANGED <<user, accepted, loaded>>, Drawn(TRUE, FALSE)
  PROVE  LiveInv'
<1>1. rec' = NoRec /\ alert' = FreshAlert
  BY DEF ResetInFlight
<1>2. LiveTypeOK'
  BY <1>1, NewRecType, FreshAlertType, NoCueType DEF LiveInv, LiveTypeOK
<1>3. ~CurrentInPumpWindow(rec)' /\ rec'.phase # "RUNNING"
      /\ alert'.level = "OFF" /\ cue'.level = "OFF" /\ cue'.tone = "none"
  BY <1>1, NewRecType, FreshAlertType, NoCueType DEF CurrentInPumpWindow
<1>4. RecordHasTarget' /\ TargetsAgree' /\ CueFollows' /\ OnlyReplayPaused' /\ ToneMeansAlert'
  BY <1>3 DEF RecordHasTarget, TargetsAgree, CueFollows, OnlyReplayPaused, ToneMeansAlert
<1> QED BY <1>2, <1>4, DrawnShows DEF LiveInv

LEMMA LeaveAndReplaySteps == LiveInv /\ (OnExitLive \/ StartReplay \/ StopReplay) => LiveInv'
<1> SUFFICES ASSUME LiveInv, OnExitLive \/ StartReplay \/ StopReplay PROVE LiveInv'
  OBVIOUS
<1>1. user \in 0 .. MaxYield /\ coeffs \in 0 .. MaxYield
  BY LiveAssumption DEF LiveInv, LiveTypeOK
<1>2. CASE OnExitLive
  BY <1>1, <1>2, ResetStep DEF OnExitLive, LiveViews
<1>3. CASE StopReplay
  BY <1>1, <1>3, ResetStep DEF StopReplay, LiveViews
<1>4. CASE StartReplay
  <2>1. EffectiveShot(accepted, loaded)[2] \in 0 .. MaxYield + 1
    <3>1. (loaded # NoLastShot \/ accepted # NoLastShot)
      BY <1>4 DEF StartReplay, HasEffectiveShot
    <3>2. EffectiveShot(accepted, loaded)[2] = IF loaded # NoLastShot THEN loaded ELSE accepted
      BY DEF EffectiveShot
    <3> QED BY <3>1, <3>2, LiveAssumption DEF LiveInv, LiveTypeOK, NoLastShot
  <2>2. coeffs' = ResolveReplayCoeffs(EffectiveShot(accepted, loaded)[2])
    BY <1>4 DEF StartReplay
  <2>3. coeffs' \in 0 .. MaxYield
    BY <1>1, <2>1, <2>2, LiveAssumption DEF ResolveReplayCoeffs, NoSnapshot
  <2> QED BY <1>4, <2>3, ResetStep DEF StartReplay, LiveViews
<1> QED BY <1>2, <1>3, <1>4

\* Gestures that leave the record and the alert alone.
LEMMA GestureKeeps ==
  ASSUME LiveInv, UNCHANGED <<user, coeffs, rec, alert, accepted, loaded>>,
         liveView' \in LiveViews \cup {"Replay"}, liveView' \in LiveViews <=> liveView \in LiveViews,
         paused' \in BOOLEAN, paused' => liveView' = "Replay",
         cue' \in LiveCue, cue'.level = cue.level,
         cue'.tone # "none" => cue'.tone = cue.tone /\ ~cue'.silenced /\ ~paused',
         PanelShowsPresent'
  PROVE  LiveInv'
<1>1. LiveTypeOK'
  BY DEF LiveInv, LiveTypeOK
<1>2. CurrentInPumpWindow(rec)' = CurrentInPumpWindow(rec)
  BY DEF CurrentInPumpWindow
<1>3. RecordHasTarget' /\ TargetsAgree' /\ CueFollows' /\ OnlyReplayPaused'
  BY <1>2 DEF LiveInv, RecordHasTarget, TargetsAgree, CueFollows, OnlyReplayPaused, LiveViews
<1>4. ToneMeansAlert'
  BY DEF LiveInv, ToneMeansAlert, LiveViews
<1> QED BY <1>1, <1>3, <1>4 DEF LiveInv

LEMMA ToneFacts ==
  ASSUME LiveInv
  PROVE  /\ cue \in LiveCue /\ liveView \in LiveViews \cup {"Replay", "Gone"} /\ paused \in BOOLEAN
         /\ paused => liveView = "Replay"
         /\ cue.tone # "none" => ~cue.silenced /\ ~paused
BY DEF LiveInv, LiveTypeOK, OnlyReplayPaused, ToneMeansAlert

LEMMA HushStep == LiveInv /\ Hush => LiveInv'
<1> SUFFICES ASSUME LiveInv, Hush PROVE LiveInv'
  OBVIOUS
<1>1. cue' = [TargetSilence(cue) EXCEPT !.silenced = TRUE]
      /\ liveView \notin {"Gone", "Replay"}
      /\ UNCHANGED <<liveView, paused, band, user, coeffs, rec, alert, accepted, loaded, saved,
                     scale, mounted, loadFailed, panel>>
  BY DEF Hush
<1>2. cue' \in LiveCue /\ cue'.level = cue.level /\ cue'.tone = "none" /\ cue'.flow = cue.flow
  BY <1>1, ToneFacts DEF TargetSilence, LiveCue
<1>3. Picture' = Picture
  <2>1. CASE liveView = "Live"
    <3>1. TargetBand("Live", rec, cue, scale, FALSE)' = TargetBand("Live", rec, cue, scale, FALSE)
      BY <1>1, <1>2 DEF TargetBand, EffectiveTarget
    <3>2. LiveViewPicture("Live", rec, alert, cue, scale, FALSE)'
            = LiveViewPicture("Live", rec, alert, cue, scale, FALSE)
      BY <1>1, <3>1 DEF LiveViewPicture, LiveBody
    <3> QED BY <1>1, <2>1, <3>2 DEF Picture, ScreenPicture
  <2>2. CASE liveView \in {"LastShot", "LastShotChart"}
    BY <1>1, <2>2 DEF Picture, ScreenPicture
  <2> QED BY <1>1, <2>1, <2>2, ToneFacts DEF LiveViews
<1>4. PanelShowsPresent'
  BY <1>1, <1>3 DEF LiveInv, PanelShowsPresent
<1> QED BY <1>1, <1>2, <1>4, ToneFacts, GestureKeeps

LEMMA GestureSteps == LiveInv /\ (CycleView \/ TogglePause \/ ToggleBand) => LiveInv'
<1> SUFFICES ASSUME LiveInv, CycleView \/ TogglePause \/ ToggleBand PROVE LiveInv'
  OBVIOUS
<1>1. PanelShowsPresent'
  BY DrawnShows DEF CycleView, TogglePause, ToggleBand
<1>2. CASE CycleView
  <2>1. liveView \in LiveViews /\ liveView' \in LiveViews
    BY <1>2, ToneFacts DEF CycleView, LiveViews
  <2> QED BY <1>1, <1>2, <2>1, ToneFacts, GestureKeeps DEF CycleView, LiveViews
<1>3. CASE ToggleBand
  BY <1>1, <1>3, ToneFacts, GestureKeeps DEF ToggleBand
<1>4. CASE TogglePause
  <2>1. cue' = (IF paused THEN [cue EXCEPT !.sinceBeep = 0] ELSE TargetSilence(cue))
    BY <1>4 DEF TogglePause
  <2>2. cue' \in LiveCue /\ cue'.level = cue.level
        /\ (cue'.tone # "none" => paused /\ cue'.tone = cue.tone)
    <3>1. CASE paused
      <4> PICK z \in Int : z = 0
        OBVIOUS
      <4>1. cue' = [cue EXCEPT !.sinceBeep = z]
        BY <2>1, <3>1
      <4> QED BY <3>1, <4>1, ToneFacts DEF LiveCue
    <3>2. CASE ~paused
      BY <2>1, <3>2, ToneFacts DEF TargetSilence, LiveCue
    <3> QED BY <3>1, <3>2
  <2>3. cue'.tone = "none"
    BY <2>2, ToneFacts
  <2> QED BY <1>1, <1>4, <2>2, <2>3, ToneFacts, GestureKeeps DEF TogglePause
<1> QED BY <1>2, <1>3, <1>4

LEMMA ClearFinishedStep == LiveInv /\ ClearFinishedShot => LiveInv'
<1> SUFFICES ASSUME LiveInv, ClearFinishedShot PROVE LiveInv'
  OBVIOUS
<1>1. /\ liveView = "Live" /\ rec.phase = "DONE" /\ rec' = NoRec /\ cue' = NoCue
      /\ UNCHANGED <<liveView, paused, user, coeffs, alert, accepted, loaded>>
  BY DEF ClearFinishedShot
<1>2. PanelShowsPresent'
  BY DrawnShows DEF ClearFinishedShot
<1>3. LiveTypeOK'
  BY <1>1, NewRecType, NoCueType DEF LiveInv, LiveTypeOK
<1>4. ~CurrentInPumpWindow(rec)' /\ rec'.phase # "RUNNING"
      /\ alert'.level = "OFF" /\ cue'.level = "OFF" /\ cue'.tone = "none"
  BY <1>1, NewRecType, NoCueType DEF CurrentInPumpWindow, LiveInv, CueFollows
<1>5. RecordHasTarget' /\ TargetsAgree' /\ CueFollows' /\ OnlyReplayPaused' /\ ToneMeansAlert'
  BY <1>1, <1>4 DEF LiveInv, RecordHasTarget, TargetsAgree, CueFollows, OnlyReplayPaused,
                    ToneMeansAlert
<1> QED BY <1>2, <1>3, <1>5 DEF LiveInv

LEMMA SetTargetStep == LiveInv /\ SetTarget => LiveInv'
<1> SUFFICES ASSUME LiveInv, SetTarget PROVE LiveInv'
  OBVIOUS
<1>1. liveView = "Gone" /\ user' \in UserTargets
      /\ UNCHANGED <<liveView, paused, coeffs, rec, alert, cue, accepted, loaded, saved,
                     scale, mounted, loadFailed, panel>>
  BY DEF SetTarget
<1>2. LiveTypeOK'
  BY <1>1 DEF LiveInv, LiveTypeOK
<1>3. RecordHasTarget' /\ TargetsAgree' /\ CueFollows' /\ OnlyReplayPaused' /\ ToneMeansAlert'
  BY <1>1 DEF LiveInv, RecordHasTarget, CurrentInPumpWindow, TargetsAgree, LiveViews,
              CueFollows, OnlyReplayPaused, ToneMeansAlert
<1>4. Picture = <<"Gone", "", <<"Gone">> >> /\ Picture' = <<"Gone", "", <<"Gone">> >>
  BY <1>1 DEF Picture, ScreenPicture
<1>5. PanelShowsPresent'
  BY <1>1, <1>4 DEF LiveInv, PanelShowsPresent
<1> QED BY <1>2, <1>3, <1>5 DEF LiveInv
-----------------------------------------------------------------------------
LEMMA ReplayFrameStep == LiveInv /\ ReplayFrame => LiveInv'
<1> SUFFICES ASSUME LiveInv, ReplayFrame PROVE LiveInv'
  OBVIOUS
<1>1. Lates \subseteq BOOLEAN /\ Flows \subseteq BOOLEAN
  BY DEF Lates, Flows
<1>2. PICK turned \in BOOLEAN, late \in Lates, flow \in Flows :
        \E up \in RecorderUpdates(rec, turned, TRUE) : Frame(up.rec, late, flow)
  BY DEF ReplayFrame, Frame
<1>3. PICK up \in RecorderUpdates(rec, turned, TRUE) : Frame(up.rec, late, flow)
  BY <1>2
<1>4. liveView = "Replay" /\ liveView' = "Replay" /\ ~paused
      /\ UNCHANGED <<paused, user, coeffs, accepted, loaded>>
  BY DEF ReplayFrame
<1>5. late \in BOOLEAN /\ flow \in BOOLEAN /\ up.rec \in {up.rec, NoRec}
  BY <1>1
<1>6. FrameInv'
  BY <1>3, <1>4, <1>5, FrameKeeps DEF LiveViews
<1>7. PanelShowsPresent'
  BY DrawnShows DEF ReplayFrame
<1>8. LiveTypeOK'
  BY <1>4, <1>6 DEF FrameInv, LiveInv, LiveTypeOK
<1> QED BY <1>6, <1>7, <1>8 DEF FrameInv, LiveInv

\* A tick without an edge, outside the pump window, leaves the record as it was.
LEMMA QuietTick ==
  ASSUME LiveInv, NEW turned \in BOOLEAN, NEW weighed \in BOOLEAN, NEW flow \in BOOLEAN,
         NEW up \in RecorderUpdates(rec, turned, weighed), up.finished = NoRec,
         rec' = RunAlert(alert, up.rec, flow).rec, ~CurrentInPumpWindow(rec'), rec'.phase = rec.phase
  PROVE  up.rec = rec /\ rec' = rec
<1>1. RecordMoves(rec, up)
  BY UpdatesMove DEF LiveInv, LiveTypeOK
<1>2. up.rec \in LiveRec /\ alert \in LiveAlert /\ coeffs \in 0 .. MaxYield
  BY <1>1 DEF LiveInv, LiveTypeOK, RecordMoves
<1>3. rec'.phase = up.rec.phase /\ (up.rec.phase # "RUNNING" => rec' = up.rec)
  <2> DEFINE q == up.rec
             run == RunAlert(alert, q, flow)
             new == q.phase = "RUNNING" /\ q.target = NoSnapshot
  <2>1. rec' = run.rec /\ q \in LiveRec
    BY <1>2
  <2> HIDE DEF q
  <2>2. run.rec.phase = q.phase /\ (~new => run.rec = q)
    BY <1>2, <2>1, RunAlertMoves
  <2>3. rec'.phase = q.phase /\ (q.phase # "RUNNING" => rec' = q)
    BY <2>1, <2>2
  <2> QED BY <2>3 DEF q
<1>4. ~CurrentInPumpWindow(up.rec) /\ ~CurrentInPumpWindow(rec) /\ rec' = up.rec
  BY <1>3 DEF CurrentInPumpWindow
<1> QED BY <1>1, <1>4 DEF RecordMoves

LEMMA TickStep == LiveInv /\ Tick => LiveInv'
<1> SUFFICES ASSUME LiveInv, Tick PROVE LiveInv'
  OBVIOUS
<1>1. liveView \in LiveViews /\ scale' \in BOOLEAN /\ UNCHANGED <<paused, user, coeffs, mounted>>
  BY DEF Tick, LiveViews
<1>2. Lates \subseteq BOOLEAN /\ Flows \subseteq BOOLEAN
  BY DEF Lates, Flows
<1>3. PICK turned \in BOOLEAN, late \in Lates, flow \in Flows, load \in Loads :
        LiveTick(turned, late, flow, load)
  BY DEF Tick
<1> DEFINE finishes(up) == up.finished # NoRec
           accepts(up) == finishes(up) /\ up.finished.real
           kept(up) == IF finishes(up) /\ ~accepts(up) /\ up.rec.phase = "DONE" THEN NoRec ELSE up.rec
           edge(up) == RunAlert(alert, kept(up), flow).edge
<1>4. PICK up \in RecorderUpdates(rec, turned, scale') :
        /\ Frame(kept(up), late, flow)
        /\ accepted' = (IF accepts(up) THEN up.finished.target ELSE accepted)
        /\ loaded' = (IF accepts(up) THEN NoLastShot ELSE AfterLoad(load))
        /\ saved' \in (IF ~accepts(up) THEN {saved} ELSE IF mounted THEN BOOLEAN ELSE {FALSE})
        /\ liveView' = (IF PourStarts(rec, kept(up)) THEN "Live" ELSE liveView)
        /\ Drawn(saved' # saved
                   \/ FrameNeeded(rec, rec', finishes(up), edge(up), load, scale' # scale),
                 load.kind = "fails")
  BY <1>3 DEF LiveTick, Frame
<1>5. late \in BOOLEAN /\ flow \in BOOLEAN /\ kept(up) \in {up.rec, NoRec} /\ ~paused
  BY <1>1, <1>2, ToneFacts DEF LiveViews
<1>6. liveView' \in LiveViews
  BY <1>1, <1>4 DEF LiveViews
<1>7. FrameInv'
  <2> HIDE DEF kept
  <2> QED BY <1>1, <1>4, <1>5, <1>6, FrameKeeps DEF LiveViews
<1>8. RecordMoves(rec, up)
  BY <1>1, UpdatesMove DEF LiveInv, LiveTypeOK
<1>9. LiveTypeOK'
  <2>1. up.finished.target \in 0 .. MaxYield + 2
    BY <1>8, LiveAssumption DEF RecordMoves, LiveRec
  <2>2. AfterLoad(load) \in 0 .. MaxYield + 2 /\ NoLastShot \in 0 .. MaxYield + 2
    <3>1. load.shot \in {NoLastShot} \cup Stored
      BY DEF Loads
    <3>2. NoLastShot \in 0 .. MaxYield + 2 /\ Stored \subseteq 0 .. MaxYield + 2
      BY LiveAssumption DEF NoLastShot, Stored, NoSnapshot
    <3> QED BY <3>1, <3>2 DEF AfterLoad, LiveInv, LiveTypeOK
  <2>3. accepted' \in 0 .. MaxYield + 2 /\ loaded' \in 0 .. MaxYield + 2
    BY <1>4, <2>1, <2>2 DEF LiveInv, LiveTypeOK
  <2> QED BY <1>1, <1>6, <1>7, <2>3 DEF FrameInv, LiveInv, LiveTypeOK
<1>10. PanelShowsPresent'
  <2> DEFINE draw == saved' # saved
                       \/ FrameNeeded(rec, rec', finishes(up), edge(up), load, scale' # scale)
  <2>1. CASE draw
    BY <1>4, <2>1 DEF Drawn, PanelShowsPresent
  <2>2. CASE ~draw
    <3>1. /\ ~CurrentInPumpWindow(rec') /\ rec'.phase = rec.phase /\ ~finishes(up)
          /\ load.kind # "reads" /\ scale' = scale /\ saved' = saved
      BY <2>2 DEF FrameNeeded
    <3>2. panel' = panel /\ loadFailed' = (loadFailed \/ load.kind = "fails")
      BY <1>4, <2>2 DEF Drawn
    <3>3. kept(up) = up.rec /\ up.finished = NoRec
      BY <3>1
    <3>4. rec' = RunAlert(alert, up.rec, flow).rec
      BY <1>4, <3>3 DEF Frame
    <3>5. up.rec = rec /\ rec' = rec
      BY <1>1, <1>5, <3>1, <3>3, <3>4, QuietTick
    <3>6. liveView' = liveView /\ accepted' = accepted /\ loaded' = AfterLoad(load)
      BY <1>4, <3>1, <3>3, <3>5 DEF PourStarts
    <3>7. ~CurrentInPumpWindow(rec)
      BY <3>1, <3>5
    <3>8. CASE liveView = "Live" \/ loaded' = loaded
      <4>1. Picture' = Picture
        BY <1>1, <3>1, <3>5, <3>6, <3>7, <3>8, PictureStill
      <4> QED BY <3>2, <3>6, <4>1 DEF LiveInv, PanelShowsPresent
    <3>9. CASE liveView # "Live" /\ loaded' # loaded
      <4>1. load.kind = "fails"
        BY <3>1, <3>6, <3>9 DEF AfterLoad, Loads
      <4> QED BY <1>1, <3>2, <3>6, <3>9, <4>1 DEF PanelShowsPresent, LiveViews
    <3> QED BY <3>8, <3>9
  <2> QED BY <2>1, <2>2
<1> QED BY <1>7, <1>9, <1>10 DEF FrameInv, LiveInv
-----------------------------------------------------------------------------
THEOREM LiveInvariant == LiveSpec => []LiveInv
<1>1. LiveInv /\ [Live]_liveVars => LiveInv'
  <2> SUFFICES ASSUME LiveInv, [Live]_liveVars PROVE LiveInv'
    OBVIOUS
  <2>1. CASE OnEnter \/ OnExitLive \/ StartReplay \/ StopReplay
    BY <2>1, OnEnterStep, LeaveAndReplaySteps
  <2>2. CASE SetTarget \/ Hush \/ ClearFinishedShot
    BY <2>2, SetTargetStep, HushStep, ClearFinishedStep
  <2>3. CASE CycleView \/ TogglePause \/ ToggleBand
    BY <2>3, GestureSteps
  <2>4. CASE ReplayFrame
    BY <2>4, ReplayFrameStep
  <2>5. CASE Tick
    BY <2>5, TickStep
  <2>6. CASE UNCHANGED liveVars
    <3>1. LiveTypeOK'
      BY <2>6 DEF liveVars, LiveInv, LiveTypeOK
    <3>2. RecordHasTarget' /\ TargetsAgree' /\ CueFollows' /\ OnlyReplayPaused' /\ ToneMeansAlert'
      BY <2>6 DEF liveVars, LiveInv, RecordHasTarget, CurrentInPumpWindow, TargetsAgree, CueFollows,
                  OnlyReplayPaused, ToneMeansAlert
    <3>3. Picture' = Picture
      <4>1. EffectiveShot(accepted, loaded)' = EffectiveShot(accepted, loaded)
        BY <2>6 DEF liveVars, EffectiveShot
      <4>2. \A v, r, c, on, fb : TargetBand(v, r, c, on, fb)' = TargetBand(v, r, c, on, fb)
        BY <2>6 DEF liveVars, TargetBand, EffectiveTarget, ResolveReplayCoeffs
      <4> QED BY <2>6, <4>1, <4>2 DEF liveVars, Picture, ScreenPicture, LiveViewPicture, LiveBody
    <3>4. PanelShowsPresent'
      BY <2>6, <3>3 DEF liveVars, LiveInv, PanelShowsPresent
    <3> QED BY <3>1, <3>2, <3>4 DEF LiveInv
  <2> QED BY <2>1, <2>2, <2>3, <2>4, <2>5, <2>6 DEF Live, LiveEvents
<1> QED BY <1>1, LiveInitially, PTL DEF LiveSpec

(* A live pull runs, and is recorded, with its user's target, whatever was *)
(* replayed before (startReplay, stopReplay, onEnter, _runTargetAlert).    *)
THEOREM LiveTarget == LiveSpec => []LivePullHasUserTarget
<1>1. LiveInv => LivePullHasUserTarget
  BY DEF LiveInv, TargetsAgree, LiveViews, CurrentInPumpWindow, LivePullHasUserTarget
<1> QED BY <1>1, LiveInvariant, PTL

(* A tone only sounds while there is an alert to hear (driveAlert and the  *)
(* targetSilence calls around it).                                         *)
THEOREM ToneIsAnAlert == LiveSpec => []ToneMeansAlert
<1>1. LiveInv => ToneMeansAlert
  BY DEF LiveInv
<1> QED BY <1>1, LiveInvariant, PTL

(* The panel is never left with a picture of the past (modelFor, tick,     *)
(* frameNeeded): a tick that asks for no drawing changed nothing in view.  *)
THEOREM PanelIsPresent == LiveSpec => []PanelShowsPresent
<1>1. LiveInv => PanelShowsPresent
  BY DEF LiveInv
<1> QED BY <1>1, LiveInvariant, PTL
=============================================================================
