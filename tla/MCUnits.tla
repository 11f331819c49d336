------------------------------ MODULE MCUnits ------------------------------
(***************************************************************************)
(* One model for the parts of the program that share no state: a behavior  *)
(* is a behavior of one of them, the others stay as they begin.  Each has  *)
(* its own specification and its own bounds; nothing of one part is in the *)
(* properties of another.                                                  *)
(***************************************************************************)
EXTENDS ShotHistoryPage, PumpSpectrum, PumpSensor, Backflush, MCScaleDiagnostics

VARIABLE unit  \* the part this behavior is of

unitVars == <<unit, vars, pageVars, spectrumVars, sensorVars, backflushVars, messageVars>>

UnitsInit ==
  /\ unit \in {"store", "page", "spectrum", "sensor", "backflush", "messages"}
  /\ PageSpecInit /\ SensorInit /\ BackflushInit
  /\ MessagesInit /\ (unit = "messages" \/ mode = "connect")
  /\ IF unit = "spectrum" THEN SpectrumInit
     ELSE /\ spectrum = [b \in AnalysisBins |-> 0] /\ inside = {} /\ tone = NotAnalyzed

StoreStep ==
  /\ unit = "store" /\ Next
  /\ UNCHANGED <<unit, pageVars, spectrumVars, sensorVars, backflushVars, messageVars>>

\* Bound: saves, clicks, losses, faults and erasures together, fewer than where
\* the store is alone.
PageEvents == 5

PageBound ==
  saves' + (MaxClicks - clicks') + (MaxFaults - faults') + erasures' <= PageEvents

PageUnitStep ==
  /\ unit = "page" /\ PageNext /\ PageBound
  /\ UNCHANGED <<unit, spectrumVars, sensorVars, backflushVars, messageVars>>

SpectrumStep ==
  /\ unit = "spectrum" /\ Analyze
  /\ UNCHANGED <<unit, vars, pageVars, sensorVars, backflushVars, messageVars>>

SensorStep ==
  /\ unit = "sensor"
  /\ SensorTask \/ Frame \/ Sessions
  /\ UNCHANGED <<unit, vars, pageVars, spectrumVars, backflushVars, messageVars>>

BackflushStep ==
  /\ unit = "backflush"
  /\ HoldA \/ TapA \/ OnEnter \/ SessionTick \/ SummaryTick
  /\ UNCHANGED <<unit, vars, pageVars, spectrumVars, sensorVars, messageVars>>

\* Bound: notifications, packets, toggles and polls together.
MessageEvents == 4

MessagesStep ==
  /\ unit = "messages" /\ Messages
  /\ spent'["notes"] + spent'["sends"] + spent'["toggles"] + spent'["polls"] <= MessageEvents
  /\ UNCHANGED <<unit, vars, pageVars, spectrumVars, sensorVars, backflushVars>>

UnitsNext == MessagesStep \/ StoreStep \/ PageUnitStep \/ SpectrumStep \/ SensorStep \/ BackflushStep

UnitsSpec == UnitsInit /\ [][UnitsNext]_unitVars
=============================================================================
