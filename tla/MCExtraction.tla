---------------------------- MODULE MCExtraction ----------------------------
(***************************************************************************)
(* One model for the two halves of a pull that are checked apart: the      *)
(* recorder in every detail (ExtractionRecorder.tla), and the screen with  *)
(* its replay, its alert and its picture, which reduces the recorder       *)
(* (LiveScreen.tla).  A behavior is a behavior of one of them, the other   *)
(* stays as it begins.                                                     *)
(***************************************************************************)
EXTENDS ExtractionRecorder, LiveScreen

VARIABLE half  \* the half this behavior is of

ExtractionInit ==
  /\ half \in {"recorder", "screen"}
  /\ RecorderInit /\ LiveInit /\ (half = "screen" \/ user = 0)

RecorderStep == half = "recorder" /\ RecorderNext /\ UNCHANGED <<half, liveVars>>
ScreenStep == half = "screen" /\ Live /\ UNCHANGED <<half, pullVars>>

ExtractionNext == RecorderStep \/ ScreenStep

ExtractionSpec ==
  /\ ExtractionInit /\ [][ExtractionNext]_<<half, pullVars, liveVars>>
  /\ half = "recorder" => []<><<now' # now>>_now
=============================================================================
