---------------------------- MODULE MCServices ----------------------------
(***************************************************************************)
(* One model for the parts around the extraction that share no state: the  *)
(* foreground, the logs and what they show, the pairing of browsers with   *)
(* the screens around it, and the record's binary form.                    *)
(* A behavior is a behavior of one of them, the others stay as they begin. *)
(***************************************************************************)
EXTENDS Foreground, HeapMonitor, RuntimeLogs, ExtractionCodec, WifiScreens

VARIABLE service  \* the part this behavior is of

serviceVars == <<service, ui, heapVars, runtimeVars, wireVars, vars>>

\* The parts of which every initial state is a case, and what they hold else.
WireRests == given = NoRecord /\ wire = <<>> /\ sized = 0 /\ restored = NoRecord
UiRests == ui = [canvas |-> FALSE]

ServicesInit ==
  /\ service \in {"foreground", "heap", "logs", "wire", "pairing"}
  /\ HeapInit /\ Init /\ RuntimeLogsInit /\ (service = "logs" \/ ~HasPanicDump)
  /\ IF service = "wire" THEN WireInit ELSE WireRests
  /\ IF service = "foreground" THEN ForegroundInit ELSE UiRests

ForegroundStep ==
  /\ service = "foreground" /\ Foreground
  /\ UNCHANGED <<service, heapVars, runtimeVars, wireVars, vars>>

HeapStep ==
  /\ service = "heap" /\ HeapNext
  /\ UNCHANGED <<service, ui, runtimeVars, wireVars, vars>>

LogsStep ==
  /\ service = "logs" /\ RuntimeLogsNext
  /\ UNCHANGED <<service, ui, heapVars, wireVars, vars>>

WireStep ==
  /\ service = "wire" /\ Wire
  /\ UNCHANGED <<service, ui, heapVars, runtimeVars, vars>>

PairingStep ==
  /\ service = "pairing" /\ Next
  /\ UNCHANGED <<service, ui, heapVars, runtimeVars, wireVars>>

ServicesNext == ForegroundStep \/ HeapStep \/ LogsStep \/ WireStep \/ PairingStep

ServicesSpec == ServicesInit /\ [][ServicesNext]_serviceVars
=============================================================================
