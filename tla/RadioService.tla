---------------------------- MODULE RadioService ----------------------------
(***************************************************************************)
(* What WifiManager promises to the rest of the program: one slot of        *)
(* requests, which the main task empties and carries out one at a time, and *)
(* a published mode and state that follow the requests and the driver.      *)
(* Module NetworkServices implements it; the screens and the pairing of     *)
(* module WifiScreens are built on it.                                      *)
(***************************************************************************)
VARIABLES
  slot,        \* the action of the pending request
  doing,       \* the action taken, until it has been carried out
  radioMode, radio, fallback,   \* _mode, _state, _apIsFallback
  configured,  \* the flag in flash
  creds        \* station credentials in flash

radioVars == <<slot, doing, radioMode, radio, fallback, configured, creds>>

Idle    == "none"
Actions == {"connect", "reset", "startAp", "stop", "retry"}

RadioTypeOK ==
  /\ slot \in Actions \cup {Idle} /\ doing \in Actions \cup {Idle}
  /\ radioMode \in {"off", "sta", "ap"}
  /\ radio \in {"off", "connecting", "connected", "up"}
  /\ fallback \in BOOLEAN /\ configured \in BOOLEAN /\ creds \in BOOLEAN

\* A new device, or one that a user has set up on a network.
RadioInit ==
  /\ slot = Idle /\ doing = Idle
  /\ radioMode = "off" /\ radio = "off" /\ fallback = FALSE
  /\ configured \in BOOLEAN /\ creds = configured

-----------------------------------------------------------------------------
\* A newer request replaces an older one; an accepted reset yields to no other.
PostRadio(a) ==
  /\ slot' = IF slot = "reset" THEN slot ELSE a
  /\ UNCHANGED <<doing, radioMode, radio, fallback, configured, creds>>

\* The main task takes the request; a resubmission of the credentials of the
\* live session is dropped, and so is an attempt without credentials.
TakeRadio ==
  /\ slot # Idle /\ doing = Idle
  /\ slot' = Idle
  /\ \/ doing' = slot
     \/ slot = "connect" /\ radio = "connected" /\ creds /\ doing' = Idle
  /\ UNCHANGED <<radioMode, radio, fallback, configured, creds>>

Becomes(m, r, fb) == radioMode' = m /\ radio' = r /\ fallback' = fb

\* A station attempt, with or without saving; each write may fail.
StationStarts ==
  /\ Becomes("sta", "connecting", FALSE)
  /\ configured' \in {configured, TRUE}

\* The namespace is cleared, or flash refuses.
WipeConfig ==
  \E wiped \in BOOLEAN : configured' = (configured /\ ~wiped) /\ creds' = (creds /\ ~wiped)

\* What a request comes to. The access point may not come up, and credentials
\* may be unreadable.
CarryOut ==
  /\ doing # Idle /\ doing' = Idle
  /\ \/ doing = "connect" /\ StationStarts /\ creds' \in {creds, TRUE}
     \/ doing = "retry" /\ creds /\ StationStarts /\ UNCHANGED creds
     \/ doing = "retry" /\ UNCHANGED <<radioMode, radio, fallback, configured, creds>>
     \/ /\ doing = "startAp"
        /\ Becomes("ap", "up", FALSE) \/ Becomes("off", "off", FALSE)
        /\ UNCHANGED <<configured, creds>>
     \/ doing = "stop" /\ Becomes("off", "off", FALSE) /\ UNCHANGED <<configured, creds>>
     \/ /\ doing = "reset" /\ Becomes("off", "off", FALSE)
        /\ WipeConfig
  /\ UNCHANGED slot

\* "Wi-Fi on" retries the station without the slot.
RetryDirectly ==
  /\ creds /\ doing = Idle
  /\ StationStarts
  /\ UNCHANGED <<slot, doing, creds>>

\* The driver's events move the state within the mode.
Report ==
  /\ \/ radioMode = "sta" /\ radio' \in {"connecting", "connected"}
     \/ radioMode = "ap" /\ radio' \in {"up", "off"}
  /\ UNCHANGED <<slot, doing, radioMode, fallback, configured, creds>>

\* The connect timeout: the device's own access point, marked as fallback.
FallBack ==
  /\ radio = "connecting" /\ doing = Idle
  /\ Becomes("ap", "up", TRUE) \/ Becomes("off", "off", FALSE)
  /\ UNCHANGED <<slot, doing, configured, creds>>

MarkRadioConfigured ==
  /\ configured' = TRUE
  /\ UNCHANGED <<slot, doing, radioMode, radio, fallback, creds>>

\* Before an erasure the radio is stopped past the slot.
StopForErase ==
  /\ doing = Idle /\ Becomes("off", "off", FALSE)
  /\ UNCHANGED <<slot, doing, configured, creds>>

\* Power is lost; after an erasure flash is empty.
PowerCycle ==
  /\ slot' = Idle /\ doing' = Idle
  /\ Becomes("off", "off", FALSE)
  /\ WipeConfig

\* beginIfPersisted, with what flash holds.
BootRadio ==
  /\ radio = "off" /\ radioMode = "off" /\ configured /\ doing = Idle
  /\ \/ creds /\ Becomes("sta", "connecting", FALSE)
     \/ Becomes("ap", "up", FALSE) \/ Becomes("off", "off", FALSE)
  /\ UNCHANGED <<slot, doing, configured, creds>>

RadioNext ==
  \/ \E a \in Actions : PostRadio(a)
  \/ TakeRadio \/ CarryOut \/ RetryDirectly \/ Report \/ FallBack
  \/ MarkRadioConfigured \/ StopForErase \/ PowerCycle \/ BootRadio

RadioSpec == RadioInit /\ [][RadioNext]_radioVars
=============================================================================
