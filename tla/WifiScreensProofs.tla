--------------------------- MODULE WifiScreensProofs ---------------------------
(***************************************************************************)
(* Proofs about pairing, for any number of browsers, windows, tokens and   *)
(* guesses, with the screens, the radio and the server task around it.     *)
(***************************************************************************)
EXTENDS WifiScreens, SequenceTheorems, TLAPS

------------------------------------------------------------------------------
(* Lists of tokens.                                                        *)

LEMMA AppendedTokens ==
  ASSUME NEW s \in Seq(Nat), NEW t \in Nat
  PROVE  /\ Append(s, t) \in Seq(Nat) /\ Len(Append(s, t)) = Len(s) + 1
         /\ ToSet(Append(s, t)) = ToSet(s) \cup {t}
<1>1. /\ Append(s, t) \in Seq(Nat) /\ Len(Append(s, t)) = Len(s) + 1
      /\ \A i \in 1..Len(s) : Append(s, t)[i] = s[i]
      /\ Append(s, t)[Len(s) + 1] = t
  OBVIOUS
<1>2. DOMAIN Append(s, t) = DOMAIN s \cup {Len(s) + 1} /\ DOMAIN s = 1..Len(s)
  BY <1>1
<1> QED BY <1>1, <1>2 DEF ToSet

LEMMA RestOfTokens ==
  ASSUME NEW s \in Seq(Nat), s # <<>>
  PROVE  /\ Tail(s) \in Seq(Nat) /\ Len(Tail(s)) = Len(s) - 1
         /\ ToSet(Tail(s)) \subseteq ToSet(s)
BY DEF ToSet

LEMMA NoTokens == <<>> \in Seq(Nat) /\ Len(<<>>) = 0 /\ ToSet(<<>>) = {}
BY DEF ToSet

------------------------------------------------------------------------------
(* What a step of the program, whoever takes it, does to the pairing       *)
(* window with its counts and to the store of tokens.                      *)

Shuts ==
  window' \in {Closed, [window EXCEPT !.over = TRUE],
               [window EXCEPT !.active = FALSE, !.over = FALSE]}

WindowMoves ==
  \/ UNCHANGED <<admitted, wrong>> /\ (UNCHANGED window \/ StartPairing \/ Shuts)
  \/ ConsumePairing

StoreKeeps == UNCHANGED <<tokens, flash, gone, refused, back, minted>>
StoreReboots ==
  /\ tokens' = [loaded |-> FALSE, list |-> <<>>] /\ UNCHANGED <<flash, gone, minted>>
  /\ refused' = FALSE /\ back' = IF refused THEN ToSet(flash) ELSE back

StoreMoves ==
  \/ StoreKeeps \/ StoreReboots
  \/ UNCHANGED minted /\ \E ok \in BOOLEAN : ReadTokens(ok) \/ ForgetAll(ok)
  \/ minted' = minted + 1 /\ \E ok \in BOOLEAN : AppendToken(minted + 1, ok)

LEMMA GestureMoves == Gesture => WindowMoves /\ StoreMoves
<1> SUFFICES ASSUME Gesture PROVE WindowMoves /\ StoreMoves OBVIOUS
<1>1. UNCHANGED <<admitted, wrong, minted>> BY DEF Gesture
<1>2. CASE OpenStatus
  BY <1>1, <1>2 DEF OpenStatus, WindowMoves, StoreMoves, StoreKeeps
<1>3. CASE Visit
  BY <1>1, <1>3 DEF Visit, WindowMoves, StoreMoves, StoreKeeps, Shuts, CancelPairing, storeVars
<1>4. CASE OpenMenu \/ CloseOverlay \/ SwitchWifi \/ ChooseUnpair
  BY <1>1, <1>4 DEF OpenMenu, CloseOverlay, SwitchWifi, ChooseUnpair, WindowMoves, StoreMoves, StoreKeeps,
                    storeVars
<1>5. CASE Unpair
  BY <1>1, <1>5 DEF Unpair, WindowMoves, StoreMoves, StoreKeeps
<1>6. CASE LeaveStatus \/ ChooseNetwork
  BY <1>1, <1>6 DEF LeaveStatus, ChooseNetwork, Leave, CancelPairing, WindowMoves, StoreMoves, StoreKeeps,
                    Shuts, storeVars
<1>7. CASE WizardGesture
  <2>1. ASSUME NEW how, FinishWizard(how) PROVE WindowMoves /\ StoreMoves
    BY <1>1, <2>1 DEF FinishWizard, Leave, CancelPairing, WindowMoves, StoreMoves, StoreKeeps, Shuts
  <2>2. CASE SetStep("joinQr") /\ UNCHANGED storeVars
    BY <1>1, <2>2 DEF SetStep, WindowMoves, StoreMoves, StoreKeeps, storeVars
  <2> QED BY <1>7, <2>1, <2>2 DEF WizardGesture, CancelWizard
<1> QED BY <1>2, <1>3, <1>4, <1>5, <1>6, <1>7 DEF Gesture

LEMMA TickMoves == Tick => WindowMoves /\ StoreMoves
<1> SUFFICES ASSUME Tick PROVE WindowMoves /\ StoreMoves OBVIOUS
<1>1. UNCHANGED <<admitted, wrong, minted>> BY DEF Tick
<1>2. CASE UNCHANGED <<window, storeVars>>
  BY <1>1, <1>2 DEF WindowMoves, StoreMoves, StoreKeeps, storeVars
<1>3. CASE StatusTick
  BY <1>1, <1>3 DEF StatusTick, PushWizard, Leave, CancelPairing, WindowMoves, StoreMoves, StoreKeeps, Shuts,
                    storeVars
<1>4. CASE WizardTick
  BY <1>1, <1>4 DEF WizardTick, SetStep, WindowMoves, StoreMoves, StoreKeeps, storeVars
<1> QED BY <1>2, <1>3, <1>4 DEF Tick

LEMMA StepMoves == [Next]_vars => WindowMoves /\ StoreMoves
<1> SUFFICES ASSUME [Next]_vars PROVE WindowMoves /\ StoreMoves OBVIOUS
<1>1. CASE UNCHANGED authVars
  BY <1>1 DEF authVars, storeVars, WindowMoves, StoreMoves, StoreKeeps
<1>2. CASE Boot \/ NoGesture \/ CountRedemptions \/ LinkReport \/ UNCHANGED vars
  BY <1>1, <1>2 DEF Boot, NoGesture, CountRedemptions, LinkReport, vars
<1>3. CASE RadioPass
  <2>1. UNCHANGED <<window, minted, admitted, wrong>> BY <1>3 DEF RadioPass
  <2>2. UNCHANGED storeVars \/ \E ok \in BOOLEAN : ForgetAll(ok) BY <1>3 DEF RadioPass
  <2> QED BY <2>1, <2>2 DEF WindowMoves, StoreMoves, StoreKeeps, storeVars
<1>4. CASE LatePass
  BY <1>4 DEF LatePass, ExpirePairing, storeVars, WindowMoves, StoreMoves, StoreKeeps, Shuts
<1>5. CASE Request
  BY <1>5 DEF Request, BeginRequest, storeVars, WindowMoves, StoreMoves, StoreKeeps
<1>6. CASE Handler
  <2>1. CASE CheckToken BY <2>1 DEF CheckToken, WindowMoves, StoreMoves, StoreKeeps
  <2>2. CASE ConsumePairing
    <3>1. UNCHANGED <<storeVars, minted>> BY <2>2 DEF ConsumePairing
    <3> QED BY <2>2, <3>1 DEF WindowMoves, StoreMoves, StoreKeeps, storeVars
  <2>3. CASE MintToken BY <2>3 DEF MintToken, WindowMoves, StoreMoves, StoreKeeps
  <2>4. CASE CountArrival \/ HandlerPosts
    BY <2>4 DEF CountArrival, HandlerPosts, WindowMoves, StoreMoves, StoreKeeps, storeVars
  <2>5. CASE FirstPair BY <2>5 DEF FirstPair, WindowMoves, StoreMoves, StoreKeeps
  <2> QED BY <1>6, <2>1, <2>2, <2>3, <2>4, <2>5 DEF Handler
<1>7. CASE TimePasses
  BY <1>7 DEF TimePasses, WindowAges, storeVars, WindowMoves, StoreMoves, StoreKeeps, Shuts
<1>8. CASE Restart
  BY <1>8 DEF Restart, AuthPowerUp, WindowMoves, StoreMoves, StoreReboots, Shuts
<1> QED BY <1>2, <1>3, <1>4, <1>5, <1>6, <1>7, <1>8, GestureMoves, TickMoves DEF Next, MainLoop

------------------------------------------------------------------------------
(* The window.                                                             *)

WindowTypes ==
  /\ window \in [active : BOOLEAN, n : 0..MaxWindows, over : BOOLEAN, guesses : 0..MaxAttempts]
  /\ admitted \in [1..MaxWindows -> Nat] /\ wrong \in [1..MaxWindows -> Nat]

(* An open window has let nobody in and counts the guesses of its own, the *)
(* windows after it have seen nothing yet.                                 *)
OpenIsUnused ==
  window.active =>
    /\ window.n > 0 /\ admitted[window.n] = 0
    /\ window.guesses = wrong[window.n] /\ window.guesses < MaxAttempts
LaterUnseen ==
  \A n \in 1..MaxWindows : n > window.n => admitted[n] = 0 /\ wrong[n] = 0

WindowInv == WindowTypes /\ OpenIsUnused /\ LaterUnseen /\ OneClientPerWindow /\ GuessesBounded

LEMMA WindowInvInit == Init => WindowInv
BY AuthAssumption DEF Init, AuthInit, WindowInv, WindowTypes, OpenIsUnused, LaterUnseen,
   OneClientPerWindow, GuessesBounded

LEMMA WindowInvStep == WindowInv /\ WindowMoves => WindowInv'
<1> SUFFICES ASSUME WindowInv, WindowMoves PROVE WindowInv' OBVIOUS
<1> USE DEF WindowInv
<1>1. CASE UNCHANGED <<admitted, wrong, window>>
  BY <1>1 DEF WindowTypes, OpenIsUnused, LaterUnseen, OneClientPerWindow, GuessesBounded
<1>2. CASE UNCHANGED <<admitted, wrong>> /\ StartPairing
  <2>1. /\ window.n \in 0..MaxWindows /\ window.n < MaxWindows
        /\ window' = [active |-> TRUE, n |-> window.n + 1, over |-> FALSE, guesses |-> 0]
    BY <1>2 DEF StartPairing, WindowTypes
  <2>2. WindowTypes'
    BY <1>2, <2>1, AuthAssumption DEF WindowTypes
  <2>3. OpenIsUnused' /\ LaterUnseen'
    BY <1>2, <2>1, AuthAssumption DEF OpenIsUnused, LaterUnseen
  <2> QED BY <1>2, <2>2, <2>3 DEF OneClientPerWindow, GuessesBounded
<1>3. CASE UNCHANGED <<admitted, wrong>> /\ Shuts
  <2>1. /\ window' \in [active : BOOLEAN, n : 0..MaxWindows, over : BOOLEAN,
                        guesses : 0..MaxAttempts]
        /\ window'.n = window.n /\ window'.guesses = window.guesses
        /\ window'.active => window.active
    BY <1>3 DEF Shuts, Closed, WindowTypes
  <2> QED BY <1>3, <2>1
          DEF WindowTypes, OpenIsUnused, LaterUnseen, OneClientPerWindow, GuessesBounded
<1>4. CASE ConsumePairing
  <2>1. CASE UNCHANGED <<window, admitted, wrong>>
    BY <1>1, <2>1
  <2>2. CASE window' = Closed /\ UNCHANGED <<admitted, wrong>>
    BY <1>3, <2>2 DEF Shuts
  <2>3. CASE /\ window.active /\ window' = Closed /\ UNCHANGED wrong
             /\ admitted' = [admitted EXCEPT ![window.n] = @ + 1]
    <3>1. /\ window' \in [active : BOOLEAN, n : 0..MaxWindows, over : BOOLEAN,
                          guesses : 0..MaxAttempts]
          /\ window'.n = window.n /\ ~window'.active
      BY <2>3 DEF Closed, WindowTypes
    <3>2. window.n \in 1..MaxWindows /\ admitted[window.n] = 0
      BY <2>3 DEF WindowTypes, OpenIsUnused
    <3>3. admitted' \in [1..MaxWindows -> Nat] /\ admitted'[window.n] = 1
          /\ \A n \in 1..MaxWindows : n # window.n => admitted'[n] = admitted[n]
      BY <2>3, <3>2 DEF WindowTypes
    <3>4. WindowTypes' /\ OpenIsUnused'
      BY <2>3, <3>1, <3>3 DEF WindowTypes, OpenIsUnused
    <3>5. LaterUnseen' BY <2>3, <3>1, <3>2, <3>3 DEF LaterUnseen
    <3>6. OneClientPerWindow' BY <3>2, <3>3 DEF OneClientPerWindow, WindowTypes
    <3> QED BY <2>3, <3>4, <3>5, <3>6 DEF GuessesBounded
  <2>4. CASE /\ window.active /\ Guessed /\ UNCHANGED admitted
             /\ window' = [window EXCEPT !.guesses = @ + 1,
                                         !.active = window.guesses + 1 < MaxAttempts]
    <3>1. /\ window.n \in 1..MaxWindows /\ window.guesses = wrong[window.n]
          /\ window.guesses \in Nat /\ window.guesses < MaxAttempts
      BY <2>4 DEF WindowTypes, OpenIsUnused
    <3>2. /\ window'.n = window.n /\ window'.guesses = window.guesses + 1
          /\ window'.active => window.guesses + 1 < MaxAttempts
          /\ window' \in [active : BOOLEAN, n : 0..MaxWindows, over : BOOLEAN,
                          guesses : 0..MaxAttempts]
      <4> DEFINE more == window.guesses + 1 < MaxAttempts
      <4>1. /\ more \in BOOLEAN /\ window.guesses + 1 \in 0..MaxAttempts
            /\ window' = [window EXCEPT !.guesses = window.guesses + 1, !.active = more]
        BY <2>4, <3>1, AuthAssumption
      <4> HIDE DEF more
      <4>2. /\ window'.n = window.n /\ window'.guesses = window.guesses + 1
            /\ window'.active = more
            /\ window' \in [active : BOOLEAN, n : 0..MaxWindows, over : BOOLEAN,
                            guesses : 0..MaxAttempts]
        BY <4>1 DEF WindowTypes
      <4> QED BY <4>2 DEF more
    <3>3. wrong' \in [1..MaxWindows -> Nat] /\ wrong'[window.n] = window.guesses + 1
          /\ \A n \in 1..MaxWindows : n # window.n => wrong'[n] = wrong[n]
      BY <2>4, <3>1 DEF WindowTypes, Guessed
    <3>4. WindowTypes' BY <2>4, <3>2, <3>3 DEF WindowTypes
    <3>5. OpenIsUnused' BY <2>4, <3>1, <3>2, <3>3 DEF OpenIsUnused
    <3>6. LaterUnseen' BY <2>4, <3>1, <3>2, <3>3 DEF LaterUnseen
    <3>7. GuessesBounded'
      <4>1. window.guesses + 1 <= MaxAttempts BY <3>1, AuthAssumption
      <4>2. DOMAIN wrong' = 1..MaxWindows /\ DOMAIN wrong = 1..MaxWindows
        BY <3>3 DEF WindowTypes
      <4> QED BY <3>3, <4>1, <4>2 DEF GuessesBounded
    <3> QED BY <2>4, <3>4, <3>5, <3>6, <3>7 DEF OneClientPerWindow
  <2> QED BY <1>4, <2>1, <2>2, <2>3, <2>4 DEF ConsumePairing
<1> QED BY <1>1, <1>2, <1>3, <1>4 DEF WindowMoves

(* However requests, screens, expiry and restarts interleave, a pairing    *)
(* window lets in at most one client, and takes no more wrong codes, of    *)
(* either kind and of all clients together, than kMaxPinAttempts           *)
(* (_consumePairing).                                                      *)
THEOREM WindowLimited == Spec => []WindowIsLimited
<1>1. WindowInv /\ [Next]_vars => WindowInv' BY StepMoves, WindowInvStep
<1>2. WindowInv => WindowIsLimited BY DEF WindowInv, WindowIsLimited
<1> QED BY <1>1, <1>2, WindowInvInit, PTL DEF Spec

------------------------------------------------------------------------------
(* The store.                                                              *)

TokenTypes ==
  /\ tokens \in [loaded : BOOLEAN, list : Seq(Nat)] /\ flash \in Seq(Nat) /\ minted \in Nat
  /\ Len(tokens.list) <= MaxTokens /\ Len(flash) <= MaxTokens
  /\ refused \in BOOLEAN

(* Every token there is or was has been minted: the next one is new.       *)
AllMinted == ToSet(flash) \cup ToSet(tokens.list) \cup gone \subseteq 1..minted

(* What flash refused to forget, RAM keeps out.                            *)
RefusedIsEmpty == refused => tokens.loaded /\ tokens.list = <<>>

(* Otherwise flash holds no token that is out, but for those it brought    *)
(* back.                                                                   *)
FlashIsClean == ~refused => ToSet(flash) \cap gone \subseteq back

StoreInv == TokenTypes /\ AllMinted /\ TokensAgree /\ RefusedIsEmpty /\ FlashIsClean

LEMMA StoreInvInit == Init => StoreInv
<1> SUFFICES ASSUME Init PROVE StoreInv OBVIOUS
<1>1. /\ tokens = [loaded |-> FALSE, list |-> <<>>] /\ flash = <<>> /\ minted = 0
      /\ gone = {} /\ refused = FALSE
  BY DEF Init, AuthInit
<1>2. refused \in BOOLEAN BY <1>1, Zenon
<1>3. TokenTypes BY <1>1, <1>2, NoTokens, AuthAssumption DEF TokenTypes
<1> QED BY <1>1, <1>3, NoTokens
        DEF StoreInv, AllMinted, TokensAgree, RefusedIsEmpty, FlashIsClean

(* The list a caller works on is one of the two kept, and what flash holds *)
(* unless it was refused.                                                  *)
LEMMA KnownTokens ==
  ASSUME StoreInv
  PROVE  /\ Known \in Seq(Nat) /\ Len(Known) <= MaxTokens
         /\ ToSet(Known) \subseteq 1..minted
         /\ Known = IF refused THEN <<>> ELSE flash
         /\ ToSet(Known) \cap gone \subseteq back
<1>1. Known = IF refused THEN <<>> ELSE flash
  BY DEF StoreInv, Known, TokenTypes, TokensAgree, RefusedIsEmpty
<1>2. ToSet(Known) \cap gone \subseteq back
  BY <1>1, NoTokens DEF StoreInv, FlashIsClean
<1> QED BY <1>1, <1>2, NoTokens, AuthAssumption DEF StoreInv, TokenTypes, AllMinted

(* The list with the next token fits, and holds it and known ones only.    *)
LEMMA ListWithToken ==
  ASSUME StoreInv
  PROVE  /\ WithToken(minted + 1) \in Seq(Nat) /\ Len(WithToken(minted + 1)) <= MaxTokens
         /\ ToSet(WithToken(minted + 1)) \subseteq ToSet(Known) \cup {minted + 1}
<1> DEFINE kept == IF Len(Known) >= MaxTokens THEN Tail(Known) ELSE Known
<1>1. minted + 1 \in Nat /\ MaxTokens \in Nat \ {0} BY AuthAssumption DEF StoreInv, TokenTypes
<1>2. kept \in Seq(Nat) /\ Len(kept) + 1 <= MaxTokens /\ ToSet(kept) \subseteq ToSet(Known)
  <2>1. CASE Len(Known) >= MaxTokens
    <3>1. Known # <<>> BY <1>1, <2>1
    <3> QED BY <1>1, <2>1, <3>1, KnownTokens, RestOfTokens
  <2>2. CASE ~(Len(Known) >= MaxTokens) BY <1>1, <2>2, KnownTokens
  <2> QED BY <2>1, <2>2
<1>3. WithToken(minted + 1) = Append(kept, minted + 1) BY DEF WithToken
<1> HIDE DEF kept
<1> QED BY <1>1, <1>2, <1>3, AppendedTokens

(* A read of the list and a refused write change no more than whether the  *)
(* list has been read.                                                     *)
LEMMA KeptLists ==
  ASSUME StoreInv, UNCHANGED <<flash, gone, refused, back>>, minted' \in {minted, minted + 1},
         tokens' \in {tokens, [loaded |-> TRUE, list |-> Known]}
  PROVE  StoreInv'
<1>1. minted' \in Nat /\ 1..minted \subseteq 1..minted' BY DEF StoreInv, TokenTypes
<1>2. CASE tokens' = tokens
  BY <1>1, <1>2 DEF StoreInv, TokenTypes, AllMinted, TokensAgree, RefusedIsEmpty, FlashIsClean
<1>3. CASE tokens' = [loaded |-> TRUE, list |-> Known]
  <2>1. /\ Known \in Seq(Nat) /\ Len(Known) <= MaxTokens /\ ToSet(Known) \subseteq 1..minted
        /\ Known = IF refused THEN <<>> ELSE flash
    BY KnownTokens
  <2>2. tokens'.loaded = TRUE /\ tokens'.list = Known BY <1>3
  <2>3. TokenTypes' BY <1>1, <1>3, <2>1, <2>2 DEF StoreInv, TokenTypes
  <2>4. AllMinted' BY <1>1, <2>1, <2>2 DEF StoreInv, AllMinted
  <2>5. TokensAgree' /\ RefusedIsEmpty' BY <2>1, <2>2 DEF TokensAgree, RefusedIsEmpty
  <2>6. FlashIsClean' BY DEF StoreInv, FlashIsClean
  <2> QED BY <2>3, <2>4, <2>5, <2>6 DEF StoreInv
<1> QED BY <1>2, <1>3

LEMMA StoreInvStep == StoreInv /\ StoreMoves => StoreInv'
<1> SUFFICES ASSUME StoreInv, StoreMoves PROVE StoreInv' OBVIOUS
<1> USE DEF StoreInv
<1>1. CASE StoreKeeps
  BY <1>1 DEF StoreKeeps, TokenTypes, AllMinted, TokensAgree, RefusedIsEmpty, FlashIsClean
<1>2. CASE StoreReboots
  <2>1. /\ tokens' = [loaded |-> FALSE, list |-> <<>>] /\ UNCHANGED <<flash, gone, minted>>
        /\ refused' = FALSE /\ back' = IF refused THEN ToSet(flash) ELSE back
    BY <1>2 DEF StoreReboots
  <2>2. TokenTypes'
    <3>1. refused' \in BOOLEAN BY <2>1, Zenon
    <3> QED BY <2>1, <3>1, NoTokens, AuthAssumption DEF TokenTypes
  <2>3. AllMinted' BY <2>1, NoTokens DEF AllMinted
  <2>4. TokensAgree' /\ RefusedIsEmpty' BY <2>1 DEF TokensAgree, RefusedIsEmpty
  <2>5. FlashIsClean' BY <2>1 DEF FlashIsClean
  <2> QED BY <2>2, <2>3, <2>4, <2>5
<1>3. ASSUME NEW ok \in BOOLEAN, ReadTokens(ok), UNCHANGED minted PROVE StoreInv'
  <2>1. /\ UNCHANGED <<flash, gone, refused, back>>
        /\ tokens' \in {tokens, [loaded |-> TRUE, list |-> Known]}
    BY <1>3 DEF ReadTokens, Loaded
  <2> QED BY <1>3, <2>1, KeptLists
<1>4. ASSUME NEW ok \in BOOLEAN, ForgetAll(ok), UNCHANGED minted PROVE StoreInv'
  <2>1. /\ tokens' = [loaded |-> TRUE, list |-> <<>>]
        /\ flash' = IF ok THEN <<>> ELSE flash
        /\ refused' = ~ok /\ gone' = gone \cup ToSet(Known) \cup ToSet(flash)
    BY <1>4 DEF ForgetAll, Loaded
  <2>2. gone' \subseteq 1..minted BY <2>1, KnownTokens DEF AllMinted
  <2>3. TokenTypes'
    <3>1. tokens' \in [loaded : BOOLEAN, list : Seq(Nat)] /\ Len(tokens'.list) <= MaxTokens
      BY <2>1, NoTokens, AuthAssumption
    <3>2. flash' \in Seq(Nat) /\ Len(flash') <= MaxTokens
      <4>1. CASE ~ok BY <2>1, <4>1 DEF TokenTypes
      <4>2. CASE ok BY <2>1, <4>2, NoTokens, AuthAssumption
      <4> QED BY <4>1, <4>2
    <3>3. refused' \in BOOLEAN
      <4>1. CASE ok BY <2>1, <4>1
      <4>2. CASE ~ok BY <2>1, <4>2
      <4> QED BY <4>1, <4>2
    <3> QED BY <1>4, <3>1, <3>2, <3>3 DEF TokenTypes
  <2>4. ToSet(flash') \subseteq ToSet(flash) BY <2>1, NoTokens
  <2>5. AllMinted' BY <1>4, <2>1, <2>2, <2>4, NoTokens DEF AllMinted
  <2>6. TokensAgree' /\ RefusedIsEmpty' BY <2>1 DEF TokensAgree, RefusedIsEmpty
  <2>7. FlashIsClean' BY <2>1, NoTokens DEF FlashIsClean
  <2> QED BY <2>3, <2>5, <2>6, <2>7
<1>5. ASSUME NEW ok \in BOOLEAN, AppendToken(minted + 1, ok), minted' = minted + 1
      PROVE StoreInv'
  <2> DEFINE list == WithToken(minted + 1)
  <2>1. /\ list \in Seq(Nat) /\ Len(list) <= MaxTokens
        /\ ToSet(list) \subseteq ToSet(Known) \cup {minted + 1}
    BY ListWithToken
  <2>2. minted \in Nat /\ 1..minted \subseteq 1..(minted + 1) /\ minted + 1 \notin 1..minted
    BY DEF TokenTypes
  <2>3. CASE ok
    <3>1. /\ tokens' = [loaded |-> TRUE, list |-> list] /\ flash' = list /\ refused' = FALSE
          /\ gone' = gone \cup (ToSet(Known) \ ToSet(list)) /\ back' = back \cap ToSet(list)
      BY <1>5, <2>3 DEF AppendToken, Written, Loaded
    <3> HIDE DEF list
    <3>2. TokenTypes'
      <4>1. refused' \in BOOLEAN BY <3>1, Zenon
      <4> QED BY <1>5, <2>1, <2>2, <3>1, <4>1 DEF TokenTypes
    <3>3. /\ gone \subseteq 1..minted /\ ToSet(Known) \subseteq 1..minted
          /\ ToSet(Known) \cap gone \subseteq back
      BY KnownTokens DEF AllMinted
    <3>4. AllMinted' BY <1>5, <2>1, <2>2, <3>1, <3>3 DEF AllMinted
    <3>5. TokensAgree' /\ RefusedIsEmpty' BY <3>1 DEF TokensAgree, RefusedIsEmpty
    <3>6. FlashIsClean' BY <2>1, <2>2, <3>1, <3>3 DEF FlashIsClean
    <3> QED BY <3>2, <3>4, <3>5, <3>6
  <2>4. CASE ~ok
    <3>1. /\ UNCHANGED <<flash, gone, refused, back>>
          /\ tokens' \in {tokens, [loaded |-> TRUE, list |-> Known]}
      BY <1>5, <2>4 DEF AppendToken
    <3> QED BY <1>5, <2>2, <3>1, KeptLists
  <2> QED BY <2>3, <2>4
<1> QED BY <1>1, <1>2, <1>3, <1>4, <1>5 DEF StoreMoves

THEOREM StoreInvariance == Spec => []StoreInv
<1>1. StoreInv /\ [Next]_vars => StoreInv' BY StepMoves, StoreInvStep
<1> QED BY <1>1, StoreInvInit, PTL DEF Spec

(* The tokens in memory are those in flash, whatever writes fail, but      *)
(* between a forgetAll that flash refused and the next write or restart;   *)
(* and a client that was unpaired or evicted is not known again, unless it *)
(* is one that flash refused to forget and a restart has read again        *)
(* (_appendToken, forgetAll, _ensureTokensLoaded).                         *)
THEOREM KnownPaired == Spec => []KnownArePaired
<1>1. StoreInv => TokensAgree BY DEF StoreInv
<1>2. StoreInv => RevokedReturnByRestartOnly BY KnownTokens DEF RevokedReturnByRestartOnly
<1>3. StoreInv => KnownArePaired BY <1>1, <1>2 DEF KnownArePaired
<1> QED BY <1>3, StoreInvariance, PTL

==============================================================================
