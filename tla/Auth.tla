-------------------------------- MODULE Auth --------------------------------
(***************************************************************************)
(* Auth: the pairing window the main task opens, the credentials the server *)
(* task redeems in it, and the store of client tokens, kept in RAM and in   *)
(* flash.  Every operation below is one critical section of _mutex; a       *)
(* request is a row of them, with the main task's between any two.          *)
(*                                                                         *)
(* A window's PIN and pair-token are its number: no two windows share one.  *)
(* A client token is the number of its minting.                             *)
(***************************************************************************)
EXTENDS Naturals, Sequences, SequencesExt, FiniteSets

CONSTANTS
  Clients,       \* browsers
  MaxTokens,     \* kMaxTokens
  MaxAttempts,   \* kMaxPinAttempts
  MaxWindows,    \* bound on the pairing windows opened
  MaxRedeems,    \* bound on the arrivals
  MaxAuthFails   \* bound on the accesses to flash that fail

ASSUME AuthAssumption ==
  /\ MaxTokens \in Nat \ {0} /\ MaxAttempts \in Nat \ {0}
  /\ MaxWindows \in Nat /\ MaxRedeems \in Nat /\ MaxAuthFails \in Nat

VARIABLES
  window,     \* _pairingActive, the credentials, whether the ttl is over, _pinFailedAttempts
  tokens,     \* _tokensLoaded, _tokens
  flash,      \* the blob "tokens" of the namespace "auth"
  redeems,    \* _redeems
  cookies,    \* external: the token each client holds, 0 if none
  minted,     \* tokens made so far
  request,    \* the request the server task works on
  admitted,   \* ghost: clients a window has let in
  wrong,      \* ghost: wrong guesses a window has taken
  gone,       \* ghost: tokens forgotten or evicted
  refused,    \* ghost: flash refused the last forgetAll, nothing was written since
  back,       \* ghost: forgotten tokens that a restart after it has brought back
  authFails

storeVars == <<tokens, flash, gone, refused, back, authFails>>
authVars  == <<window, storeVars, redeems, cookies, minted, request, admitted, wrong>>

NoRequest == [step |-> "none", client |-> CHOOSE c \in Clients : TRUE, kind |-> "pin", code |-> 0,
              first |-> FALSE]
Kinds == {"pin", "link", "join", "forget"}
Steps == {"none", "auth", "consume", "append", "redeem", "first", "post"}

AuthTypeOK ==
  /\ window \in [active: BOOLEAN, n: 0..MaxWindows, over: BOOLEAN, guesses: 0..MaxAttempts]
  /\ tokens.loaded \in BOOLEAN /\ Len(tokens.list) <= MaxTokens
  /\ Len(flash) <= MaxTokens
  /\ redeems \in Nat /\ minted \in Nat
  /\ request \in [step: Steps, client: Clients, kind: Kinds, code: 0..MaxWindows,
                  first: BOOLEAN]

AuthInit ==
  /\ window = [active |-> FALSE, n |-> 0, over |-> FALSE, guesses |-> 0]
  /\ tokens = [loaded |-> FALSE, list |-> <<>>] /\ flash = <<>>
  /\ redeems = 0 /\ cookies = [c \in Clients |-> 0] /\ minted = 0
  /\ request = NoRequest
  /\ admitted = [n \in 1..MaxWindows |-> 0] /\ wrong = [n \in 1..MaxWindows |-> 0]
  /\ gone = {} /\ refused = FALSE /\ back = {} /\ authFails = 0

\* A restart: the declarations of the members; flash and cookies stay.
AuthPowerUp ==
  /\ window' = [window EXCEPT !.active = FALSE, !.over = FALSE]
  /\ tokens' = [loaded |-> FALSE, list |-> <<>>]
  /\ redeems' = 0 /\ request' = NoRequest
  /\ refused' = FALSE /\ back' = IF refused THEN ToSet(flash) ELSE back

\* An access to flash works, or fails while the bound allows.
Works(ok) ==
  /\ ok \/ authFails < MaxAuthFails
  /\ authFails' = authFails + (IF ok THEN 0 ELSE 1)

-----------------------------------------------------------------------------
(* The window *)

StartPairing ==
  /\ window.n < MaxWindows
  /\ window' = [active |-> TRUE, n |-> window.n + 1, over |-> FALSE, guesses |-> 0]

Closed == [window EXCEPT !.active = FALSE]
CancelPairing == window' = Closed

\* update()
ExpirePairing == window' = IF window.over THEN Closed ELSE window

\* Its 60 s pass.
WindowAges ==
  /\ window.active /\ ~window.over
  /\ window' = [window EXCEPT !.over = TRUE]

-----------------------------------------------------------------------------
(* The token store *)

\* _ensureTokensLoaded, then what the caller does with the list; a failed read
\* changes nothing.
Loaded(list) == tokens' = [loaded |-> TRUE, list |-> list]
Known == IF tokens.loaded THEN tokens.list ELSE flash

\* _tokenCount, _hasTokenBytes: a read of the list, as "ok" says.
ReadTokens(ok) ==
  /\ tokens.loaded => ok
  /\ Works(ok)
  /\ IF ok THEN Loaded(Known) ELSE UNCHANGED tokens
  /\ UNCHANGED <<flash, gone, refused, back>>

\* The list with a token more; the oldest makes room.
WithToken(t) == Append(IF Len(Known) >= MaxTokens THEN Tail(Known) ELSE Known, t)

\* Of the tokens that have come back, those that flash no longer holds are out.
Written(t) ==
  /\ flash' = WithToken(t) /\ refused' = FALSE
  /\ gone' = gone \cup (ToSet(Known) \ ToSet(WithToken(t)))
  /\ back' = back \cap ToSet(WithToken(t))

\* _appendToken: flash first, then RAM.
X_AdoptFirst(t, ok) ==
  /\ Works(ok)
  /\ Loaded(WithToken(t))
  /\ IF ok THEN Written(t) ELSE UNCHANGED <<flash, gone, refused, back>>

AppendToken(t, ok) ==
  /\ Works(ok)
  /\ IF ok THEN Written(t) /\ Loaded(WithToken(t))
     ELSE /\ UNCHANGED <<flash, gone, refused, back>>
          /\ tokens' \in {tokens, [loaded |-> TRUE, list |-> Known]}  \* the read failed, or the write

\* forgetAll: RAM is emptied, whether or not prefs.begin() and clear() work.
X_ForgetRam(ok) ==
  /\ Works(ok)
  /\ Loaded(<<>>)
  /\ UNCHANGED flash /\ refused' = ~ok
  /\ gone' = gone \cup ToSet(Known) \cup ToSet(flash) /\ back' = {}
ForgetAll(ok) ==
  /\ Works(ok)
  /\ Loaded(<<>>)
  /\ flash' = IF ok THEN <<>> ELSE flash
  /\ refused' = ~ok
  /\ gone' = gone \cup ToSet(Known) \cup ToSet(flash) /\ back' = {}

-----------------------------------------------------------------------------
(* The handlers of /auth/pair and of the routes that need a token *)

\* A request arrives; "code" is the code the client read, of this window or of
\* an earlier one, or 0 for a wrong one.
BeginRequest ==
  /\ request.step = "none"
  /\ \E c \in Clients, k \in Kinds, code \in 0..window.n :
       /\ k \in {"join", "forget"} => code = 0
       /\ request' = [step |-> "auth", client |-> c, kind |-> k, code |-> code, first |-> FALSE]
  /\ UNCHANGED <<window, storeVars, redeems, cookies, minted, admitted, wrong>>

\* isAuthenticated. A client that is paired already counts as an arrival and
\* leaves the window alone.
CheckToken ==
  /\ request.step = "auth"
  /\ \E ok \in BOOLEAN :
       /\ ReadTokens(ok)
       /\ LET known == ok /\ cookies[request.client] \in ToSet(Known)
              pairs == request.kind \in {"pin", "link"}
          IN /\ redeems' = redeems + (IF known /\ pairs /\ redeems < MaxRedeems THEN 1 ELSE 0)
             /\ request' = IF known = pairs THEN NoRequest
                           ELSE [request EXCEPT !.step = IF pairs THEN "consume" ELSE "post"]
  /\ UNCHANGED <<window, cookies, minted, admitted, wrong>>

\* _consumePairing
Matches == ~window.over /\ request.code = window.n
Guessed == wrong' = [wrong EXCEPT ![window.n] = @ + 1]

X_KeepWindow ==
  /\ request.step = "consume"
  /\ \/ /\ window.active /\ Matches
        /\ UNCHANGED window
        /\ request' = [request EXCEPT !.step = "append"]
        /\ admitted' = [admitted EXCEPT ![window.n] = @ + 1] /\ UNCHANGED wrong
     \/ /\ window.active /\ ~Matches
        /\ window' = Closed /\ request' = NoRequest /\ UNCHANGED <<admitted, wrong>>
     \/ ~window.active /\ request' = NoRequest /\ UNCHANGED <<window, admitted, wrong>>
  /\ UNCHANGED <<storeVars, redeems, cookies, minted>>
X_PinsOnly ==
  /\ request.step = "consume"
  /\ \/ /\ window.active /\ Matches
        /\ window' = Closed
        /\ request' = [request EXCEPT !.step = "append"]
        /\ admitted' = [admitted EXCEPT ![window.n] = @ + 1] /\ UNCHANGED wrong
     \/ /\ window.active /\ ~window.over /\ ~Matches
        /\ LET g == window.guesses + (IF request.kind = "pin" THEN 1 ELSE 0)
           IN window' = [window EXCEPT !.guesses = g, !.active = g < MaxAttempts]
        /\ Guessed
        /\ request' = NoRequest /\ UNCHANGED admitted
     \/ ~window.active /\ request' = NoRequest /\ UNCHANGED <<window, admitted, wrong>>
  /\ UNCHANGED <<storeVars, redeems, cookies, minted>>
ConsumePairing ==
  /\ request.step = "consume"
  /\ \/ /\ window.active /\ Matches
        /\ window' = Closed
        /\ request' = [request EXCEPT !.step = "append"]
        /\ admitted' = [admitted EXCEPT ![window.n] = @ + 1] /\ UNCHANGED wrong
     \/ /\ window.active /\ ~window.over /\ ~Matches
        /\ window' = [window EXCEPT !.guesses = @ + 1,
                                    !.active = window.guesses + 1 < MaxAttempts]
        /\ Guessed
        /\ request' = NoRequest /\ UNCHANGED admitted
     \/ /\ window.active /\ window.over
        /\ window' = Closed /\ request' = NoRequest /\ UNCHANGED <<admitted, wrong>>
     \/ ~window.active /\ request' = NoRequest /\ UNCHANGED <<window, admitted, wrong>>
  /\ UNCHANGED <<storeVars, redeems, cookies, minted>>

\* _mintClientToken, up to the store's answer. The client may never see its
\* cookie.
MintToken ==
  /\ request.step = "append"
  /\ minted' = minted + 1
  /\ \E ok \in BOOLEAN :
       /\ AppendToken(minted + 1, ok)
       /\ request' = IF ok THEN [request EXCEPT !.step = "redeem", !.first = Len(flash') = 1]
                     ELSE NoRequest
       /\ cookies' \in {cookies} \cup
            (IF ok THEN {[cookies EXCEPT ![request.client] = minted + 1]} ELSE {})
  /\ UNCHANGED <<window, redeems, admitted, wrong>>

\* The arrival is counted; the first client of an empty store calls back.
CountArrival ==
  /\ request.step = "redeem"
  /\ redeems' = IF redeems < MaxRedeems THEN redeems + 1 ELSE redeems
  /\ request' = IF request.first THEN [request EXCEPT !.step = "first"] ELSE NoRequest
  /\ UNCHANGED <<window, storeVars, cookies, minted, admitted, wrong>>
=============================================================================
