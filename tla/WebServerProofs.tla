--------------------------- MODULE WebServerProofs --------------------------
(***************************************************************************)
(* Proofs about what the web server's task shares with the main loop, which*)
(* share nothing with each other: the stream slot (SseServer), the free-   *)
(* memory history (HeapMonitor) and the diagnostics page of the logs       *)
(* (RuntimeLogs), for every value of their constants.                      *)
(***************************************************************************)
EXTENDS SseServer, HeapMonitor, RuntimeLogs, TLAPS

(***************************************************************************)
(* Part 1: SseServer.                                                      *)
(***************************************************************************)
\* A ticket that is being minted is one of MaxTickets, and every ticket in use
\* was minted.
TicketsOK ==
  /\ ticketing # None => minted < MaxTickets
  /\ cur <= minted
  /\ \A t \in backlog : t <= minted
  /\ \A p \in Pages : stream[p] <= minted

\* Between two sessions no page is on a live stream, and a task that has exited
\* serves none.
QuietOK ==
  /\ taskExited => ssePc = "none"
  /\ ssePc \in {"none", "start", "listen"} => \A p \in Pages : page[p] # "streaming"

\* Somebody takes over from the page p, which came with ticket t.
Overtaken(p, t) ==
  minted > t \/ \E q \in Pages \ {p} : page[q] \in {"asking", "retry"}

\* A takeover that a session has seen, or is about to see, was asked for after the
\* session began.
TakeoverOK ==
  /\ ssePc \in {"activate", "session", "post"} /\ stopReason = "Replaced" =>
       \A p \in Pages : Listens(p, cur) => Overtaken(p, cur)
  /\ ssePc = "emit" /\ reason = "Replaced" =>
       \A p \in Pages : Listens(p, cur) => Overtaken(p, cur)

SseInv ==
  /\ TypeOK /\ TicketsOK /\ QuietOK /\ TakeoverOK
  /\ OneLiveStream /\ ReplacedMeansTakeover /\ SleepSignalTakenBack

MainStep ==
  \/ HttpBegin \/ SseBegin \/ SseStop \/ SseStopReason \/ SseStopped
  \/ SleepSignal \/ SleepWait \/ SleepEnd \/ StaysOn \/ HttpStop
  \/ WifiUp \/ WifiDown \/ SleepRequest

-----------------------------------------------------------------------------

\* Telling the page at the other end changes that page only.
LEMMA NotifyFacts ==
  ASSUME TypeOK, NEW t, NEW to \in Page, Notify(t, to)
  PROVE  /\ page' \in [Pages -> Page]
         /\ \A p \in Pages : Listens(p, t) => page'[p] = to
         /\ \A p \in Pages : ~Listens(p, t) => page'[p] = page[p]
BY DEF TypeOK, Notify

LEMMA Initially == Init => SseInv
<1> USE SseAssumption
<1>1. SUFFICES ASSUME Init PROVE SseInv OBVIOUS
<1>2. TypeOK
  <2>1. page \in [Pages -> Page] BY <1>1 DEF Init, Page
  <2>2. stream \in [Pages -> 0..MaxTickets] BY <1>1 DEF Init
  <2>3. events \in 0..MaxEvents /\ minted \in 0..MaxTickets /\ valid \in 0..MaxTickets
        /\ cur \in 0..MaxTickets /\ backlog \subseteq Ticket
    BY <1>1 DEF Init
  <2> QED BY <1>1, <2>1, <2>2, <2>3 DEF Init, TypeOK, MainPc, StopReason, SsePc
<1>3. \A p \in Pages : page[p] = "closed" /\ stream[p] = 0 BY <1>1 DEF Init
<1>4. TicketsOK BY <1>1, <1>3 DEF Init, TicketsOK
<1>5. QuietOK /\ TakeoverOK BY <1>1, <1>3 DEF Init, QuietOK, TakeoverOK
<1>6. OneLiveStream /\ ReplacedMeansTakeover /\ SleepSignalTakenBack
  BY <1>1, <1>3 DEF Init, OneLiveStream, ReplacedMeansTakeover, SleepSignalTakenBack
<1> QED BY <1>2, <1>4, <1>5, <1>6 DEF SseInv

-----------------------------------------------------------------------------
(* Types. *)

LEMMA PageTypes == TypeOK /\ PageNext => TypeOK'
<1> SUFFICES ASSUME TypeOK, NEW p \in Pages, Load(p) \/ Leave(p) \/ Reconnect(p) \/ GiveUp(p)
             PROVE  TypeOK'
  BY DEF PageNext
<1>1. \E to \in Page : page' = [page EXCEPT ![p] = to]
  BY DEF Load, Leave, Reconnect, GiveUp, Page
<1>2. page' \in [Pages -> Page] BY <1>1 DEF TypeOK
<1>3. events' \in 0..MaxEvents
  BY SseAssumption DEF TypeOK, Load, Leave, Reconnect, GiveUp, Event
<1> QED BY <1>2, <1>3 DEF TypeOK, Load, Leave, Reconnect, GiveUp, mainVars, sseVars

LEMMA TicketTypes == TypeOK /\ TicketsOK /\ (HttpNext \/ TicketExpires) => TypeOK'
<1> USE SseAssumption
<1> SUFFICES ASSUME TypeOK, TicketsOK, HttpNext \/ TicketExpires PROVE TypeOK' OBVIOUS
<1>1. ASSUME NEW p \in Pages, TicketForce(p) PROVE TypeOK'
  BY <1>1 DEF TypeOK, TicketForce, StopReason, mainVars, sseVars, pageVars
<1>2. ASSUME NEW p \in Pages, TicketMint(p) PROVE TypeOK'
  <2>1. minted + 1 \in Ticket /\ minted' = minted + 1 /\ valid' = minted + 1
    BY <1>2 DEF TypeOK, TicketsOK, TicketMint, Ticket, None
  <2>2. page' \in [Pages -> Page] BY <1>2 DEF TypeOK, TicketMint, Page
  <2>3. stream' \in [Pages -> 0..MaxTickets] BY <1>2, <2>1 DEF TypeOK, TicketMint, Ticket
  <2>4. backlog' \subseteq Ticket BY <1>2, <2>1 DEF TypeOK, TicketMint
  <2>5. minted' \in 0..MaxTickets /\ valid' \in 0..MaxTickets BY <2>1 DEF Ticket
  <2> QED BY <1>2, <2>2, <2>3, <2>4, <2>5 DEF TypeOK, TicketMint, mainVars, sseVars
<1>3. CASE TicketExpires
  BY <1>3 DEF TypeOK, TicketExpires, mainVars, sseVars, pageVars
<1> QED BY <1>1, <1>2, <1>3 DEF HttpNext

LEMMA SseTypes == TypeOK /\ (SseProgress \/ HandlerReturns) => TypeOK'
<1> USE SseAssumption
<1> SUFFICES ASSUME TypeOK, SseProgress \/ HandlerReturns PROVE TypeOK' OBVIOUS
<1>1. page' \in [Pages -> Page]
  <2>1. \/ UNCHANGED page
        \/ \E to \in {"retry", "streaming", "replaced", "waking"} : Notify(cur, to)
    BY DEF SseProgress, SseExit, SseListen, SseAccept, SseCheck, SseConsume, SseDowngrade,
           SseActivate, SseHandlerStops, HandlerReturns, SsePost, SseEmit, SseClear, SseClose,
           Reject
  <2> QED BY <2>1, NotifyFacts DEF TypeOK, Page
<1>2. ssePc' \in SsePc /\ stopReason' \in StopReason /\ reason' \in StopReason
  BY DEF TypeOK, SseProgress, SseExit, SseListen, SseAccept, SseCheck, SseConsume,
         SseDowngrade, SseActivate, SseHandlerStops, HandlerReturns, SsePost, SseEmit, SseClear,
         SseClose, Reject, SsePc, StopReason, CompareExchange
<1>3. cur' \in 0..MaxTickets /\ valid' \in 0..MaxTickets /\ backlog' \subseteq Ticket
  BY DEF TypeOK, SseProgress, SseExit, SseListen, SseAccept, SseCheck, SseConsume,
         SseDowngrade, SseActivate, SseHandlerStops, HandlerReturns, SsePost, SseEmit, SseClear,
         SseClose, Reject, Ticket
<1>4. taskExited' \in BOOLEAN /\ sessionActive' \in BOOLEAN
  BY DEF TypeOK, SseProgress, SseExit, SseListen, SseAccept, SseCheck, SseConsume,
         SseDowngrade, SseActivate, SseHandlerStops, HandlerReturns, SsePost, SseEmit, SseClear,
         SseClose
<1>5. SseKeeps
  BY DEF SseProgress, SseExit, SseListen, SseAccept, SseCheck, SseConsume,
         SseDowngrade, SseActivate, SseHandlerStops, HandlerReturns, SsePost, SseEmit, SseClear,
         SseClose
<1> QED BY <1>1, <1>2, <1>3, <1>4, <1>5 DEF TypeOK, SseKeeps, mainVars

LEMMA MainTypes == TypeOK /\ (MainStep \/ Reboot) => TypeOK'
<1> USE SseAssumption
<1> SUFFICES ASSUME TypeOK, MainStep \/ Reboot PROVE TypeOK' OBVIOUS
<1>1. CASE Reboot
  <2>1. page' \in [Pages -> Page] BY <1>1 DEF TypeOK, Reboot, Page
  <2>2. minted' = minted /\ stream' = stream /\ events' = events BY <1>1 DEF Reboot
  <2>3. /\ mainPc' \in MainPc /\ reachable' \in BOOLEAN /\ httpUp' \in BOOLEAN
        /\ ticketing' \in Pages \cup {None} /\ shouldRun' \in BOOLEAN
        /\ taskExited' \in BOOLEAN /\ stopReason' \in StopReason
        /\ sessionActive' \in BOOLEAN /\ ssePc' \in SsePc /\ reason' \in StopReason
    BY <1>1 DEF Reboot, MainPc, StopReason, SsePc
  <2>4. valid' \in 0..MaxTickets /\ cur' \in 0..MaxTickets /\ backlog' \subseteq Ticket
    BY <1>1 DEF Reboot
  <2> QED BY <2>1, <2>2, <2>3, <2>4 DEF TypeOK
<1>2. CASE SseBegin
  BY <1>2 DEF TypeOK, SseBegin, StopReason, SsePc, pageVars
<1>3. CASE MainStep /\ ~SseBegin
  <2>1. UNCHANGED <<sseVars, pageVars, ticketing, minted, taskExited, sessionActive, valid,
                    backlog>>
    BY <1>3 DEF MainStep, HttpBegin, SseStop, SseStopReason, SseStopped, SleepSignal,
      SleepWait, SleepEnd, StaysOn, HttpStop, WifiUp, WifiDown, SleepRequest, MainKeeps
  <2>2. mainPc' \in MainPc /\ stopReason' \in StopReason
    BY <1>3 DEF TypeOK, MainStep, HttpBegin, SseStop, SseStopReason, SseStopped, SleepSignal,
      SleepWait, SleepEnd, StaysOn, HttpStop, WifiUp, WifiDown, SleepRequest, MainPc,
      StopReason, CompareExchange
  <2>3. reachable' \in BOOLEAN /\ httpUp' \in BOOLEAN /\ shouldRun' \in BOOLEAN
    BY <1>3 DEF TypeOK, MainStep, HttpBegin, SseStop, SseStopReason, SseStopped, SleepSignal,
      SleepWait, SleepEnd, StaysOn, HttpStop, WifiUp, WifiDown, SleepRequest
  <2>4. events' \in 0..MaxEvents
    BY <1>3 DEF TypeOK, MainStep, HttpBegin, SseStop, SseStopReason, SseStopped, SleepSignal,
      SleepWait, SleepEnd, StaysOn, HttpStop, WifiUp, WifiDown, SleepRequest, Event
  <2> QED BY <2>1, <2>2, <2>3, <2>4 DEF TypeOK, sseVars, pageVars
<1> QED BY <1>1, <1>2, <1>3

LEMMA Types == TypeOK /\ TicketsOK /\ [Next]_vars => TypeOK'
<1> SUFFICES ASSUME TypeOK, TicketsOK, [Next]_vars PROVE TypeOK' OBVIOUS
<1>1. CASE UNCHANGED vars BY <1>1 DEF TypeOK, vars, mainVars, sseVars, pageVars
<1> QED BY <1>1, PageTypes, TicketTypes, SseTypes, MainTypes
        DEF Next, MainNext, MainStep, SseHandlerFails

-----------------------------------------------------------------------------
(* What the steps of the tasks leave alone. *)

SseStep == SseProgress \/ SseHandlerFails

LEMMA SseFacts ==
  ASSUME SseStep
  PROVE  /\ SseKeeps
         /\ \/ UNCHANGED page
            \/ ssePc = "consume" /\ Notify(cur, "streaming")
            \/ Notify(cur, "retry")
            \/ ssePc = "emit" /\ reason = "Replaced" /\ Notify(cur, "replaced")
            \/ ssePc = "emit" /\ reason = "Sleeping" /\ Notify(cur, "waking")
BY DEF SseStep, SseProgress, SseHandlerFails, SseExit, SseListen, SseAccept, SseCheck,
       SseConsume, SseDowngrade, SseActivate, SseHandlerStops, HandlerReturns, SsePost, SseEmit,
       SseClear, SseClose, Reject

LEMMA MainFacts ==
  ASSUME MainStep
  PROVE  /\ UNCHANGED <<page, stream, minted, ticketing, cur, reason, backlog>>
         /\ \/ ssePc' = ssePc /\ taskExited' = taskExited
            \/ taskExited /\ stopReason' = "None" /\ ssePc' = "start" /\ ~taskExited'
         /\ \/ stopReason' = stopReason \/ (taskExited /\ stopReason' = "None")
            \/ (mainPc = "stopSet" /\ stopReason' = "Shutdown")
            \/ (mainPc = "sleepSet" /\ mainPc' = "sleepWait" /\ stopReason' = "Sleeping")
            \/ (mainPc = "sleepEnd" /\ CompareExchange("Sleeping", "None"))
BY DEF MainStep, HttpBegin, SseBegin, SseStop, SseStopReason, SseStopped, SleepSignal,
       SleepWait, SleepEnd, StaysOn, HttpStop, WifiUp, WifiDown, SleepRequest, MainKeeps,
       sseVars, pageVars

LEMMA PageFacts ==
  ASSUME PageNext
  PROVE  /\ UNCHANGED <<mainVars, ticketing, shouldRun, taskExited, stopReason,
                        sessionActive, minted, valid, sseVars, backlog, stream>>
         /\ \E p \in Pages, to \in {"asking", "closed", "waking", "retry"} :
              /\ page' = [page EXCEPT ![p] = to]
              /\ page[p] \in {"asking", "retry"} => to \in {"asking", "retry"}
BY DEF PageNext, Load, Leave, Reconnect, GiveUp

LEMMA Steps ==
  ASSUME [Next]_vars
  PROVE  \/ PageNext \/ HttpNext \/ TicketExpires \/ SseStep \/ MainStep \/ Reboot
         \/ UNCHANGED vars
BY DEF Next, MainNext, MainStep, SseStep

-----------------------------------------------------------------------------

LEMMA Tickets == TypeOK /\ TicketsOK /\ [Next]_vars => TicketsOK'
<1> USE SseAssumption
<1> SUFFICES ASSUME TypeOK, TicketsOK, [Next]_vars PROVE TicketsOK' OBVIOUS
<1>1. CASE UNCHANGED <<ticketing, minted, cur, backlog, stream>> BY <1>1 DEF TicketsOK
<1>2. CASE SseStep
  <2>1. ticketing' = ticketing /\ minted' = minted /\ stream' = stream
    BY <1>2, SseFacts DEF SseKeeps
  <2>2. backlog' \subseteq backlog /\ (cur' = cur \/ cur' = 0 \/ cur' \in backlog)
    BY <1>2 DEF SseStep, SseProgress, SseHandlerFails, SseExit, SseListen, SseAccept, SseCheck,
       SseConsume, SseDowngrade, SseActivate, SseHandlerStops, HandlerReturns, SsePost, SseEmit,
       SseClear, SseClose, Reject
  <2>3. 0 <= minted BY DEF TypeOK
  <2> QED BY <2>1, <2>2, <2>3 DEF TicketsOK
<1>3. CASE Reboot
  <2>1. ticketing' = None /\ cur' = 0 /\ backlog' = {} /\ minted' = minted /\ stream' = stream
    BY <1>3 DEF Reboot, None
  <2> QED BY <2>1 DEF TypeOK, TicketsOK
<1>4. ASSUME NEW p \in Pages, TicketForce(p) PROVE TicketsOK'
  BY <1>4 DEF TicketForce, TicketsOK, sseVars, pageVars
<1>5. ASSUME NEW p \in Pages, TicketMint(p) PROVE TicketsOK'
  <2>1. minted' = minted + 1 /\ ticketing' = None /\ cur' = cur
    BY <1>5 DEF TicketMint, sseVars, None
  <2>2. backlog' \subseteq backlog \cup {minted + 1} BY <1>5 DEF TicketMint
  <2>3. \A q \in Pages : stream'[q] = stream[q] \/ stream'[q] = minted + 1
    BY <1>5 DEF TicketMint, TypeOK
  <2>4. \A q \in Pages : stream[q] \in Nat BY DEF TypeOK
  <2>5. minted \in Nat /\ cur \in Nat BY DEF TypeOK
  <2>6. \A t \in backlog' : t <= minted'
    BY <2>1, <2>2, <2>5 DEF TypeOK, TicketsOK, Ticket
  <2> QED BY <2>1, <2>3, <2>4, <2>5, <2>6 DEF TicketsOK
<1>6. CASE PageNext BY <1>1, <1>6, PageFacts DEF sseVars
<1>7. CASE TicketExpires BY <1>1, <1>7 DEF TicketExpires, sseVars, pageVars
<1>8. CASE MainStep BY <1>1, <1>8, MainFacts
<1>9. CASE UNCHANGED vars BY <1>1, <1>9 DEF vars, sseVars, pageVars
<1> QED BY <1>2, <1>3, <1>4, <1>5, <1>6, <1>7, <1>8, <1>9, Steps DEF HttpNext

\* A page leaves "streaming" before the session it came from is forgotten.
LEMMA Streams ==
  TypeOK /\ QuietOK /\ OneLiveStream /\ [Next]_vars => QuietOK' /\ OneLiveStream'
<1> USE SseAssumption
<1> DEFINE Quiet == \A p \in Pages : page[p] # "streaming"
<1> SUFFICES ASSUME TypeOK, QuietOK, OneLiveStream, [Next]_vars
             PROVE  QuietOK' /\ OneLiveStream'
  OBVIOUS
<1>1. ASSUME UNCHANGED <<taskExited, ssePc, cur>>,
             \A p \in Pages : page'[p] = "streaming" => page[p] = "streaming"
                                                       /\ stream'[p] = stream[p]
      PROVE  QuietOK' /\ OneLiveStream'
  BY <1>1 DEF QuietOK, OneLiveStream
<1>2. CASE PageNext
  <2>1. UNCHANGED <<taskExited, ssePc, cur, stream>> BY <1>2, PageFacts DEF sseVars
  <2>2. \A p \in Pages : page'[p] = "streaming" => page[p] = "streaming"
    BY <1>2, PageFacts DEF TypeOK
  <2> QED BY <1>1, <2>1, <2>2
<1>3. ASSUME NEW q \in Pages, TicketForce(q) \/ TicketMint(q)
      PROVE  QuietOK' /\ OneLiveStream'
  <2>1. UNCHANGED <<taskExited, ssePc, cur>> BY <1>3 DEF TicketForce, TicketMint, sseVars
  <2>2. \A p \in Pages : page'[p] = "streaming" => page[p] = "streaming"
                                                  /\ stream'[p] = stream[p]
    BY <1>3 DEF TicketForce, TicketMint, TypeOK, pageVars
  <2> QED BY <1>1, <2>1, <2>2
<1>4. CASE TicketExpires BY <1>1, <1>4 DEF TicketExpires, sseVars, pageVars
<1>5. CASE SseStep
  <2>1. stream' = stream BY <1>5, SseFacts DEF SseKeeps
  <2>2. CASE SseConsume /\ valid = cur
    <3>1. Notify(cur, "streaming") /\ cur' = cur /\ ssePc' = "downgrade"
          /\ taskExited' = taskExited /\ ssePc = "consume"
      BY <2>2 DEF SseConsume
    <3>2. \A p \in Pages : page'[p] = "streaming" => stream[p] = cur
      BY <3>1 DEF Notify, Listens, OneLiveStream
    <3> QED BY <2>1, <3>1, <3>2 DEF QuietOK, OneLiveStream
  <2>3. CASE SseAccept
    <3>1. page' = page /\ ssePc = "listen" /\ ssePc' = "check" /\ taskExited' = taskExited
      BY <2>3 DEF SseAccept
    <3> QED BY <2>1, <3>1 DEF QuietOK, OneLiveStream
  <2>4. ASSUME Notify(cur, "retry"), taskExited' = taskExited, ssePc # "none"
        PROVE  QuietOK' /\ OneLiveStream'
    <3>1. \A p \in Pages : page'[p] # "streaming"
      BY <2>4 DEF Notify, Listens, OneLiveStream, TypeOK
    <3> QED BY <2>4, <3>1 DEF QuietOK, OneLiveStream
  <2>5. CASE SseExit \/ SseListen
    BY <2>1, <2>5 DEF SseExit, SseListen, QuietOK, OneLiveStream
  <2>6. CASE SseDowngrade \/ SseActivate \/ HandlerReturns \/ SsePost \/ SseClear
    BY <2>1, <2>6 DEF SseDowngrade, SseActivate, HandlerReturns, SsePost, SseClear, QuietOK,
                      OneLiveStream
  <2>7. CASE SseEmit
    <3>1. \A p \in Pages : page'[p] = "streaming" => page[p] = "streaming"
      BY <2>7 DEF SseEmit, Notify
    <3>2. cur' = cur /\ taskExited' = taskExited /\ ssePc = "emit" /\ ssePc' \in {"clear", "close"}
      BY <2>7 DEF SseEmit
    <3> QED BY <2>1, <3>1, <3>2 DEF QuietOK, OneLiveStream
  <2>8. CASE SseCheck
    <3>1. CASE shouldRun
      BY <2>1, <2>8, <3>1 DEF SseCheck, QuietOK, OneLiveStream
    <3> QED BY <2>4, <2>8, <3>1 DEF SseCheck, Reject
  <2>9. CASE SseConsume /\ valid # cur BY <2>4, <2>9 DEF SseConsume, Reject
  <2>10. CASE SseClose BY <2>4, <2>10 DEF SseClose
  <2> QED BY <1>5, <2>2, <2>3, <2>5, <2>6, <2>7, <2>8, <2>9, <2>10
          DEF SseStep, SseProgress, SseHandlerStops, SseHandlerFails
<1>6. CASE MainStep
  <2>1. page' = page /\ stream' = stream /\ cur' = cur BY <1>6, MainFacts
  <2>2. \/ ssePc' = ssePc /\ taskExited' = taskExited
        \/ taskExited /\ ssePc' = "start" /\ ~taskExited'
    BY <1>6, MainFacts
  <2> QED BY <2>1, <2>2 DEF QuietOK, OneLiveStream
<1>7. CASE Reboot
  <2>1. ssePc' = "none" BY <1>7 DEF Reboot
  <2>2. \A p \in Pages : page'[p] # "streaming" BY <1>7 DEF Reboot, TypeOK
  <2> QED BY <2>1, <2>2 DEF QuietOK, OneLiveStream
<1>8. CASE UNCHANGED vars BY <1>1, <1>8 DEF vars, sseVars, pageVars
<1> QED BY <1>2, <1>3, <1>4, <1>5, <1>6, <1>7, <1>8, Steps DEF HttpNext

\* Nobody but signalSleeping() posts Sleeping, and it stays in its loop meanwhile.
LEMMA Sleeps == SleepSignalTakenBack /\ [Next]_vars => SleepSignalTakenBack'
<1> SUFFICES ASSUME SleepSignalTakenBack, [Next]_vars PROVE SleepSignalTakenBack' OBVIOUS
<1>1. CASE MainStep
  BY <1>1 DEF MainStep, HttpBegin, SseBegin, SseStop, SseStopReason, SseStopped, SleepSignal,
    SleepWait, SleepEnd, StaysOn, HttpStop, WifiUp, WifiDown, SleepRequest, MainKeeps,
    CompareExchange, SleepSignalTakenBack
<1>2. CASE SseStep
  <2>1. mainPc' = mainPc BY <1>2, SseFacts DEF SseKeeps, mainVars
  <2>2. stopReason' \in {stopReason, "None"}
    BY <1>2 DEF SseStep, SseProgress, SseHandlerFails, SseExit, SseListen, SseAccept, SseCheck,
       SseConsume, SseDowngrade, SseActivate, SseHandlerStops, HandlerReturns, SsePost, SseEmit,
       SseClear, SseClose, CompareExchange
  <2> QED BY <2>1, <2>2 DEF SleepSignalTakenBack
<1>3. CASE Reboot BY <1>3 DEF Reboot, SleepSignalTakenBack
<1>4. CASE PageNext BY <1>4, PageFacts DEF SleepSignalTakenBack, mainVars
<1>5. CASE HttpNext
  BY <1>5 DEF HttpNext, TicketForce, TicketMint, SleepSignalTakenBack, mainVars
<1>6. CASE TicketExpires BY <1>6 DEF TicketExpires, SleepSignalTakenBack, mainVars
<1>7. CASE UNCHANGED vars BY <1>7 DEF vars, mainVars, SleepSignalTakenBack
<1> QED BY <1>1, <1>2, <1>3, <1>4, <1>5, <1>6, <1>7, Steps

-----------------------------------------------------------------------------
(* Takeovers. *)

\* Who asks for a ticket keeps asking until it is minted.
LEMMA AskersStay ==
  ASSUME TypeOK, [Next]_vars
  PROVE  /\ minted' \in Nat /\ minted' >= minted
         /\ \A q \in Pages : page[q] \in {"asking", "retry"} =>
              page'[q] \in {"asking", "retry"} \/ minted' > minted
<1> USE DEF TypeOK
<1>1. CASE PageNext BY <1>1, PageFacts
<1>2. ASSUME NEW p \in Pages, TicketForce(p) \/ TicketMint(p)
      PROVE  minted' = minted + 1 \/ (minted' = minted /\ page' = page)
  BY <1>2 DEF TicketForce, TicketMint, pageVars
<1>3. CASE TicketExpires BY <1>3 DEF TicketExpires, pageVars
<1>4. CASE SseStep
  <2>1. minted' = minted BY <1>4, SseFacts DEF SseKeeps
  <2>2. UNCHANGED page \/ \E to : Notify(cur, to) BY <1>4, SseFacts
  <2>3. \A q \in Pages : page[q] \in {"asking", "retry"} => page'[q] = page[q]
    BY <2>2 DEF Notify, Listens
  <2> QED BY <2>1, <2>3
<1>5. CASE MainStep BY <1>5, MainFacts
<1>6. CASE Reboot BY <1>6 DEF Reboot
<1>7. CASE UNCHANGED vars BY <1>7 DEF vars, pageVars
<1> QED BY <1>1, <1>2, <1>3, <1>4, <1>5, <1>6, <1>7, Steps DEF HttpNext

LEMMA OvertakenStays ==
  ASSUME TypeOK, [Next]_vars, NEW p \in Pages, NEW t \in 0..MaxTickets, t <= minted,
         Overtaken(p, t)
  PROVE  Overtaken(p, t)'
<1>1. minted \in Nat /\ minted' \in Nat /\ minted' >= minted /\ t \in Nat
  BY AskersStay, SseAssumption DEF TypeOK
<1>2. CASE minted > t BY <1>1, <1>2 DEF Overtaken
<1>3. ASSUME NEW q \in Pages \ {p}, page[q] \in {"asking", "retry"} PROVE Overtaken(p, t)'
  <2>1. page'[q] \in {"asking", "retry"} \/ minted' > t BY <1>1, <1>3, AskersStay
  <2> QED BY <2>1 DEF Overtaken
<1> QED BY <1>2, <1>3 DEF Overtaken

\* A page that listens on the session's ticket already did so before the step,
\* or a newer ticket has been minted.
LEMMA ListenersOld ==
  ASSUME TypeOK, TicketsOK, [Next]_vars, cur' = cur, NEW p \in Pages, Listens(p, cur)'
  PROVE  Listens(p, cur) \/ minted' > cur
<1> USE DEF Listens
<1>1. CASE PageNext
  <2>1. stream' = stream BY <1>1, PageFacts
  <2>2. page'[p] \in {"opening", "streaming"} => page'[p] = page[p]
    BY <1>1, PageFacts DEF TypeOK
  <2> QED BY <2>1, <2>2
<1>2. ASSUME NEW q \in Pages, TicketForce(q) PROVE Listens(p, cur)
  BY <1>2 DEF TicketForce, pageVars
<1>3. ASSUME NEW q \in Pages, TicketMint(q) PROVE minted' > cur
  BY <1>3 DEF TicketMint, TypeOK, TicketsOK
<1>4. CASE TicketExpires BY <1>4 DEF TicketExpires, pageVars
<1>5. CASE SseStep
  <2>1. stream' = stream BY <1>5, SseFacts DEF SseKeeps
  <2>2. UNCHANGED page \/ \E to : Notify(cur, to) BY <1>5, SseFacts
  <2> QED BY <2>1, <2>2 DEF Notify
<1>6. CASE MainStep BY <1>6, MainFacts
<1>7. CASE Reboot BY <1>7 DEF Reboot, TypeOK
<1>8. CASE UNCHANGED vars BY <1>8 DEF vars, pageVars
<1> QED BY <1>1, <1>2, <1>3, <1>4, <1>5, <1>6, <1>7, <1>8, Steps DEF HttpNext

\* What holds of every page at the session's other end stays so while the
\* session lasts.
LEMMA TakenOverStays ==
  ASSUME TypeOK, TicketsOK, [Next]_vars, cur' = cur,
         \A p \in Pages : Listens(p, cur) => Overtaken(p, cur)
  PROVE  \A p \in Pages : Listens(p, cur)' => Overtaken(p, cur)'
<1> SUFFICES ASSUME NEW p \in Pages, Listens(p, cur)' PROVE Overtaken(p, cur)' OBVIOUS
<1>1. cur \in 0..MaxTickets /\ cur <= minted BY DEF TypeOK, TicketsOK
<1>2. CASE minted' > cur BY <1>2 DEF Overtaken
<1>3. CASE Listens(p, cur)
  <2>1. Overtaken(p, cur) BY <1>3
  <2> QED BY <1>1, <2>1, OvertakenStays DEF Overtaken
<1> QED BY <1>2, <1>3, ListenersOld

\* A takeover that reaches a session in progress is one of that session.
LEMMA Takeovers ==
  ASSUME TypeOK, TicketsOK, QuietOK, TakeoverOK, [Next]_vars
  PROVE  TakeoverOK'
<1> DEFINE Busy == ssePc \in {"activate", "session", "post"} /\ stopReason = "Replaced"
           Emitting == ssePc = "emit" /\ reason = "Replaced"
           Taken == \A p \in Pages : Listens(p, cur) => Overtaken(p, cur)
<1>1. (Busy \/ Emitting => Taken) /\ (TakeoverOK' <=> (Busy' \/ Emitting' => Taken'))
  BY DEF TakeoverOK
<1>2. ASSUME cur' = cur, Busy \/ Emitting PROVE Taken'
  BY <1>1, <1>2, TakenOverStays
<1>3. CASE PageNext
  <2>1. UNCHANGED <<cur, ssePc, reason, stopReason>> BY <1>3, PageFacts DEF sseVars
  <2> QED BY <1>1, <1>2, <2>1
<1>4. ASSUME NEW q \in Pages, TicketForce(q) PROVE TakeoverOK'
  <2>1. UNCHANGED <<cur, ssePc, reason, page, stream, minted>> /\ page[q] = "asking"
    BY <1>4 DEF TicketForce, sseVars, pageVars
  <2>2. Taken' BY <2>1 DEF Listens, Overtaken
  <2> QED BY <1>1, <2>2
<1>5. ASSUME NEW q \in Pages, TicketMint(q) PROVE TakeoverOK'
  <2>1. UNCHANGED <<cur, ssePc, reason, stopReason>> BY <1>5 DEF TicketMint, sseVars
  <2> QED BY <1>1, <1>2, <2>1
<1>6. CASE TicketExpires
  <2>1. UNCHANGED <<cur, ssePc, reason, stopReason>> BY <1>6 DEF TicketExpires, sseVars
  <2> QED BY <1>1, <1>2, <2>1
<1>7. CASE SseStep
  <2>1. CASE SseDowngrade
    BY <1>1, <2>1 DEF SseDowngrade, CompareExchange
  <2>2. CASE SseActivate \/ HandlerReturns
    <3>1. UNCHANGED <<cur, stopReason>> /\ ssePc \in {"activate", "session"}
          /\ ssePc' \in {"session", "post"}
      BY <2>2 DEF SseActivate, HandlerReturns
    <3> QED BY <1>1, <1>2, <3>1
  <2>3. CASE SsePost
    <3>1. cur' = cur /\ ssePc = "post" /\ ssePc' = "emit" /\ reason' = stopReason
      BY <2>3 DEF SsePost
    <3> QED BY <1>1, <1>2, <3>1
  <2>4. CASE \/ SseExit \/ SseListen \/ SseAccept \/ SseCheck \/ SseConsume \/ SseEmit
             \/ SseClear \/ SseClose
    <3>1. ssePc' \notin {"activate", "session", "post", "emit"}
      BY <2>4 DEF SseExit, SseListen, SseAccept, SseCheck, SseConsume, SseEmit, SseClear,
                  SseClose, Reject
    <3> QED BY <1>1, <3>1
  <2> QED BY <1>7, <2>1, <2>2, <2>3, <2>4
          DEF SseStep, SseProgress, SseHandlerStops, SseHandlerFails
<1>8. CASE MainStep
  <2>1. cur' = cur /\ reason' = reason BY <1>8, MainFacts
  <2>2. ssePc' = ssePc \/ ssePc' = "start" BY <1>8, MainFacts
  <2>3. stopReason' = "Replaced" => stopReason = "Replaced"
    BY <1>8, MainFacts DEF CompareExchange
  <2> QED BY <1>1, <1>2, <2>1, <2>2, <2>3
<1>9. CASE Reboot BY <1>1, <1>9 DEF Reboot
<1>10. CASE UNCHANGED vars
  <2>1. UNCHANGED <<cur, ssePc, reason, stopReason>> BY <1>10 DEF vars, sseVars
  <2> QED BY <1>1, <1>2, <2>1
<1> QED BY <1>3, <1>4, <1>5, <1>6, <1>7, <1>8, <1>9, <1>10, Steps DEF HttpNext

\* A page that was told `replaced` waits for its user, and its ticket stays old.
LEMMA Replacements ==
  ASSUME TypeOK, TicketsOK, TakeoverOK, ReplacedMeansTakeover, [Next]_vars
  PROVE  ReplacedMeansTakeover'
<1> SUFFICES ASSUME NEW p \in Pages, page'[p] = "replaced"
             PROVE  Overtaken(p, stream[p])'
  BY DEF ReplacedMeansTakeover, Overtaken
<1>1. stream[p] \in 0..MaxTickets /\ stream[p] <= minted BY DEF TypeOK, TicketsOK
<1>2. ASSUME stream'[p] = stream[p], Overtaken(p, stream[p])
      PROVE  Overtaken(p, stream[p])'
  BY <1>1, <1>2, OvertakenStays DEF Overtaken
<1>3. ASSUME stream'[p] = stream[p], page[p] = "replaced"
      PROVE  Overtaken(p, stream[p])'
  BY <1>2, <1>3 DEF ReplacedMeansTakeover, Overtaken
<1>4. CASE SseStep
  <2>1. stream' = stream BY <1>4, SseFacts DEF SseKeeps
  <2>2. CASE page[p] = "replaced" BY <1>3, <2>1, <2>2
  <2>3. CASE page[p] # "replaced"
    <3>1. ssePc = "emit" /\ reason = "Replaced" /\ Notify(cur, "replaced")
      BY <1>4, <2>3, SseFacts DEF Notify, TypeOK
    <3>2. Listens(p, cur) BY <2>3, <3>1 DEF Notify
    <3>3. Overtaken(p, cur) /\ stream[p] = cur BY <3>1, <3>2 DEF TakeoverOK, Listens
    <3> QED BY <1>2, <2>1, <3>3
  <2> QED BY <2>2, <2>3
<1>5. CASE PageNext
  <2>1. stream' = stream BY <1>5, PageFacts
  <2>2. page[p] = "replaced" BY <1>5, PageFacts DEF TypeOK
  <2> QED BY <1>3, <2>1, <2>2
<1>6. ASSUME NEW q \in Pages, TicketForce(q) \/ TicketMint(q)
      PROVE  Overtaken(p, stream[p])'
  <2>1. page[p] = "replaced" /\ stream'[p] = stream[p]
    BY <1>6 DEF TicketForce, TicketMint, TypeOK, pageVars
  <2> QED BY <1>3, <2>1
<1>7. CASE Reboot
  <2>1. page[p] = "replaced" /\ stream' = stream BY <1>7 DEF Reboot, TypeOK
  <2> QED BY <1>3, <2>1
<1>8. CASE TicketExpires BY <1>3, <1>8 DEF TicketExpires, pageVars
<1>9. CASE MainStep BY <1>3, <1>9, MainFacts
<1>10. CASE UNCHANGED vars BY <1>3, <1>10 DEF vars, pageVars
<1> QED BY <1>4, <1>5, <1>6, <1>7, <1>8, <1>9, <1>10, Steps DEF HttpNext

LEMMA Invariance == Spec => []SseInv
<1>1. SseInv /\ [Next]_vars => SseInv'
  BY Types, Tickets, Streams, Takeovers, Replacements, Sleeps DEF SseInv
<1> QED BY <1>1, Initially, PTL DEF Spec

-----------------------------------------------------------------------------

\* Every variable of the server, its tasks and its pages has its type.
THEOREM TypeCorrectness == Spec => []TypeOK
<1>1. SseInv => TypeOK BY DEF SseInv
<1> QED BY <1>1, Invariance, PTL

\* "One active client at a time" (SseServer.h): only the page of the session being
\* served shows a live stream, for any number of pages and tickets.
THEOREM OneStream == Spec => []OneLiveStream
<1>1. SseInv => OneLiveStream BY DEF SseInv
<1> QED BY <1>1, Invariance, PTL

\* A page is told `replaced`, which strands it, only when another takes over.
THEOREM TakeoverOnly == Spec => []ReplacedMeansTakeover
<1>1. SseInv => ReplacedMeansTakeover BY DEF SseInv
<1> QED BY <1>1, Invariance, PTL

\* signalSleeping() leaves no signal behind that would end a later session.
THEOREM SleepSignalCleared == Spec => []SleepSignalTakenBack
<1>1. SseInv => SleepSignalTakenBack BY DEF SseInv
<1> QED BY <1>1, Invariance, PTL

\* A takeover or a shutdown posted to a running session is never withdrawn.
THEOREM RequestStays == Spec => RequestNotWithdrawn
<1>1. SseInv /\ [Next]_vars =>
        (ssePc = "session" /\ ssePc' = "session" /\ stopReason \in {"Replaced", "Shutdown"}
           => stopReason' # "None")
  <2> SUFFICES ASSUME SseInv, [Next]_vars, ssePc = "session", ssePc' = "session",
                      stopReason \in {"Replaced", "Shutdown"}
               PROVE  stopReason' # "None"
    OBVIOUS
  <2>1. ~taskExited BY DEF SseInv, QuietOK
  <2>2. CASE MainStep BY <2>1, <2>2, MainFacts DEF CompareExchange
  <2>3. CASE SseStep
    <3>1. FALSE
      BY <2>3 DEF SseStep, SseProgress, SseHandlerFails, SseExit, SseListen, SseAccept, SseCheck,
         SseConsume, SseDowngrade, SseActivate, SseHandlerStops, HandlerReturns, SsePost,
         SseEmit, SseClear, SseClose, Reject
    <3> QED BY <3>1
  <2>4. CASE PageNext BY <2>4, PageFacts
  <2>5. CASE HttpNext BY <2>5 DEF HttpNext, TicketForce, TicketMint
  <2>6. CASE TicketExpires BY <2>6 DEF TicketExpires
  <2>7. CASE Reboot BY <2>7 DEF Reboot
  <2>8. CASE UNCHANGED vars BY <2>8 DEF vars
  <2> QED BY <2>2, <2>3, <2>4, <2>5, <2>6, <2>7, <2>8, Steps
<1> QED BY <1>1, Invariance, PTL DEF Spec, RequestNotWithdrawn

(***************************************************************************)
(* Part 2: HeapMonitor.                                                    *)
(***************************************************************************)
HeapRow == [worst : Nat, oldest : Nat, seen : Nat, number : Nat]

HeapTypeOK ==
  /\ heap \in [rows : Seq(HeapRow), pushed : Nat]
  /\ bucket \in [samples : Nat, worst : Nat, oldest : Nat]
  /\ clearBucket \in BOOLEAN
  /\ mainAt \in {"idle", "sampling", "closing"}
  /\ webAt \in {"idle", "asked"}
  /\ begun \in 0..MaxClears
  /\ seenAt \in 0..MaxClears
  /\ emptied \in Nat

\* A bucket older than the last clear is one that a clear has asked to reset.
BucketIsNew == ~clearBucket => bucket.oldest >= begun

\* The flag that the tick in progress took has not been set again, unless a
\* clear has begun since.
FlagTaken ==
  /\ seenAt <= begun
  /\ mainAt # "idle" /\ seenAt = begun => ~clearBucket

\* A tick that a whole clear has overtaken has pushed nothing since the ring was
\* emptied: it is the only one that could have.
NothingPushed ==
  mainAt # "idle" /\ webAt = "idle" /\ seenAt < begun => heap.pushed = emptied

HeapInv ==
  /\ HeapTypeOK /\ BucketIsNew /\ FlagTaken /\ NothingPushed
  /\ OldRowsOnlyFromTickInProgress

-----------------------------------------------------------------------------

\* What a push leaves in the ring: the new row and rows that were there.
LEMMA PushedRows ==
  ASSUME NEW rows \in Seq(HeapRow), NEW row \in HeapRow
  PROVE  /\ Pushed(rows, row) \in Seq(HeapRow)
         /\ \A i \in DOMAIN Pushed(rows, row) :
              \/ Pushed(rows, row)[i] = row
              \/ \E j \in DOMAIN rows : Pushed(rows, row)[i] = rows[j]
<1> DEFINE kept == IF Len(rows) = HistoryCap THEN Tail(rows) ELSE rows
<1>1. /\ kept \in Seq(HeapRow)
      /\ \A i \in DOMAIN kept : \E j \in DOMAIN rows : kept[i] = rows[j]
  <2>1. CASE Len(rows) = HistoryCap
    <3>1. rows # <<>> BY <2>1, HeapAssumption
    <3>2. /\ Tail(rows) \in Seq(HeapRow)
          /\ \A i \in DOMAIN Tail(rows) : i + 1 \in DOMAIN rows /\ Tail(rows)[i] = rows[i + 1]
      BY <3>1
    <3> QED BY <2>1, <3>2
  <2>2. CASE Len(rows) # HistoryCap BY <2>2
  <2> QED BY <2>1, <2>2
<1>2. Pushed(rows, row) = Append(kept, row) BY DEF Pushed
<1> HIDE DEF kept
<1>3. /\ Append(kept, row) \in Seq(HeapRow)
      /\ \A i \in DOMAIN Append(kept, row) :
           Append(kept, row)[i] = row \/ (i \in DOMAIN kept /\ Append(kept, row)[i] = kept[i])
  BY <1>1
<1> QED BY <1>1, <1>2, <1>3

LEMMA EmptyBucketType == EmptyBucket \in [samples : Nat, worst : Nat, oldest : Nat]
BY HeapAssumption DEF EmptyBucket, FullMemory

LEMMA HeapInitially == HeapInit => HeapInv
<1> USE HeapAssumption
<1>1. SUFFICES ASSUME HeapInit PROVE HeapInv OBVIOUS
<1>2. HeapTypeOK
  <2>1. heap \in [rows : Seq(HeapRow), pushed : Nat] BY <1>1 DEF HeapInit
  <2>2. /\ bucket = EmptyBucket /\ clearBucket = FALSE
        /\ mainAt = "idle" /\ webAt = "idle" /\ begun = 0 /\ seenAt = 0 /\ emptied = 0
    BY <1>1 DEF HeapInit
  <2>3. 0 \in 0..MaxClears OBVIOUS
  <2> QED BY <2>1, <2>2, <2>3, EmptyBucketType DEF HeapTypeOK
<1>3. BucketIsNew /\ FlagTaken /\ NothingPushed
  BY <1>1 DEF HeapInit, BucketIsNew, FlagTaken, NothingPushed, EmptyBucket
<1>4. OldRowsOnlyFromTickInProgress
  <2>1. heap.rows = <<>> BY <1>1 DEF HeapInit
  <2> QED BY <2>1 DEF OldRowsOnlyFromTickInProgress
<1> QED BY <1>2, <1>3, <1>4 DEF HeapInv

\* tick() takes the flag and, with it, the bucket that a clear asked to reset.
LEMMA TickStartKeeps == HeapInv /\ TickStart => HeapInv'
<1> USE HeapAssumption
<1>1. SUFFICES ASSUME HeapInv, TickStart PROVE HeapInv' OBVIOUS
<1>2. HeapTypeOK'
  BY <1>1, EmptyBucketType DEF HeapInv, TickStart, HeapTypeOK
<1>3. BucketIsNew'
  BY <1>1 DEF HeapInv, TickStart, HeapTypeOK, BucketIsNew, EmptyBucket
<1>4. FlagTaken' /\ NothingPushed'
  BY <1>1 DEF HeapInv, TickStart, HeapTypeOK, FlagTaken, NothingPushed
<1>5. OldRowsOnlyFromTickInProgress'
  BY <1>1 DEF HeapInv, TickStart, OldRowsOnlyFromTickInProgress
<1> QED BY <1>2, <1>3, <1>4, <1>5 DEF HeapInv

\* A new sample is as new as the last clear.
LEMMA TickSampleKeeps == HeapInv /\ (TickSample \/ TickEarly) => HeapInv'
<1> USE HeapAssumption
<1>1. SUFFICES ASSUME HeapInv, TickSample \/ TickEarly PROVE HeapInv' OBVIOUS
<1>2. CASE TickSample
  <2>1. PICK free \in FreeLevels :
          bucket' = [samples |-> bucket.samples + 1, worst |-> Worse(bucket.worst, free),
                     oldest |-> Worse(bucket.oldest, begun)]
    BY <1>2 DEF TickSample
  <2>2. HeapTypeOK' BY <1>1, <1>2, <2>1 DEF HeapInv, TickSample, HeapTypeOK, Worse
  <2>3. BucketIsNew'
    BY <1>1, <1>2, <2>1 DEF HeapInv, TickSample, HeapTypeOK, BucketIsNew, Worse
  <2>4. FlagTaken' /\ NothingPushed'
    <3>1. mainAt = "sampling" /\ mainAt' \in {"closing", "idle"} BY <1>2 DEF TickSample
    <3> QED BY <1>1, <1>2, <3>1 DEF HeapInv, TickSample, FlagTaken, NothingPushed
  <2>5. OldRowsOnlyFromTickInProgress'
    BY <1>1, <1>2 DEF HeapInv, TickSample, OldRowsOnlyFromTickInProgress
  <2> QED BY <2>2, <2>3, <2>4, <2>5 DEF HeapInv
<1>3. CASE TickEarly
  BY <1>1, <1>3 DEF HeapInv, TickEarly, HeapTypeOK, BucketIsNew, FlagTaken,
                    NothingPushed, OldRowsOnlyFromTickInProgress
<1> QED BY <1>1, <1>2, <1>3

\* The row pushed is new, or the tick looked at the flag before the last clear,
\* and no other row has been pushed since the ring was emptied.
LEMMA TickCloseKeeps == HeapInv /\ TickClose => HeapInv'
<1> USE HeapAssumption
<1>1. SUFFICES ASSUME HeapInv, TickClose PROVE HeapInv' OBVIOUS
<1> DEFINE row == [worst |-> bucket.worst, oldest |-> bucket.oldest, seen |-> seenAt,
                   number |-> heap.pushed + 1]
<1>2. row \in HeapRow BY <1>1 DEF HeapInv, HeapTypeOK, HeapRow
<1>3. heap.rows \in Seq(HeapRow) /\ heap'.rows = Pushed(heap.rows, row)
  BY <1>1 DEF HeapInv, HeapTypeOK, TickClose
<1>4. webAt = "idle" /\ row.oldest < begun => row.number = emptied + 1 /\ row.seen < begun
  <2>1. begun \in Nat /\ seenAt \in Nat /\ bucket.oldest \in Nat
    BY <1>1 DEF HeapInv, HeapTypeOK
  <2>2. mainAt # "idle" BY <1>1 DEF TickClose
  <2> QED BY <1>1, <2>1, <2>2 DEF HeapInv, BucketIsNew, FlagTaken, NothingPushed
<1>5. OldRowsOnlyFromTickInProgress'
  <2>1. SUFFICES ASSUME webAt' = "idle", NEW i \in DOMAIN heap'.rows,
                        heap'.rows[i].oldest < begun'
                 PROVE  heap'.rows[i].number = emptied' + 1 /\ heap'.rows[i].seen < begun'
    BY DEF OldRowsOnlyFromTickInProgress
  <2>2. webAt = "idle" /\ begun' = begun /\ emptied' = emptied BY <1>1, <2>1 DEF TickClose
  <2>3. \/ heap'.rows[i] = row
        \/ \E j \in DOMAIN heap.rows : heap'.rows[i] = heap.rows[j]
    <3>1. \A k \in DOMAIN Pushed(heap.rows, row) :
            \/ Pushed(heap.rows, row)[k] = row
            \/ \E j \in DOMAIN heap.rows : Pushed(heap.rows, row)[k] = heap.rows[j]
      BY <1>2, <1>3, PushedRows
    <3> QED BY <1>3, <2>1, <3>1
  <2>4. \A j \in DOMAIN heap.rows :
          heap.rows[j].oldest < begun =>
            heap.rows[j].number = emptied + 1 /\ heap.rows[j].seen < begun
    BY <1>1, <2>2 DEF HeapInv, OldRowsOnlyFromTickInProgress
  <2> HIDE DEF row
  <2> QED BY <1>4, <2>1, <2>2, <2>3, <2>4
<1>6. HeapTypeOK'
  <2>1. heap'.rows \in Seq(HeapRow) BY <1>2, <1>3, PushedRows
  <2>2. heap' \in [rows : Seq(HeapRow), pushed : Nat]
    <3>1. heap.pushed + 1 \in Nat BY <1>1 DEF HeapInv, HeapTypeOK
    <3> HIDE DEF row
    <3> QED BY <1>1, <1>3, <2>1, <3>1 DEF TickClose
  <2> QED BY <1>1, <2>2, EmptyBucketType DEF HeapInv, HeapTypeOK, TickClose
<1>7. BucketIsNew' BY <1>1 DEF HeapInv, HeapTypeOK, TickClose, BucketIsNew, EmptyBucket
<1>8. FlagTaken' /\ NothingPushed' BY <1>1 DEF HeapInv, TickClose, FlagTaken, NothingPushed
<1> QED BY <1>5, <1>6, <1>7, <1>8 DEF HeapInv

\* A clear sets the flag as it begins, and leaves no row when it is done.
LEMMA ClearKeeps == HeapInv /\ (ClearAsk \/ ClearRing \/ ScreenClears) => HeapInv'
<1> USE HeapAssumption
<1>1. SUFFICES ASSUME HeapInv, ClearAsk \/ ClearRing \/ ScreenClears PROVE HeapInv' OBVIOUS
<1>2. HeapTypeOK'
  <2>1. heap' \in [rows : Seq(HeapRow), pushed : Nat]
    <3>1. heap' = heap \/ heap' = [heap EXCEPT !.rows = <<>>]
      BY <1>1 DEF ClearAsk, ClearRing, ScreenClears
    <3>2. <<>> \in Seq(HeapRow) OBVIOUS
    <3> QED BY <1>1, <3>1, <3>2 DEF HeapInv, HeapTypeOK
  <2>2. begun' \in 0..MaxClears /\ clearBucket' \in BOOLEAN /\ webAt' \in {"idle", "asked"}
    <3>1. /\ begun' = begun \/ (begun < MaxClears /\ begun' = begun + 1)
          /\ clearBucket' = clearBucket \/ clearBucket' = TRUE
          /\ webAt' = webAt \/ webAt' = "idle" \/ webAt' = "asked"
      BY <1>1 DEF ClearAsk, ClearRing, ScreenClears
    <3>2. begun \in 0..MaxClears /\ clearBucket \in BOOLEAN /\ webAt \in {"idle", "asked"}
      BY <1>1 DEF HeapInv, HeapTypeOK
    <3>3. begun' \in 0..MaxClears BY <3>1, <3>2
    <3>4. clearBucket' \in BOOLEAN BY <3>1, <3>2
    <3>5. webAt' \in {"idle", "asked"} BY <3>1, <3>2
    <3> QED BY <3>3, <3>4, <3>5
  <2>3. bucket' = bucket /\ mainAt' = mainAt /\ seenAt' = seenAt /\ emptied' \in Nat
    BY <1>1 DEF HeapInv, HeapTypeOK, ClearAsk, ClearRing, ScreenClears
  <2> QED BY <1>1, <2>1, <2>2, <2>3 DEF HeapInv, HeapTypeOK
<1>3. BucketIsNew' BY <1>1 DEF HeapInv, ClearAsk, ClearRing, ScreenClears, BucketIsNew
<1>4. FlagTaken' /\ NothingPushed'
  BY <1>1 DEF HeapInv, HeapTypeOK, ClearAsk, ClearRing, ScreenClears, FlagTaken, NothingPushed
<1>5. OldRowsOnlyFromTickInProgress'
  <2>1. webAt' = "idle" => heap'.rows = <<>>
    BY <1>1 DEF HeapInv, HeapTypeOK, ClearAsk, ClearRing, ScreenClears
  <2>2. DOMAIN <<>> = {} OBVIOUS
  <2> QED BY <2>1, <2>2 DEF OldRowsOnlyFromTickInProgress
<1> QED BY <1>2, <1>3, <1>4, <1>5 DEF HeapInv

LEMMA HeapInvariance == HeapSpec => []HeapInv
<1>1. HeapInv /\ [HeapNext]_heapVars => HeapInv'
  <2>1. SUFFICES ASSUME HeapInv, [HeapNext]_heapVars PROVE HeapInv' OBVIOUS
  <2>2. CASE UNCHANGED heapVars
    BY <2>1, <2>2 DEF heapVars, HeapInv, HeapTypeOK, BucketIsNew, FlagTaken,
                      NothingPushed, OldRowsOnlyFromTickInProgress
  <2> QED BY <2>1, <2>2, TickStartKeeps, TickSampleKeeps, TickCloseKeeps, ClearKeeps
          DEF HeapNext
<1> QED BY <1>1, HeapInitially, PTL DEF HeapSpec

-----------------------------------------------------------------------------

\* A clear empties the ring and the bucket: of what it was to remove nothing is in
\* the history after it, but for at most one row, the first one pushed since, by
\* the tick that was past its look at the flag when the clear began.
THEOREM ClearedButForTick == HeapSpec => []OldRowsOnlyFromTickInProgress
<1>1. HeapInv => OldRowsOnlyFromTickInProgress BY DEF HeapInv
<1> QED BY <1>1, HeapInvariance, PTL

-----------------------------------------------------------------------------

(***************************************************************************)
(* Part 3: RuntimeLogs.                                                    *)
(***************************************************************************)
LogRing ==
  [items : [0 .. RingCap - 1 -> 0 .. MaxPushes], writes : Nat, revision : Nat]

RingTypeOK ==
  /\ ring \in [Logs -> LogRing]
  /\ pushes \in 0 .. MaxPushes
  /\ logBoot \in Nat \ {0}

ScreenTypeOK ==
  /\ logsScreen \in [on : BOOLEAN, page : 0 .. NumLogs + 1, last : [Logs -> Nat]]
  /\ frame \in {"idle", "looking", "gesture", "ticking", "drawing"}
  /\ dirty \in BOOLEAN

CrashTypeOK ==
  /\ dump \in Dumps /\ resync \in BOOLEAN /\ marker \in BOOLEAN
  /\ webClears \in {"idle", "erased"}

CopyTypeOK == copy \in [Logs -> [tag : Nat \X Nat, rows : Seq(0 .. MaxPushes)]]

LogsTypeOK == RingTypeOK /\ ScreenTypeOK /\ CrashTypeOK /\ CopyTypeOK

\* No revision that the screen saw is ahead of its ring.
SeenIsPast == \A l \in Logs : logsScreen.last[l] <= ring[l].revision

\* A pass begins with everything drawn that was asked for.
DrawnByPass == frame \in {"idle", "looking", "gesture"} => ~dirty

\* What is on the panel, in the middle of a pass too, when nothing asked for
\* a drawing and the screen has seen the last revision of every log.
PanelKept ==
  logsScreen.on /\ ~dirty =>
    /\ logsScreen.page \in Logs /\ logsScreen.last = Revisions => shown = Rendered(logsScreen.page)
    /\ logsScreen.page = PanicPage => shown \in {<<PanicPage, TRUE>>, Rendered(PanicPage)}

\* The tag of a copy is of an earlier boot, or not ahead of this one's ring.
TagIsPast ==
  \A l \in Logs :
    /\ copy[l].tag[1] <= logBoot
    /\ copy[l].tag[1] = logBoot => copy[l].tag[2] <= ring[l].revision

LogsInv ==
  /\ LogsTypeOK
  /\ SeenIsPast /\ DrawnByPass /\ PanelKept
  /\ TagIsPast /\ FreshTagFreshRows
  /\ MarkerMatchesDump
-----------------------------------------------------------------------------
(* The operations of a ring.                                               *)
LEMMA RingPushType ==
  ASSUME NEW r \in LogRing, NEW e \in 0 .. MaxPushes
  PROVE  RingPush(r, e) \in LogRing /\ RingPush(r, e).revision = r.revision + 1
<1>1. [r.items EXCEPT ![r.writes % RingCap] = e] \in [0 .. RingCap - 1 -> 0 .. MaxPushes]
  BY DEF LogRing
<1>2. r.writes + 1 \in Nat /\ r.revision + 1 \in Nat
  BY DEF LogRing
<1> QED BY <1>1, <1>2 DEF RingPush, LogRing

LEMMA RingClearType ==
  ASSUME NEW r \in LogRing
  PROVE  RingClear(r) \in LogRing /\ RingClear(r).revision = r.revision + 1
<1>1. r.revision \in Nat /\ r.revision + 1 \in Nat
  BY DEF LogRing
<1> QED BY <1>1 DEF RingClear, LogRing

LEMMA RingSnapshotType ==
  ASSUME NEW r \in LogRing
  PROVE  RingSnapshot(r) \in Seq(0 .. MaxPushes)
<1> DEFINE count == IF r.writes < RingCap THEN r.writes ELSE RingCap
<1>1. count \in Nat /\ count <= r.writes
  BY RuntimeLogsAssumption DEF LogRing
<1> HIDE DEF count
<1>2. \A i \in 1 .. count : (r.writes - i) % RingCap \in 0 .. RingCap - 1
  BY <1>1, RuntimeLogsAssumption DEF LogRing
<1>3. \A i \in 1 .. count : r.items[(r.writes - i) % RingCap] \in 0 .. MaxPushes
  BY <1>2 DEF LogRing
<1>4. RingSnapshot(r) = [i \in 1 .. count |-> r.items[(r.writes - i) % RingCap]]
  BY DEF RingSnapshot, count
<1> QED BY <1>1, <1>3, <1>4

LEMMA EmptyRingType == EmptyRing \in LogRing
BY RuntimeLogsAssumption DEF EmptyRing, LogRing, NoEvent
-----------------------------------------------------------------------------
LEMMA LogsInitially == RuntimeLogsInit => LogsInv
<1> SUFFICES ASSUME RuntimeLogsInit PROVE LogsInv
  OBVIOUS
<1> USE RuntimeLogsAssumption DEF RuntimeLogsInit
<1>1. RingTypeOK /\ ScreenTypeOK /\ CrashTypeOK
  <2>1. RingTypeOK
    BY EmptyRingType DEF RingTypeOK
  <2>2. logsScreen \in [on : BOOLEAN, page : 0 .. NumLogs + 1, last : [Logs -> Nat]]
    BY DEF ScreenTypeOK
  <2>3. ScreenTypeOK
    BY <2>2 DEF ScreenTypeOK
  <2>4. CrashTypeOK
    <3>1. HasPanicDump \in BOOLEAN
      BY DEF HasPanicDump
    <3> QED BY <3>1 DEF CrashTypeOK
  <2> QED BY <2>1, <2>3, <2>4
<1>2. CopyTypeOK
  BY DEF CopyTypeOK, Nothing
<1>3. SeenIsPast /\ DrawnByPass /\ PanelKept
  BY DEF SeenIsPast, DrawnByPass, PanelKept, EmptyRing
<1>4. TagIsPast /\ FreshTagFreshRows
  BY DEF TagIsPast, FreshTagFreshRows, LogTag, Nothing, EmptyRing
<1>5. MarkerMatchesDump
  BY DEF MarkerMatchesDump, HasPanicDump
<1> QED BY <1>1, <1>2, <1>3, <1>4, <1>5 DEF LogsInv, LogsTypeOK

(* The rings move in three ways: a log gets a new revision, the device     *)
(* restarts, or nothing.                                                   *)
LogMoves(l) ==
  /\ \E r \in LogRing : r.revision = ring[l].revision + 1 /\ ring' = [ring EXCEPT ![l] = r]
  /\ pushes' \in 0 .. MaxPushes /\ logBoot' = logBoot

LEMMA PushMoves == ASSUME LogsInv, NEW l \in Logs, Push(l) PROVE LogMoves(l)
<1>1. ring[l] \in LogRing /\ pushes \in 0 .. MaxPushes /\ pushes + 1 \in 0 .. MaxPushes
  BY RuntimeLogsAssumption DEF LogsInv, LogsTypeOK, RingTypeOK, Push
<1>2. RingPush(ring[l], pushes) \in LogRing
      /\ RingPush(ring[l], pushes).revision = ring[l].revision + 1
  BY <1>1, RingPushType
<1> QED BY <1>1, <1>2 DEF Push, LogMoves

LEMMA ClearMoves == ASSUME LogsInv, NEW l \in Logs, ClearRows(l) PROVE LogMoves(l)
<1>1. ring[l] \in LogRing /\ pushes \in 0 .. MaxPushes
  BY DEF LogsInv, LogsTypeOK, RingTypeOK
<1> QED BY <1>1, RingClearType DEF ClearRows, LogMoves

(* A new revision of a log makes every tag and every revision seen old.    *)
LEMMA MoveKeeps ==
  ASSUME LogsInv, NEW l \in Logs, LogMoves(l), UNCHANGED copy
  PROVE  RingTypeOK' /\ CopyTypeOK' /\ TagIsPast' /\ FreshTagFreshRows'
<1> PICK r \in LogRing : r.revision = ring[l].revision + 1 /\ ring' = [ring EXCEPT ![l] = r]
  BY DEF LogMoves
<1>1. RingTypeOK' /\ CopyTypeOK'
  BY DEF LogsInv, LogsTypeOK, RingTypeOK, CopyTypeOK, LogMoves
<1>2. \A k \in Logs : ring'[k] = IF k = l THEN r ELSE ring[k]
  BY DEF LogsInv, LogsTypeOK, RingTypeOK
<1>3. logBoot' = logBoot /\ ring[l].revision \in Nat
  BY DEF LogMoves, LogsInv, LogsTypeOK, RingTypeOK, LogRing
<1>4. \A k \in Logs : copy[k].tag \in Nat \X Nat
  BY DEF LogsInv, LogsTypeOK, CopyTypeOK
<1>5. TagIsPast /\ FreshTagFreshRows
  BY DEF LogsInv
<1>6. TagIsPast'
  BY <1>2, <1>3, <1>4, <1>5 DEF TagIsPast
<1>7. FreshTagFreshRows'
  <2> SUFFICES ASSUME NEW k \in Logs, copy[k].tag = <<logBoot, ring'[k].revision>>
               PROVE  copy[k].rows = RingSnapshot(ring'[k])
    BY <1>3 DEF FreshTagFreshRows, LogTag
  <2>1. k # l
    BY <1>2, <1>3, <1>5 DEF TagIsPast
  <2> QED BY <2>1, <1>2, <1>5 DEF FreshTagFreshRows, LogTag
<1> QED BY <1>1, <1>6, <1>7

LEMMA MoveSeen ==
  ASSUME LogsInv, NEW l \in Logs, LogMoves(l)
  PROVE  /\ \A k \in Logs : logsScreen.last[k] <= ring'[k].revision
         /\ logsScreen.last # Revisions'
<1> PICK r \in LogRing : r.revision = ring[l].revision + 1 /\ ring' = [ring EXCEPT ![l] = r]
  BY DEF LogMoves
<1>1. \A k \in Logs : ring'[k] = IF k = l THEN r ELSE ring[k]
  BY DEF LogsInv, LogsTypeOK, RingTypeOK
<1>2. \A k \in Logs : logsScreen.last[k] \in Nat /\ ring[k].revision \in Nat
  BY DEF LogsInv, LogsTypeOK, RingTypeOK, ScreenTypeOK, LogRing
<1>3. \A k \in Logs : logsScreen.last[k] <= ring[k].revision
  BY DEF LogsInv, SeenIsPast
<1>4. \A k \in Logs : logsScreen.last[k] <= ring'[k].revision
  BY <1>1, <1>2, <1>3
<1>5. logsScreen.last[l] < ring'[l].revision
  BY <1>1, <1>2, <1>3
<1>6. Revisions'[l] = ring'[l].revision
  BY DEF Revisions
<1> QED BY <1>4, <1>5, <1>6, <1>2

(* The screen and the crash report, by the pass of the main task.          *)
LEMMA PagesDiffer == PanicPage \notin Logs /\ HeapPage \notin Logs /\ PanicPage # HeapPage
BY RuntimeLogsAssumption DEF PanicPage, HeapPage, Logs

LEMMA RenderedPanic ==
  /\ Rendered(PanicPage) = <<PanicPage, dump = "summary">>
  /\ Rendered(PanicPage)' = <<PanicPage, dump' = "summary">>
BY PagesDiffer DEF Rendered

\* A report that is erased, or not, leaves its page as it is or empty.
LEMMA ReportRendered ==
  ASSUME dump' \in {"none", dump}
  PROVE  /\ Rendered(PanicPage)' \in {Rendered(PanicPage), <<PanicPage, FALSE>>}
         /\ Rendered(PanicPage) \in {<<PanicPage, TRUE>>, <<PanicPage, FALSE>>}
<1>1. (dump = "summary") \in BOOLEAN /\ (dump' = "summary") \in BOOLEAN
  OBVIOUS
<1>2. dump' = dump \/ dump' = "none"
  OBVIOUS
<1>3. dump' = "none" => (dump' = "summary") = FALSE
  OBVIOUS
<1> QED BY <1>1, <1>2, <1>3, RenderedPanic

LEMMA RenderedKept ==
  ASSUME NEW p, UNCHANGED <<ring, dump>>
  PROVE  Rendered(p)' = Rendered(p)
BY DEF Rendered
-----------------------------------------------------------------------------
(* One step per operation.  A push or a clear on another task touches the  *)
(* rings only.                                                             *)
LEMMA OtherLogSteps ==
  ASSUME LogsInv, NEW l \in Logs, Push(l) \/ WebClear(l)
  PROVE  LogsInv'
<1>1. LogMoves(l)
  BY PushMoves, ClearMoves DEF WebClear
<1>2. UNCHANGED <<copy, logsScreen, frame, dirty, shown, dump, resync, marker, webClears>>
  BY DEF Push, WebClear, screenVars, panicVars
<1>3. ScreenTypeOK' /\ CrashTypeOK' /\ DrawnByPass' /\ MarkerMatchesDump'
  BY <1>2 DEF LogsInv, LogsTypeOK, ScreenTypeOK, CrashTypeOK, DrawnByPass, MarkerMatchesDump,
              HasPanicDump, Dumps
<1>4. SeenIsPast'
  BY <1>1, <1>2, MoveSeen DEF SeenIsPast
<1>5. PanelKept'
  <2>1. logsScreen'.last # Revisions'
    BY <1>1, <1>2, MoveSeen
  <2>2. Rendered(PanicPage)' = Rendered(PanicPage)
    BY <1>2, RenderedPanic
  <2> QED BY <1>2, <2>1, <2>2 DEF LogsInv, PanelKept
<1>6. RingTypeOK' /\ CopyTypeOK' /\ TagIsPast' /\ FreshTagFreshRows'
  BY <1>1, <1>2, MoveKeeps
<1> QED BY <1>3, <1>4, <1>5, <1>6 DEF LogsInv, LogsTypeOK

(* Serving a log gives the browser the rows of now with the tag of now.    *)
LEMMA ServeStep ==
  ASSUME LogsInv, NEW l \in Logs, ServeLog(l)
  PROVE  LogsInv'
<1> DEFINE fresh == [tag |-> LogTag(l), rows |-> RingSnapshot(ring[l])]
<1>1. copy' = [copy EXCEPT ![l] = fresh]
  BY DEF ServeLog
<1>2. UNCHANGED <<ring, pushes, clears, logBoot, logsScreen, frame, dirty, shown,
                  dump, resync, marker, webClears>>
  BY DEF ServeLog, ringVars, screenVars, panicVars
<1>3. ring[l] \in LogRing /\ logBoot \in Nat /\ ring[l].revision \in Nat
  BY DEF LogsInv, LogsTypeOK, RingTypeOK, LogRing
<1>4. fresh.tag = <<logBoot, ring[l].revision>> /\ fresh.rows = RingSnapshot(ring[l])
      /\ fresh \in [tag : Nat \X Nat, rows : Seq(0 .. MaxPushes)]
  BY <1>3, RingSnapshotType DEF LogTag
<1> HIDE DEF fresh
<1>5. CopyTypeOK' /\ \A k \in Logs : copy'[k] = IF k = l THEN fresh ELSE copy[k]
  BY <1>1, <1>4 DEF LogsInv, LogsTypeOK, CopyTypeOK
<1>6. TagIsPast' /\ FreshTagFreshRows'
  BY <1>2, <1>3, <1>4, <1>5 DEF LogsInv, TagIsPast, FreshTagFreshRows, LogTag
<1>7. RingTypeOK' /\ ScreenTypeOK' /\ CrashTypeOK' /\ SeenIsPast' /\ DrawnByPass'
      /\ MarkerMatchesDump'
  BY <1>2 DEF LogsInv, LogsTypeOK, RingTypeOK, ScreenTypeOK, CrashTypeOK, SeenIsPast,
              DrawnByPass, MarkerMatchesDump, HasPanicDump, Dumps
<1>8. PanelKept'
  BY <1>2 DEF LogsInv, PanelKept, Revisions, Rendered
<1> QED BY <1>5, <1>6, <1>7, <1>8 DEF LogsInv, LogsTypeOK

(* Steps of the screen with the rings and the crash report left alone.     *)
LEMMA ScreenOnly ==
  ASSUME LogsInv, UNCHANGED <<ringVars, copy, panicVars>>,
         ScreenTypeOK', SeenIsPast', DrawnByPass', PanelKept',
         frame # "looking" /\ frame' # "looking"
  PROVE  LogsInv'
<1>1. UNCHANGED <<ring, pushes, logBoot, copy, dump, resync, marker, webClears>>
  BY DEF ringVars, panicVars
<1>2. RingTypeOK' /\ CrashTypeOK' /\ CopyTypeOK'
  BY <1>1 DEF LogsInv, LogsTypeOK, RingTypeOK, CrashTypeOK, CopyTypeOK, Dumps
<1>3. TagIsPast' /\ FreshTagFreshRows'
  BY <1>1 DEF LogsInv, TagIsPast, FreshTagFreshRows, LogTag
<1>4. MarkerMatchesDump'
  BY <1>1 DEF LogsInv, MarkerMatchesDump, HasPanicDump
<1> QED BY <1>2, <1>3, <1>4 DEF LogsInv, LogsTypeOK

LEMMA RevisionsType == LogsInv => Revisions \in [Logs -> Nat]
BY DEF Revisions, LogsInv, LogsTypeOK, RingTypeOK, LogRing

LEMMA OnEnterLogsStep == LogsInv /\ OnEnterLogs => LogsInv'
<1> SUFFICES ASSUME LogsInv, OnEnterLogs PROVE LogsInv'
  OBVIOUS
<1>1. logsScreen' = [logsScreen EXCEPT !.on = TRUE, !.last = Revisions]
      /\ dirty' = TRUE /\ frame' = "drawing" /\ frame = "gesture"
      /\ UNCHANGED <<ringVars, copy, panicVars>>
  BY DEF OnEnterLogs
<1>2. ScreenTypeOK' /\ logsScreen'.last = Revisions
  BY <1>1, RevisionsType DEF LogsInv, LogsTypeOK, ScreenTypeOK
<1>3. SeenIsPast'
  BY <1>1, <1>2 DEF SeenIsPast, Revisions, ringVars, LogsInv, LogsTypeOK, RingTypeOK, LogRing
<1>4. DrawnByPass' /\ PanelKept'
  BY <1>1 DEF DrawnByPass, PanelKept
<1> QED BY <1>1, <1>2, <1>3, <1>4, ScreenOnly

LEMMA NextPageStep == LogsInv /\ NextPage => LogsInv'
<1> SUFFICES ASSUME LogsInv, NextPage PROVE LogsInv'
  OBVIOUS
<1>1. logsScreen' = [logsScreen EXCEPT !.page = (@ + 1) % PAGE_COUNT]
      /\ dirty' = TRUE /\ frame' = "ticking" /\ frame = "gesture"
      /\ UNCHANGED <<ringVars, copy, panicVars>>
  BY DEF NextPage
<1>2. (logsScreen.page + 1) % PAGE_COUNT \in 0 .. NumLogs + 1
  BY RuntimeLogsAssumption DEF PAGE_COUNT, LogsInv, LogsTypeOK, ScreenTypeOK
<1>3. ScreenTypeOK' /\ logsScreen'.last = logsScreen.last
  BY <1>1, <1>2 DEF LogsInv, LogsTypeOK, ScreenTypeOK
<1>4. SeenIsPast'
  BY <1>1, <1>3 DEF LogsInv, SeenIsPast, ringVars
<1>5. DrawnByPass' /\ PanelKept'
  BY <1>1 DEF DrawnByPass, PanelKept
<1> QED BY <1>1, <1>3, <1>4, <1>5, ScreenOnly

LEMMA ExitLogsStep == LogsInv /\ ExitLogs => LogsInv'
<1> SUFFICES ASSUME LogsInv, ExitLogs PROVE LogsInv'
  OBVIOUS
<1>1. logsScreen' = [logsScreen EXCEPT !.on = FALSE]
      /\ frame' = "drawing" /\ frame = "gesture"
      /\ UNCHANGED <<dirty, shown, ringVars, copy, panicVars>>
  BY DEF ExitLogs
<1>2. ScreenTypeOK' /\ logsScreen'.last = logsScreen.last /\ ~logsScreen'.on
  BY <1>1 DEF LogsInv, LogsTypeOK, ScreenTypeOK
<1>3. SeenIsPast' /\ DrawnByPass' /\ PanelKept'
  BY <1>1, <1>2 DEF LogsInv, SeenIsPast, DrawnByPass, PanelKept, ringVars
<1> QED BY <1>1, <1>2, <1>3, ScreenOnly

LEMMA NoGestureStep == LogsInv /\ NoLogsGesture => LogsInv'
<1> SUFFICES ASSUME LogsInv, NoLogsGesture PROVE LogsInv'
  OBVIOUS
<1>1. frame = "gesture" /\ frame' \in {"ticking", "drawing"}
      /\ UNCHANGED <<logsScreen, dirty, shown, ringVars, copy, panicVars>>
  BY DEF NoLogsGesture
<1>2. ScreenTypeOK' /\ DrawnByPass'
  BY <1>1 DEF LogsInv, LogsTypeOK, ScreenTypeOK, DrawnByPass
<1>3. SeenIsPast'
  BY <1>1 DEF LogsInv, SeenIsPast, ringVars
<1>4. PanelKept'
  BY <1>1 DEF LogsInv, PanelKept, Rendered, Revisions, ringVars, panicVars
<1> QED BY <1>1, <1>2, <1>3, <1>4, ScreenOnly

\* A tick asks for a drawing unless nothing moved since the screen looked.
LEMMA TickLogsStep == LogsInv /\ TickLogs => LogsInv'
<1> SUFFICES ASSUME LogsInv, TickLogs PROVE LogsInv'
  OBVIOUS
<1>1. frame = "ticking" /\ frame' = "drawing"
      /\ UNCHANGED <<shown, ringVars, copy, panicVars>>
  BY DEF TickLogs
<1>2. CASE logsScreen.page = HeapPage /\ dirty' = TRUE /\ UNCHANGED logsScreen
  BY <1>1, <1>2, ScreenOnly DEF LogsInv, LogsTypeOK, ScreenTypeOK, SeenIsPast, DrawnByPass,
                                PanelKept, ringVars
<1>3. CASE logsScreen' = [logsScreen EXCEPT !.last = Revisions]
           /\ dirty' = (dirty \/ Revisions # logsScreen.last)
  <2>1. ScreenTypeOK' /\ logsScreen'.last = Revisions
        /\ logsScreen'.on = logsScreen.on /\ logsScreen'.page = logsScreen.page
    BY <1>1, <1>3, RevisionsType DEF LogsInv, LogsTypeOK, ScreenTypeOK
  <2>2. SeenIsPast'
    BY <1>1, <2>1 DEF SeenIsPast, Revisions, ringVars, LogsInv, LogsTypeOK, RingTypeOK, LogRing
  <2>3. DrawnByPass'
    BY <1>1 DEF DrawnByPass
  <2>4. PanelKept'
    BY <1>1, <1>3, <2>1 DEF LogsInv, PanelKept, Rendered, Revisions, ringVars, panicVars
  <2> QED BY <1>1, <2>1, <2>2, <2>3, <2>4, ScreenOnly
<1>4. CASE UNCHANGED <<logsScreen, dirty>>
  <2>1. ScreenTypeOK' /\ DrawnByPass'
    BY <1>1, <1>4 DEF LogsInv, LogsTypeOK, ScreenTypeOK, DrawnByPass
  <2>2. SeenIsPast'
    BY <1>1, <1>4 DEF LogsInv, SeenIsPast, ringVars
  <2>3. PanelKept'
    BY <1>1, <1>4 DEF LogsInv, PanelKept, Rendered, Revisions, ringVars, panicVars
  <2> QED BY <1>1, <2>1, <2>2, <2>3, ScreenOnly
<1> QED BY <1>2, <1>3, <1>4 DEF TickLogs

LEMMA DrawLogsStep == LogsInv /\ DrawLogs => LogsInv'
<1> SUFFICES ASSUME LogsInv, DrawLogs PROVE LogsInv'
  OBVIOUS
<1>1. frame = "drawing" /\ frame' = "idle" /\ dirty' = FALSE
      /\ shown' = (IF ~logsScreen.on THEN <<>> ELSE IF dirty THEN Rendered(logsScreen.page) ELSE shown)
      /\ UNCHANGED <<logsScreen, ringVars, copy, panicVars>>
  BY DEF DrawLogs
<1>2. ScreenTypeOK' /\ DrawnByPass'
  BY <1>1 DEF LogsInv, LogsTypeOK, ScreenTypeOK, DrawnByPass
<1>3. SeenIsPast'
  BY <1>1 DEF LogsInv, SeenIsPast, ringVars
<1>4. PanelKept'
  <2>1. \A p : Rendered(p)' = Rendered(p)
    BY <1>1 DEF Rendered, ringVars, panicVars
  <2>2. CASE dirty
    BY <1>1, <2>1, <2>2 DEF PanelKept, ringVars, panicVars, Rendered
  <2>3. CASE ~dirty
    BY <1>1, <2>1, <2>3 DEF LogsInv, PanelKept, Revisions, ringVars, panicVars, Rendered
  <2> QED BY <2>2, <2>3 DEF LogsInv, LogsTypeOK, ScreenTypeOK
<1> QED BY <1>1, <1>2, <1>3, <1>4, ScreenOnly
-----------------------------------------------------------------------------
(* The crash report: erased, or not; what showed it before is true of the  *)
(* report that was there.                                                  *)
LEMMA ReportMoves ==
  ASSUME LogsInv, dump' \in {"none", dump}, UNCHANGED <<ringVars, logsScreen, frame, dirty, shown, copy>>
  PROVE  /\ RingTypeOK' /\ ScreenTypeOK' /\ CopyTypeOK' /\ dump' \in Dumps
         /\ SeenIsPast' /\ DrawnByPass' /\ PanelKept' /\ TagIsPast' /\ FreshTagFreshRows'
<1>1. RingTypeOK' /\ ScreenTypeOK' /\ CopyTypeOK' /\ dump' \in Dumps
  BY DEF LogsInv, LogsTypeOK, RingTypeOK, ScreenTypeOK, CopyTypeOK, CrashTypeOK, ringVars, Dumps
<1>2. SeenIsPast' /\ DrawnByPass' /\ TagIsPast' /\ FreshTagFreshRows'
  BY DEF LogsInv, SeenIsPast, DrawnByPass, TagIsPast, FreshTagFreshRows, LogTag, ringVars
<1>3. PanelKept'
  <2>1. \A p \in Logs : Rendered(p)' = Rendered(p)
    BY DEF Rendered, ringVars
  <2>2. Revisions' = Revisions
    BY DEF Revisions, ringVars
  <2> QED BY <2>1, <2>2, ReportRendered DEF LogsInv, PanelKept
<1> QED BY <1>1, <1>2, <1>3

LEMMA ClearPageStep == LogsInv /\ ClearPage => LogsInv'
<1> SUFFICES ASSUME LogsInv, ClearPage PROVE LogsInv'
  OBVIOUS
<1>1. frame = "gesture" /\ frame' = "ticking" /\ dirty' = TRUE
      /\ UNCHANGED <<logsScreen, shown, copy>>
  BY DEF ClearPage
<1>2. ScreenTypeOK' /\ DrawnByPass' /\ PanelKept'
  BY <1>1 DEF LogsInv, LogsTypeOK, ScreenTypeOK, DrawnByPass, PanelKept
<1>3. CASE logsScreen.page \in Logs /\ ClearRows(logsScreen.page) /\ UNCHANGED panicVars
  <2>1. LogMoves(logsScreen.page)
    BY <1>3, ClearMoves
  <2>2. RingTypeOK' /\ CopyTypeOK' /\ TagIsPast' /\ FreshTagFreshRows' /\ SeenIsPast'
    BY <1>1, <1>3, <2>1, MoveKeeps, MoveSeen DEF SeenIsPast
  <2>3. CrashTypeOK' /\ MarkerMatchesDump'
    BY <1>1, <1>3 DEF LogsInv, LogsTypeOK, CrashTypeOK, MarkerMatchesDump,
                      panicVars, HasPanicDump, Dumps
  <2> QED BY <1>2, <2>2, <2>3 DEF LogsInv, LogsTypeOK
<1>4. CASE UNCHANGED <<ringVars, panicVars>>
  <2>1. SeenIsPast'
    BY <1>1, <1>4 DEF LogsInv, SeenIsPast, ringVars
  <2> QED BY <1>1, <1>2, <1>4, <2>1, ScreenOnly
<1>5. CASE dump' \in {"none", dump} /\ resync' = TRUE /\ UNCHANGED <<ringVars, marker, webClears>>
  <2>1. RingTypeOK' /\ CopyTypeOK' /\ CrashTypeOK'
    BY <1>1, <1>5 DEF LogsInv, LogsTypeOK, RingTypeOK, CopyTypeOK, CrashTypeOK, ringVars, Dumps
  <2>2. SeenIsPast' /\ TagIsPast' /\ FreshTagFreshRows'
    BY <1>1, <1>5 DEF LogsInv, SeenIsPast, TagIsPast, FreshTagFreshRows, LogTag, ringVars
  <2>3. MarkerMatchesDump'
    BY <1>5 DEF MarkerMatchesDump, HasPanicDump
  <2> QED BY <1>2, <2>1, <2>2, <2>3 DEF LogsInv, LogsTypeOK
<1> QED BY <1>3, <1>4, <1>5 DEF ClearPage

LEMMA ResyncStep == LogsInv /\ (ConsumeResync \/ SetChromeAlert) => LogsInv'
<1> SUFFICES ASSUME LogsInv, ConsumeResync \/ SetChromeAlert PROVE LogsInv'
  OBVIOUS
<1>1. /\ frame \in {"idle", "looking"} /\ frame' \in {"looking", "gesture"}
      /\ UNCHANGED <<dump, webClears, ringVars, logsScreen, dirty, shown, copy>>
  BY DEF ConsumeResync, SetChromeAlert
<1>2. RingTypeOK' /\ CopyTypeOK' /\ ScreenTypeOK' /\ DrawnByPass'
  BY <1>1 DEF LogsInv, LogsTypeOK, RingTypeOK, CopyTypeOK, ScreenTypeOK, DrawnByPass, ringVars
<1>3. SeenIsPast' /\ TagIsPast' /\ FreshTagFreshRows'
  BY <1>1 DEF LogsInv, SeenIsPast, TagIsPast, FreshTagFreshRows, LogTag, ringVars
<1>4. PanelKept'
  BY <1>1 DEF LogsInv, PanelKept, Rendered, Revisions, ringVars
<1>5. CrashTypeOK' /\ MarkerMatchesDump'
  <2>1. CASE ConsumeResync
    BY <2>1 DEF ConsumeResync, LogsInv, LogsTypeOK, CrashTypeOK, MarkerMatchesDump,
                      HasPanicDump, Dumps
  <2>2. CASE SetChromeAlert
    BY <2>2 DEF SetChromeAlert, LogsInv, LogsTypeOK, CrashTypeOK, MarkerMatchesDump,
                      HasPanicDump, Dumps
  <2> QED BY <2>1, <2>2
<1> QED BY <1>2, <1>3, <1>4, <1>5 DEF LogsInv, LogsTypeOK

LEMMA WebPanicStep == LogsInv /\ (WebClearPanic \/ WebAskResync) => LogsInv'
<1> SUFFICES ASSUME LogsInv, WebClearPanic \/ WebAskResync PROVE LogsInv'
  OBVIOUS
<1>1. UNCHANGED <<ring, pushes, logBoot, logsScreen, frame, dirty, shown, copy, marker>>
      /\ dump' \in {"none", dump}
  BY DEF WebClearPanic, WebAskResync, ringVars, screenVars
<1>2. RingTypeOK' /\ ScreenTypeOK' /\ CopyTypeOK'
  BY <1>1 DEF LogsInv, LogsTypeOK, RingTypeOK, ScreenTypeOK, CopyTypeOK
<1>3. SeenIsPast' /\ DrawnByPass' /\ TagIsPast' /\ FreshTagFreshRows'
  BY <1>1 DEF LogsInv, SeenIsPast, DrawnByPass, TagIsPast, FreshTagFreshRows, LogTag
<1>4. PanelKept'
  <2>1. \A p \in Logs : Rendered(p)' = Rendered(p)
    BY <1>1 DEF Rendered
  <2>2. Revisions' = Revisions
    BY <1>1 DEF Revisions
  <2> QED BY <1>1, <2>1, <2>2, ReportRendered DEF LogsInv, PanelKept
<1>5. CrashTypeOK' /\ MarkerMatchesDump'
  BY DEF WebClearPanic, WebAskResync, LogsInv, LogsTypeOK, CrashTypeOK, MarkerMatchesDump,
                      HasPanicDump, Dumps
<1> QED BY <1>2, <1>3, <1>4, <1>5 DEF LogsInv, LogsTypeOK

LEMMA LogsRebootStep == LogsInv /\ LogsReboot => LogsInv'
<1> SUFFICES ASSUME LogsInv, LogsReboot PROVE LogsInv'
  OBVIOUS
<1>1. /\ logBoot' = logBoot + 1 /\ logBoot \in Nat \ {0}
      /\ ring' = [l \in Logs |-> EmptyRing]
      /\ logsScreen' = [on |-> FALSE, page |-> 0, last |-> [l \in Logs |-> 0]]
      /\ frame' = "idle" /\ dirty' = FALSE
      /\ dump' \in {dump, "summary", "undecoded"} /\ resync' = FALSE
      /\ marker' = HasPanicDump' /\ webClears' = "idle"
      /\ UNCHANGED <<pushes, copy>>
  BY DEF LogsReboot, LogsInv, LogsTypeOK, RingTypeOK
<1>2. RingTypeOK' /\ CopyTypeOK'
  BY <1>1, EmptyRingType DEF LogsInv, LogsTypeOK, RingTypeOK, CopyTypeOK
<1>3. ScreenTypeOK'
  <2>1. 0 \in 0 .. NumLogs + 1
    BY RuntimeLogsAssumption
  <2> QED BY <1>1, <2>1 DEF ScreenTypeOK
<1>4. CrashTypeOK' /\ MarkerMatchesDump' /\ DrawnByPass'
  BY <1>1 DEF LogsInv, LogsTypeOK, CrashTypeOK, MarkerMatchesDump, DrawnByPass, HasPanicDump, Dumps
<1>5. SeenIsPast' /\ PanelKept'
  BY <1>1 DEF SeenIsPast, PanelKept, EmptyRing
<1>6. TagIsPast' /\ FreshTagFreshRows'
  <2>1. \A l \in Logs : copy[l].tag \in Nat \X Nat /\ copy[l].tag[1] <= logBoot
    BY DEF LogsInv, LogsTypeOK, CopyTypeOK, TagIsPast
  <2>2. \A l \in Logs : copy[l].tag[1] < logBoot'
    BY <1>1, <2>1
  <2>3. \A l \in Logs : LogTag(l)'[1] = logBoot' /\ copy'[l] = copy[l]
    BY <1>1 DEF LogTag
  <2> QED BY <2>1, <2>2, <2>3, <1>1 DEF TagIsPast, FreshTagFreshRows
<1> QED BY <1>2, <1>3, <1>4, <1>5, <1>6 DEF LogsInv, LogsTypeOK
-----------------------------------------------------------------------------
THEOREM LogsInvariant == RuntimeLogsSpec => []LogsInv
<1>1. LogsInv /\ [RuntimeLogsNext]_runtimeVars => LogsInv'
  <2> SUFFICES ASSUME LogsInv, [RuntimeLogsNext]_runtimeVars PROVE LogsInv'
    OBVIOUS
  <2>1. ASSUME NEW l \in Logs, Push(l) \/ WebClear(l) \/ ServeLog(l) PROVE LogsInv'
    BY <2>1, OtherLogSteps, ServeStep
  <2>2. CASE ConsumeResync \/ SetChromeAlert
    BY <2>2, ResyncStep
  <2>3. CASE OnEnterLogs
    BY <2>3, OnEnterLogsStep
  <2>4. CASE NextPage
    BY <2>4, NextPageStep
  <2>5. CASE ClearPage
    BY <2>5, ClearPageStep
  <2>6. CASE ExitLogs
    BY <2>6, ExitLogsStep
  <2>7. CASE NoLogsGesture
    BY <2>7, NoGestureStep
  <2>8. CASE TickLogs
    BY <2>8, TickLogsStep
  <2>9. CASE DrawLogs
    BY <2>9, DrawLogsStep
  <2>10. CASE WebClearPanic \/ WebAskResync
    BY <2>10, WebPanicStep
  <2>11. CASE LogsReboot
    BY <2>11, LogsRebootStep
  <2>12. CASE UNCHANGED runtimeVars
    <3>1. RingTypeOK' /\ ScreenTypeOK' /\ CopyTypeOK' /\ CrashTypeOK'
      BY <2>12 DEF runtimeVars, LogsInv, LogsTypeOK, RingTypeOK, ScreenTypeOK, CopyTypeOK, CrashTypeOK, Dumps
    <3>2. SeenIsPast' /\ DrawnByPass' /\ TagIsPast' /\ FreshTagFreshRows' /\ MarkerMatchesDump'
      BY <2>12 DEF runtimeVars, LogsInv, SeenIsPast, DrawnByPass, TagIsPast, FreshTagFreshRows,
                   LogTag, MarkerMatchesDump, HasPanicDump
    <3>3. PanelKept'
      BY <2>12 DEF runtimeVars, LogsInv, PanelKept, Rendered, Revisions
    <3> QED BY <3>1, <3>2, <3>3 DEF LogsInv, LogsTypeOK
  <2> QED BY <2>1, <2>2, <2>3, <2>4, <2>5, <2>6, <2>7, <2>8, <2>9, <2>10, <2>11, <2>12
          DEF RuntimeLogsNext, MainTask
<1> QED BY <1>1, LogsInitially, PTL DEF RuntimeLogsSpec

(* Between two passes the page in view shows its log as the screen last    *)
(* saw it, and the crash page hides no report, for any number of logs and  *)
(* any size of a ring (LogsScreen::tick, onDraw).                          *)
THEOREM PageShowsItsLog == RuntimeLogsSpec => []PageIsCurrent
<1>1. LogsInv => PageIsCurrent
  BY DEF LogsInv, PanelKept, DrawnByPass, PageIsCurrent
<1> QED BY <1>1, LogsInvariant, PTL

(* A tag that still fits stands for the rows the log has now, over clears, *)
(* overflows and restarts (conditional in diagnostics_routes).             *)
THEOREM TagStandsForRows == RuntimeLogsSpec => []FreshTagFreshRows
<1>1. LogsInv => FreshTagFreshRows
  BY DEF LogsInv
<1> QED BY <1>1, LogsInvariant, PTL

(* The marker in the bar tells of the crash report as soon as no clear of  *)
(* it is under way (clearLastPanicAndResync, consumePanicAlertResync).     *)
THEOREM MarkerTells == RuntimeLogsSpec => []MarkerMatchesDump
<1>1. LogsInv => MarkerMatchesDump
  BY DEF LogsInv
<1> QED BY <1>1, LogsInvariant, PTL

-----------------------------------------------------------------------------
=============================================================================
