------------------------------ MODULE SseServer ------------------------------
(***************************************************************************)
(* The event stream on port 81: SseServer, the ticket route that            *)
(* ExtractionStream serves on port 80, and NetworkServicesHost and          *)
(* WifiManager, which start and stop both servers.  Three tasks interleave  *)
(* on the atomics _shouldRun, _taskExited, _stopReason and _sessionActive:  *)
(* main (start, stop, sleep), "http" (tickets) and "sse" (the session).     *)
(*                                                                         *)
(* A ticket is the number of its mint; the web pages follow                 *)
(* web-src/app/extraction/stream.js.  What the session sends is left out.   *)
(***************************************************************************)
EXTENDS Naturals

CONSTANTS
  Pages,        \* the browser tabs
  MaxTickets,   \* bound on the tickets minted
  MaxEvents     \* bound on reloads, Wi-Fi losses and sleep requests

ASSUME SseAssumption ==
  /\ "None" \notin Pages
  /\ MaxTickets \in Nat
  /\ MaxEvents \in Nat

VARIABLES
  \* main task
  mainPc,
  reachable,      \* wifiReachable()
  \* "http" task
  httpUp,         \* HttpServer::_shouldRun
  ticketing,      \* the page whose ticket is forced but not minted, or None
  \* shared
  shouldRun, taskExited, stopReason, sessionActive,
  minted,         \* tickets minted so far
  valid,          \* _ticketToken: the ticket consume() accepts, or 0
  \* "sse" task
  ssePc,
  cur,            \* the ticket of the connection being handled, or 0
  reason,         \* the reason read after the handler returned
  backlog,        \* tickets of the connections waiting to be accepted
  \* the pages
  page,
  stream,         \* the ticket of a page's latest EventSource, or 0
  events          \* events left

mainVars == <<mainPc, reachable, httpUp>>
sseVars  == <<ssePc, cur, reason>>
pageVars == <<page, stream>>
vars     == <<mainVars, ticketing, shouldRun, taskExited, stopReason, sessionActive,
              minted, valid, sseVars, backlog, pageVars, events>>

None       == "None"
Ticket     == 1..MaxTickets
StopReason == {"None", "Replaced", "Shutdown", "Sleeping"}
MainPc     == {"idle", "httpWait", "stopSet", "stopWait", "sleepSet", "sleepWait",
               "sleepEnd", "power"}
SsePc      == {"none", "start", "listen", "check", "consume", "downgrade",
               "activate", "session", "post", "emit", "clear", "close"}
Page       == {"closed", "asking", "opening", "streaming", "replaced", "waking",
               "retry"}

TypeOK ==
  /\ mainPc \in MainPc
  /\ reachable \in BOOLEAN
  /\ httpUp \in BOOLEAN
  /\ ticketing \in Pages \cup {None}
  /\ shouldRun \in BOOLEAN
  /\ taskExited \in BOOLEAN
  /\ stopReason \in StopReason
  /\ sessionActive \in BOOLEAN
  /\ minted \in 0..MaxTickets
  /\ valid \in 0..MaxTickets
  /\ ssePc \in SsePc
  /\ cur \in 0..MaxTickets
  /\ reason \in StopReason
  /\ backlog \subseteq Ticket
  /\ page \in [Pages -> Page]
  /\ stream \in [Pages -> 0..MaxTickets]
  /\ events \in 0..MaxEvents

Init ==
  /\ mainPc = "idle" /\ reachable = FALSE
  /\ httpUp = FALSE /\ ticketing = None
  /\ shouldRun = FALSE /\ taskExited = TRUE
  /\ stopReason = "None" /\ sessionActive = FALSE
  /\ minted = 0 /\ valid = 0
  /\ ssePc = "none" /\ cur = 0 /\ reason = "None" /\ backlog = {}
  /\ page = [p \in Pages |-> "closed"]
  /\ stream = [p \in Pages |-> 0]
  /\ events = MaxEvents

\* A page listens on the connection it made with ticket t.
Listens(p, t) == stream[p] = t /\ page[p] \in {"opening", "streaming"}

\* client.connected()
Connected(t) == \E p \in Pages : Listens(p, t)

\* The page listening on ticket t, if any, goes to the given state.
Notify(t, to) == page' = [p \in Pages |-> IF Listens(p, t) THEN to ELSE page[p]]

\* compare_exchange_strong on _stopReason
CompareExchange(expected, desired) ==
  stopReason' = IF stopReason = expected THEN desired ELSE stopReason

\* Mutant: only the takeover and the sleep signal end a session.
IsSessionStopRequested_NoShutdown == stopReason \in {"Replaced", "Sleeping"}

IsSessionStopRequested == stopReason # "None" \/ ~shouldRun

-----------------------------------------------------------------------------
(* The pages (stream.js). *)

Event == events > 0 /\ events' = events - 1

\* The user opens or reloads a page; the old connection is gone.
Load(p) ==
  /\ page[p] \in {"closed", "opening", "streaming", "replaced"}
  /\ Event
  /\ page' = [page EXCEPT ![p] = "asking"]
  /\ UNCHANGED <<mainVars, ticketing, shouldRun, taskExited, stopReason,
                 sessionActive, minted, valid, sseVars, backlog, stream>>

\* The user closes a page, or its idle timer fires on a connection gone quiet.
Leave(p) ==
  /\ page[p] \in {"opening", "streaming"}
  /\ Event
  /\ \E to \in {"closed", "waking"} : page' = [page EXCEPT ![p] = to]
  /\ UNCHANGED <<mainVars, ticketing, shouldRun, taskExited, stopReason,
                 sessionActive, minted, valid, sseVars, backlog, stream>>

\* scheduleReconnect() or wake polling: connect() asks for a new ticket.
Reconnect(p) ==
  /\ page[p] \in {"retry", "waking"}
  /\ httpUp
  /\ page' = [page EXCEPT ![p] = "asking"]
  /\ UNCHANGED <<mainVars, ticketing, shouldRun, taskExited, stopReason,
                 sessionActive, minted, valid, sseVars, backlog, stream, events>>

\* The ticket request, the connection, or the first packet does not come through.
GiveUp(p) ==
  /\ \/ page[p] = "asking" /\ ~httpUp /\ ticketing # p
     \/ page[p] = "opening"
  /\ page' = [page EXCEPT ![p] = "retry"]
  /\ UNCHANGED <<mainVars, ticketing, shouldRun, taskExited, stopReason,
                 sessionActive, minted, valid, sseVars, backlog, stream, events>>

PageNext == \E p \in Pages : Load(p) \/ Leave(p) \/ Reconnect(p) \/ GiveUp(p)

-----------------------------------------------------------------------------
(* The ticket route, on the "http" task: forceStopActiveSession(), then         *)
(* mintTicket(), which replaces any earlier ticket.                             *)

TicketForce(p) ==
  /\ httpUp /\ ticketing = None
  /\ page[p] = "asking"
  /\ minted < MaxTickets
  /\ ticketing' = p
  /\ stopReason' = "Replaced"
  /\ UNCHANGED <<mainVars, shouldRun, taskExited, sessionActive, minted, valid,
                 sseVars, backlog, pageVars, events>>

\* Mutant: a number is lost with every ticket.
TicketMint_Skips(p) ==
  /\ ticketing = p
  /\ ticketing' = None
  /\ minted' = minted + 2
  /\ valid' = minted + 2
  /\ page' = [page EXCEPT ![p] = "opening"]
  /\ stream' = [stream EXCEPT ![p] = minted + 2]
  /\ backlog' = backlog \cup {minted + 2}
  /\ UNCHANGED <<mainVars, shouldRun, taskExited, stopReason, sessionActive,
                 sseVars, events>>

\* The page opens its EventSource with the ticket, and the connection waits in
\* the accept queue of port 81; or it has given up on the reply
\* (TICKET_FETCH_TIMEOUT_MS) and will ask again.
TicketMint(p) ==
  /\ ticketing = p
  /\ ticketing' = None
  /\ minted' = minted + 1
  /\ valid' = minted + 1
  /\ \/ /\ page' = [page EXCEPT ![p] = "opening"]
        /\ stream' = [stream EXCEPT ![p] = minted + 1]
        /\ backlog' = IF ssePc \in {"none", "start"} THEN backlog
                                                     ELSE backlog \cup {minted + 1}
     \/ /\ page' = [page EXCEPT ![p] = "retry"]
        /\ UNCHANGED <<stream, backlog>>
  /\ UNCHANGED <<mainVars, shouldRun, taskExited, stopReason, sessionActive,
                 sseVars, events>>

\* kTicketTtlMs after the mint.
TicketExpires ==
  /\ valid # 0
  /\ valid' = 0
  /\ UNCHANGED <<mainVars, ticketing, shouldRun, taskExited, stopReason,
                 sessionActive, minted, sseVars, backlog, pageVars, events>>

HttpNext == \E p \in Pages : TicketForce(p) \/ TicketMint(p)

-----------------------------------------------------------------------------
(* The "sse" task. *)

SseKeeps == UNCHANGED <<mainVars, ticketing, shouldRun, minted, stream, events>>

\* _taskLoop() ends: the listener closes and the task is gone.
SseExit ==
  /\ ssePc \in {"start", "listen"}
  /\ ~shouldRun
  /\ ssePc' = "none"
  /\ taskExited' = TRUE
  /\ backlog' = {}
  /\ SseKeeps
  /\ UNCHANGED <<stopReason, sessionActive, valid, cur, reason, page>>

SseListen ==
  /\ ssePc = "start"
  /\ shouldRun
  /\ ssePc' = "listen"
  /\ SseKeeps
  /\ UNCHANGED <<taskExited, stopReason, sessionActive, valid, cur, reason, backlog,
                 page>>

SseAccept ==
  /\ ssePc = "listen"
  /\ shouldRun
  /\ \E t \in backlog : cur' = t /\ backlog' = backlog \ {t}
  /\ ssePc' = "check"
  /\ SseKeeps
  /\ UNCHANGED <<taskExited, stopReason, sessionActive, valid, reason, page>>

\* An error response; the page's EventSource fails.
Reject ==
  /\ Notify(cur, "retry")
  /\ cur' = 0
  /\ ssePc' = "listen"

\* _handleRoute(): 503 when a shutdown is in flight.
SseCheck ==
  /\ ssePc = "check"
  /\ IF shouldRun THEN ssePc' = "consume" /\ UNCHANGED <<cur, page>> ELSE Reject
  /\ SseKeeps
  /\ UNCHANGED <<taskExited, stopReason, sessionActive, valid, reason, backlog>>

\* _consumeTicket(), and the 200 headers or a 401.
SseConsume ==
  /\ ssePc = "consume"
  /\ IF valid = cur
     THEN /\ valid' = 0
          /\ Notify(cur, "streaming")
          /\ ssePc' = "downgrade"
          /\ UNCHANGED cur
     ELSE Reject /\ UNCHANGED valid
  /\ SseKeeps
  /\ UNCHANGED <<taskExited, stopReason, sessionActive, reason, backlog>>

\* Mutant: the leftover of an earlier takeover is not downgraded.
SseDowngrade_Skipped ==
  /\ ssePc = "downgrade"
  /\ ssePc' = "activate"
  /\ SseKeeps
  /\ UNCHANGED <<taskExited, stopReason, sessionActive, valid, cur, reason, backlog,
                 page>>

\* "Fresh session - downgrade a leftover Replaced to None".
SseDowngrade ==
  /\ ssePc = "downgrade"
  /\ CompareExchange("Replaced", "None")
  /\ ssePc' = "activate"
  /\ SseKeeps
  /\ UNCHANGED <<taskExited, sessionActive, valid, cur, reason, backlog, page>>

SseActivate ==
  /\ ssePc = "activate"
  /\ sessionActive' = TRUE
  /\ ssePc' = "session"
  /\ SseKeeps
  /\ UNCHANGED <<taskExited, stopReason, valid, cur, reason, backlog, page>>

\* The handler returns: on a stop request or a dead connection it must ...
HandlerReturns ==
  /\ ssePc = "session"
  /\ sessionActive' = FALSE
  /\ ssePc' = "post"
  /\ SseKeeps
  /\ UNCHANGED <<taskExited, stopReason, valid, cur, reason, backlog, page>>

SseHandlerStops == (IsSessionStopRequested \/ ~Connected(cur)) /\ HandlerReturns

\* ... and it may at any time, when a write or an allocation fails.
SseHandlerFails == HandlerReturns

SsePost ==
  /\ ssePc = "post"
  /\ reason' = stopReason
  /\ ssePc' = "emit"
  /\ SseKeeps
  /\ UNCHANGED <<taskExited, stopReason, sessionActive, valid, cur, backlog, page>>

\* The last frame: `replaced` stops the page from reconnecting, `sleeping` makes
\* it poll for the device.
SseEmit ==
  /\ ssePc = "emit"
  /\ CASE reason = "Replaced" -> Notify(cur, "replaced")
       [] reason = "Sleeping" -> Notify(cur, "waking")
       [] OTHER -> UNCHANGED page
  /\ ssePc' = IF reason = "Sleeping" /\ Connected(cur) THEN "clear" ELSE "close"
  /\ SseKeeps
  /\ UNCHANGED <<taskExited, stopReason, sessionActive, valid, cur, reason, backlog>>

SseClear ==
  /\ ssePc = "clear"
  /\ CompareExchange("Sleeping", "None")
  /\ ssePc' = "close"
  /\ SseKeeps
  /\ UNCHANGED <<taskExited, sessionActive, valid, cur, reason, backlog, page>>

\* Mutant: another copy of the WiFiClient keeps the socket open.
SseClose_LeaksClient ==
  /\ ssePc = "close"
  /\ cur' = 0
  /\ ssePc' = "listen"
  /\ SseKeeps
  /\ UNCHANGED <<taskExited, stopReason, sessionActive, valid, reason, backlog, page>>

\* client.stop(): a page that got no last frame reconnects.
SseClose ==
  /\ ssePc = "close"
  /\ Notify(cur, "retry")
  /\ cur' = 0
  /\ ssePc' = "listen"
  /\ SseKeeps
  /\ UNCHANGED <<taskExited, stopReason, sessionActive, valid, reason, backlog>>

SseProgress ==
  \/ SseExit \/ SseListen \/ SseAccept \/ SseCheck \/ SseConsume \/ SseDowngrade
  \/ SseActivate \/ SseHandlerStops \/ SsePost \/ SseEmit \/ SseClear \/ SseClose

-----------------------------------------------------------------------------
(* The main task. *)

MainKeeps == UNCHANGED <<ticketing, minted, sseVars, pageVars>>

WifiUp ==
  /\ ~reachable
  /\ reachable' = TRUE
  /\ MainKeeps
  /\ UNCHANGED <<mainPc, httpUp, shouldRun, taskExited, stopReason, sessionActive,
                 valid, backlog, events>>

WifiDown ==
  /\ reachable
  /\ Event
  /\ reachable' = FALSE
  /\ MainKeeps
  /\ UNCHANGED <<mainPc, httpUp, shouldRun, taskExited, stopReason, sessionActive,
                 valid, backlog>>

\* syncServers(), reachable: HttpServer::begin() ...
HttpBegin ==
  /\ mainPc = "idle" /\ reachable /\ ~httpUp
  /\ httpUp' = TRUE
  /\ MainKeeps
  /\ UNCHANGED <<mainPc, reachable, shouldRun, taskExited, stopReason, sessionActive,
                 valid, backlog, events>>

\* ... then SseServer::begin(), whose task creation may fail and is retried.
SseBegin ==
  /\ mainPc = "idle" /\ reachable /\ httpUp /\ ~shouldRun
  /\ taskExited
  /\ stopReason' = "None"
  /\ \/ shouldRun' = TRUE /\ taskExited' = FALSE /\ ssePc' = "start"
     \/ UNCHANGED <<shouldRun, taskExited, ssePc>>
  /\ UNCHANGED <<mainPc, reachable, httpUp, ticketing, minted, cur, reason, pageVars,
                 sessionActive, valid, backlog, events>>

\* syncServers(), unreachable, or a Wi-Fi request: HttpServer::stop() lets the
\* request in flight finish ...
HttpStop ==
  /\ mainPc = "idle"
  /\ httpUp
  /\ IF reachable THEN Event ELSE UNCHANGED events
  /\ httpUp' = FALSE
  /\ mainPc' = "httpWait"
  /\ MainKeeps
  /\ UNCHANGED <<reachable, shouldRun, taskExited, stopReason, sessionActive, valid,
                 backlog>>

\* ... and only then SseServer::stop() clears _shouldRun,
SseStop ==
  /\ mainPc = "httpWait"
  /\ ticketing = None
  /\ mainPc' = IF shouldRun THEN "stopSet" ELSE "idle"
  /\ shouldRun' = FALSE
  /\ MainKeeps
  /\ UNCHANGED <<reachable, httpUp, taskExited, stopReason, sessionActive, valid,
                 backlog, events>>

\* posts Shutdown,
SseStopReason ==
  /\ mainPc = "stopSet"
  /\ stopReason' = "Shutdown"
  /\ mainPc' = "stopWait"
  /\ MainKeeps
  /\ UNCHANGED <<reachable, httpUp, shouldRun, taskExited, sessionActive, valid,
                 backlog, events>>

\* and spins until the task has exited.
SseStopped ==
  /\ mainPc = "stopWait"
  /\ taskExited
  /\ mainPc' = "idle"
  /\ MainKeeps
  /\ UNCHANGED <<reachable, httpUp, shouldRun, taskExited, stopReason, sessionActive,
                 valid, backlog, events>>

\* The pre-sleep callback: signalSleeping() has nothing to do without a session.
SleepRequest ==
  /\ mainPc = "idle"
  /\ Event
  /\ mainPc' = IF sessionActive THEN "sleepSet" ELSE "power"
  /\ MainKeeps
  /\ UNCHANGED <<reachable, httpUp, shouldRun, taskExited, stopReason, sessionActive,
                 valid, backlog>>

SleepSignal ==
  /\ mainPc = "sleepSet"
  /\ stopReason' = "Sleeping"
  /\ mainPc' = "sleepWait"
  /\ MainKeeps
  /\ UNCHANGED <<reachable, httpUp, shouldRun, taskExited, sessionActive, valid,
                 backlog, events>>

\* The loop ends when the reason changes or after waitMs.
SleepWait ==
  /\ mainPc = "sleepWait"
  /\ mainPc' = "sleepEnd"
  /\ MainKeeps
  /\ UNCHANGED <<reachable, httpUp, shouldRun, taskExited, stopReason, sessionActive,
                 valid, backlog, events>>

\* Mutant: the sleep signal is taken back with a plain store.
SleepEnd_Stores ==
  /\ mainPc = "sleepEnd"
  /\ stopReason' = "None"
  /\ mainPc' = "power"
  /\ MainKeeps
  /\ UNCHANGED <<reachable, httpUp, shouldRun, taskExited, sessionActive, valid,
                 backlog, events>>

\* Mutant: the sleep signal is not taken back.
SleepEnd_Leaves ==
  /\ mainPc = "sleepEnd"
  /\ mainPc' = "power"
  /\ MainKeeps
  /\ UNCHANGED <<reachable, httpUp, shouldRun, taskExited, stopReason, sessionActive,
                 valid, backlog, events>>

\* "make sure Sleeping is not left stuck"
SleepEnd ==
  /\ mainPc = "sleepEnd"
  /\ CompareExchange("Sleeping", "None")
  /\ mainPc' = "power"
  /\ MainKeeps
  /\ UNCHANGED <<reachable, httpUp, shouldRun, taskExited, sessionActive, valid,
                 backlog, events>>

\* The device does not power off after all ...
StaysOn ==
  /\ mainPc = "power"
  /\ mainPc' = "idle"
  /\ MainKeeps
  /\ UNCHANGED <<reachable, httpUp, shouldRun, taskExited, stopReason, sessionActive,
                 valid, backlog, events>>

\* ... or it sleeps and boots again: everything but the pages is lost.
Reboot ==
  /\ mainPc = "power"
  /\ mainPc' = "idle"
  /\ reachable' = FALSE /\ httpUp' = FALSE /\ ticketing' = None
  /\ shouldRun' = FALSE /\ taskExited' = TRUE
  /\ stopReason' = "None" /\ sessionActive' = FALSE
  /\ valid' = 0 /\ ssePc' = "none" /\ cur' = 0 /\ reason' = "None" /\ backlog' = {}
  /\ page' = [p \in Pages |-> IF page[p] \in {"asking", "opening", "streaming"}
                              THEN "retry" ELSE page[p]]
  /\ UNCHANGED <<minted, stream, events>>

MainNext ==
  \/ HttpBegin \/ SseBegin \/ SseStop \/ SseStopReason \/ SseStopped
  \/ SleepSignal \/ SleepWait \/ SleepEnd \/ StaysOn \/ Reboot
  \/ HttpStop

-----------------------------------------------------------------------------

Next ==
  \/ PageNext \/ HttpNext \/ TicketExpires
  \/ SseProgress \/ SseHandlerFails
  \/ MainNext \/ WifiUp \/ WifiDown \/ SleepRequest

Spec == Init /\ [][Next]_vars

\* The three tasks keep being scheduled; a handler polls isSessionStopRequested().
Fairness == WF_vars(MainNext) /\ WF_vars(HttpNext) /\ WF_vars(SseProgress)

FairSpec == Spec /\ Fairness

-----------------------------------------------------------------------------
(* Properties. *)

\* The `replaced` frame strands a page until its user reloads, so it may only be
\* sent when somebody else really takes over: a later ticket has been minted or
\* another page is asking for one.  A shutdown, or a takeover that an earlier
\* session already answered, must not produce it.
ReplacedMeansTakeover ==
  \A p \in Pages : page[p] = "replaced" =>
    \/ minted > stream[p]
    \/ \E q \in Pages \ {p} : page[q] \in {"asking", "retry"}

\* signalSleeping() takes its signal back before it returns, whatever the session
\* and the ticket route did meanwhile: a stale Sleeping would end the next session.
SleepSignalTakenBack ==
  stopReason = "Sleeping" => mainPc \in {"sleepWait", "sleepEnd"}

\* A stop request that a running session has not answered yet is never withdrawn,
\* except for the sleep signal itself: neither signalSleeping()'s clean-up nor a
\* restart of the server may erase a takeover or a shutdown.
RequestNotWithdrawn ==
  [][ssePc = "session" /\ ssePc' = "session"
       /\ stopReason \in {"Replaced", "Shutdown"}
     => stopReason' # "None"]_vars

\* "One active client at a time": a page that shows a live stream is the page of
\* the session being served.  Every way out of a session - takeover, shutdown,
\* sleep, a dead peer - tells the page or closes its socket before the next
\* connection is accepted.
OneLiveStream ==
  \A p \in Pages : page[p] = "streaming" => stream[p] = cur

\* "A new ticket from an already-paired user transparently takes over any active
\* stream" (SseServer.h): while a newer ticket waits to be used, the session that
\* runs has been asked to stop.
LatestTicketWins ==
  (ssePc = "session" /\ valid > cur) => IsSessionStopRequested

\* stop() returns: it blocks the main loop until the task has wound down.
StopReturns == mainPc = "httpWait" ~> mainPc = "idle"

=============================================================================
