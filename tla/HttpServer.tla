----------------------------- MODULE HttpServer -----------------------------
(***************************************************************************)
(* HttpServer: the web server on port 80, which runs on a task of its own.  *)
(* The main task starts and stops it (begin, stop); any task may change the *)
(* route registry while it runs, and the server task rebuilds its WebServer *)
(* from the registry when the dirty flag tells it to.  What a handler does  *)
(* is the business of the modules that extend this one: a request being     *)
(* handled is httpReq, and they say how it ends.                            *)
(*                                                                         *)
(* The registry is abstracted to a version number.                          *)
(***************************************************************************)
EXTENDS Naturals, Faults

CONSTANT MaxRoutes   \* bound on the changes of the registry after boot

ASSUME HttpAssumption == MaxRoutes \in Nat

VARIABLES
  httpShould,   \* _shouldRun
  httpExited,   \* _taskExited
  dirty,        \* _routesDirty
  routes,       \* version of _routeGroups and _authMiddleware
  marking,      \* a registrar has changed the registry, not yet the flag
  httpPc,       \* the server task
  bound,        \* version the live WebServer answers for; 0 before the first
  backoff       \* rebuildBackoff: the last rebuild failed less than 5 s ago

httpVars == <<httpShould, httpExited, dirty, routes, marking, httpPc, bound,
              backoff>>

HttpPc == {"none", "spawned", "clear", "bind", "retry", "mdns", "loop", "rebind",
           "handler"}

HttpTypeOK ==
  /\ httpShould \in BOOLEAN /\ httpExited \in BOOLEAN /\ dirty \in BOOLEAN
  /\ routes \in 1..(MaxRoutes + 1)
  /\ marking \in BOOLEAN
  /\ httpPc \in HttpPc
  /\ bound \in 0..(MaxRoutes + 1)
  /\ backoff \in BOOLEAN 

\* Boot registers the built-in routes: one version, already marked.
HttpInit ==
  /\ httpShould = FALSE /\ httpExited = TRUE
  /\ dirty = TRUE /\ routes = 1 /\ marking = FALSE
  /\ httpPc = "none" /\ bound = 0 /\ backoff = FALSE

-----------------------------------------------------------------------------
(* The main task *)

\* begin(): nothing while a run is requested; otherwise, once the old task is
\* gone, a new one. The spawn can fail, which leaves everything stopped.
HttpBegin ==
  /\ ~httpShould /\ httpExited
  /\ \/ /\ httpShould' = TRUE /\ httpExited' = FALSE /\ httpPc' = "spawned"
        /\ UNCHANGED faults
     \/ Fails /\ UNCHANGED <<httpShould, httpExited, httpPc>>
  /\ UNCHANGED <<dirty, routes, marking, bound, backoff>>

\* The first half of stop(); the second is the wait for httpExited.
HttpStopPosted == httpShould' = FALSE

-----------------------------------------------------------------------------
(* The registrars: registerRoutes, unregisterRoutes, setAuthMiddleware *)

\* Under the mutex.
ChangeRoutes ==
  /\ ~marking /\ routes <= MaxRoutes
  /\ routes' = routes + 1
  /\ marking' = TRUE
  /\ UNCHANGED <<httpShould, httpExited, dirty, httpPc, bound, backoff, faults>>

\* After the mutex is released.
MarkDirty ==
  /\ marking
  /\ marking' = FALSE /\ dirty' = TRUE
  /\ UNCHANGED <<httpShould, httpExited, routes, httpPc, bound, backoff, faults>>

-----------------------------------------------------------------------------
(* The server task *)

\* The tail of the trampoline: what stop() and begin() wait for.
HttpExit ==
  /\ httpExited' = TRUE /\ httpPc' = "none" /\ bound' = 0 /\ backoff' = FALSE

X_SilentBail ==
  /\ httpPc = "spawned"
  /\ httpPc' = IF httpShould THEN "clear" ELSE "none"
  /\ UNCHANGED <<httpShould, httpExited, dirty, routes, marking, bound, backoff, faults>>
HttpTaskStarts ==
  /\ httpPc = "spawned"
  /\ \/ httpShould /\ httpPc' = "clear" /\ UNCHANGED <<httpExited, bound, backoff>>
     \/ ~httpShould /\ HttpExit
  /\ UNCHANGED <<httpShould, dirty, routes, marking, faults>>

\* _routesDirty is exchanged before the registry is read, on the way to the
\* first build and to every later one.
ClearDirty ==
  /\ \/ httpPc = "clear" /\ httpShould /\ httpPc' = "bind"
     \/ httpPc = "loop" /\ httpShould /\ dirty /\ ~backoff /\ httpPc' = "rebind"
  /\ dirty' = FALSE
  /\ UNCHANGED <<httpShould, httpExited, routes, marking, bound, backoff, faults>>

\* rebuild(): a WebServer bound to a snapshot of the registry. When it fails
\* the flag is raised again; the first build waits and retries, a later one
\* keeps the old server and backs off.
Rebuild ==
  /\ httpPc \in {"bind", "rebind"}
  /\ \/ /\ bound' = routes /\ backoff' = FALSE
        /\ httpPc' = IF httpPc = "bind" THEN "mdns" ELSE "loop"
        /\ UNCHANGED <<dirty, faults>>
     \/ /\ Fails /\ dirty' = TRUE /\ UNCHANGED bound
        /\ httpPc' = IF httpPc = "bind" THEN "retry" ELSE "loop"
        /\ backoff' = (httpPc = "rebind")
  /\ UNCHANGED <<httpShould, httpExited, routes, marking>>

\* waitForRebuildRetry and the loop around the first build: a stop request
\* ends the task, otherwise the 5 s pass and the build is tried again.
RetryBuild ==
  /\ httpPc \in {"retry", "clear"}
  /\ \/ httpShould /\ httpPc = "retry" /\ httpPc' = "clear"
        /\ UNCHANGED <<httpExited, bound, backoff>>
     \/ ~httpShould /\ HttpExit
  /\ UNCHANGED <<httpShould, dirty, routes, marking, faults>>

BackoffEnds ==
  /\ backoff
  /\ backoff' = FALSE
  /\ UNCHANGED <<httpShould, httpExited, dirty, routes, marking, httpPc, bound, faults>>

\* startMdns(), before the loop and, while it has failed, every 30 s in it;
\* whether the name is up is left out.
StartMdns ==
  /\ httpPc = "mdns" /\ httpPc' = "loop"
  /\ UNCHANGED <<httpShould, httpExited, dirty, routes, marking, bound, backoff, faults>>

\* handleClient() takes a request up, after the flag has been looked at.
TakeRequest ==
  /\ httpPc = "loop" /\ httpShould /\ (dirty => backoff)
  /\ httpPc' = "handler"
  /\ UNCHANGED <<httpShould, httpExited, dirty, routes, marking, bound, backoff, faults>>

\* The handler returns: handleClient() does, and the loop goes round.
FinishRequest ==
  /\ httpPc = "handler"
  /\ httpPc' = "loop"
  /\ UNCHANGED <<httpShould, httpExited, dirty, routes, marking, bound, backoff>>

\* The loop sees the stop request: mDNS and the server are taken down, in
\* that order, before the task says that it is gone.
LeaveLoop ==
  /\ httpPc = "loop" /\ ~httpShould
  /\ HttpExit
  /\ UNCHANGED <<httpShould, dirty, routes, marking, faults>>

HttpTask ==
  \/ HttpTaskStarts \/ ClearDirty \/ Rebuild \/ RetryBuild \/ BackoffEnds
  \/ StartMdns \/ LeaveLoop

-----------------------------------------------------------------------------
\* A change of the registry is never lost: a server that answers for an older
\* version has the flag up, or the registrar is about to raise it, or it is
\* between the clearing of the flag and the snapshot (_taskLoop).
RoutesNotLost ==
  bound # 0 /\ bound # routes => dirty \/ marking \/ httpPc = "rebind"

\* A server that serves is never behind the registry for good: the rebuild is
\* retried until it succeeds, or the server is stopped (_taskLoop).
RebuildCatchesUp ==
  (httpPc = "loop" /\ bound # routes) ~> (bound = routes \/ ~httpShould)
=============================================================================
