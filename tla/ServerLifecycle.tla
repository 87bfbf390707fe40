-------------------------- MODULE ServerLifecycle --------------------------
(***************************************************************************)
(* The process from its start to its end: runApp, the goroutine of         *)
(* startHTTPServer, the one of ListenAndServe, and the handlers of         *)
(* requests, as net/http runs them.                                        *)
(***************************************************************************)
EXTENDS Integers

CONSTANT Requests   \* bound: the requests one process gets

VARIABLES
  main,       \* runApp: "start", "select", "wait", "closed", "exited"
  server,     \* startHTTPServer: "start", "serving", "shutdown" (inShutdown is
              \* set), "closing" (the listeners are closed), "returned"
  listener,   \* ListenAndServe: "none", "start", "checked" (inShutdown was not
              \* set), "open" (a socket Shutdown does not know), "serving",
              \* "accepted" (with a connection in hand), "failed", "ended"
  request,    \* each handler: "none", "running", "done", "lost"
  ctxDone,    \* the root context is cancelled
  signal,     \* the operating system asked the process to end
  waitGroup

vars == <<main, server, listener, request, ctxDone, signal, waitGroup>>

Alive == main # "exited"

\* Shutdown sets inShutdown, and then closes the listeners it knows.
InShutdown == server \in {"shutdown", "closing", "returned"}
ListenersClosed == server \in {"closing", "returned"}

\* waitGroup.Add
WaitGroupSizeForgotten == 0
WaitGroupSize == 1

-----------------------------------------------------------------------------
Init ==
  /\ main = "start"
  /\ server = "start"
  /\ listener = "none"
  /\ request = [r \in Requests |-> "none"]
  /\ ctxDone = FALSE
  /\ signal = FALSE
  /\ waitGroup = WaitGroupSize

\* The process ends whatever its other goroutines do.
ProcessEnds ==
  /\ main' = "exited"
  /\ request' = [r \in Requests |-> IF request[r] = "running" THEN "lost"
                                    ELSE request[r]]

\* Before Notify a signal kills the process. Later ones have no reader.
Signal ==
  /\ Alive /\ ~signal
  /\ signal' = TRUE
  /\ \/ main = "start" /\ ProcessEnds
     \/ main # "start" /\ UNCHANGED <<main, request>>
  /\ UNCHANGED <<server, listener, ctxDone, waitGroup>>

Notify ==
  /\ main = "start"
  /\ main' = "select"
  /\ UNCHANGED <<server, listener, request, ctxDone, signal, waitGroup>>

\* Either branch of the select goes on with the context cancelled.
SelectNoCancel ==
  /\ main = "select"
  /\ signal \/ ctxDone
  /\ main' = "wait"
  /\ UNCHANGED <<server, listener, request, ctxDone, signal, waitGroup>>
Select ==
  /\ main = "select"
  /\ signal \/ ctxDone
  /\ main' = "wait"
  /\ ctxDone' = TRUE
  /\ UNCHANGED <<server, listener, request, signal, waitGroup>>

Wait ==
  /\ main = "wait"
  /\ waitGroup = 0
  /\ main' = "closed"
  /\ UNCHANGED <<server, listener, request, ctxDone, signal, waitGroup>>

Exit ==
  /\ main = "closed"
  /\ ProcessEnds
  /\ UNCHANGED <<server, listener, ctxDone, signal, waitGroup>>

-----------------------------------------------------------------------------
StartHTTPServer ==
  /\ Alive /\ server = "start"
  /\ server' = "serving"
  /\ listener' = "start"
  /\ UNCHANGED <<main, request, ctxDone, signal, waitGroup>>

\* Shutdown begins.
ContextDoneNoShutdown ==
  /\ Alive /\ server = "serving" /\ ctxDone
  /\ server' = "returned"
  /\ waitGroup' = waitGroup - 1
  /\ UNCHANGED <<main, listener, request, ctxDone, signal>>
ContextDone ==
  /\ Alive /\ server = "serving" /\ ctxDone
  /\ server' = "shutdown"
  /\ UNCHANGED <<main, listener, request, ctxDone, signal, waitGroup>>

CloseListeners ==
  /\ Alive /\ server = "shutdown"
  /\ server' = "closing"
  /\ UNCHANGED <<main, listener, request, ctxDone, signal, waitGroup>>

\* Shutdown waits for the Serve it knows and then, its context being the cancelled
\* one, for no handler: it returns, the deferred Done follows.
ShutdownReturns ==
  /\ Alive /\ server = "closing"
  /\ listener \notin {"serving", "accepted"}
  /\ server' = "returned"
  /\ waitGroup' = waitGroup - 1
  /\ UNCHANGED <<main, listener, request, ctxDone, signal>>

\* ListenAndServe looks at inShutdown, opens its socket (the port may be taken:
\* the error is logged and the goroutine ends), and looks again under the mutex
\* that makes the socket known to Shutdown: Serve closes one that comes too late.
ListenAndServe ==
  /\ Alive /\ listener = "start"
  /\ listener' = IF InShutdown THEN "ended" ELSE "checked"
  /\ UNCHANGED <<main, server, request, ctxDone, signal, waitGroup>>

Listen ==
  /\ Alive /\ listener = "checked"
  /\ listener' \in {"open", "failed"}
  /\ UNCHANGED <<main, server, request, ctxDone, signal, waitGroup>>

TrackListener ==
  /\ Alive /\ listener = "open"
  /\ listener' = IF InShutdown THEN "ended" ELSE "serving"
  /\ UNCHANGED <<main, server, request, ctxDone, signal, waitGroup>>

ServeReturns ==
  /\ Alive /\ listener = "serving" /\ ListenersClosed
  /\ listener' = "ended"
  /\ UNCHANGED <<main, server, request, ctxDone, signal, waitGroup>>

\* Serve takes a connection from an open socket, and hands the one it has to a
\* goroutine whatever became of the socket. A request runs from there, no Shutdown
\* taking its connection for idle, to the end of its handler.
TakeConnection ==
  /\ Alive /\ listener = "serving" /\ ~ListenersClosed
  /\ \E r \in Requests : request[r] = "none"
  /\ listener' = "accepted"
  /\ UNCHANGED <<main, server, request, ctxDone, signal, waitGroup>>

Accept(r) ==
  /\ Alive /\ listener = "accepted"
  /\ request[r] = "none"
  /\ request' = [request EXCEPT ![r] = "running"]
  /\ listener' = "serving"
  /\ UNCHANGED <<main, server, ctxDone, signal, waitGroup>>

Finish(r) ==
  /\ Alive /\ request[r] = "running"
  /\ request' = [request EXCEPT ![r] = "done"]
  /\ UNCHANGED <<main, server, listener, ctxDone, signal, waitGroup>>

RunApp == Notify \/ Select \/ Wait \/ Exit
ServerStep == StartHTTPServer \/ ContextDone \/ CloseListeners \/ ShutdownReturns
ListenerStep ==
  \/ ListenAndServe \/ Listen \/ TrackListener \/ ServeReturns
  \/ \E r \in Requests : Accept(r)
ProcessStep == Signal \/ RunApp \/ ServerStep \/ ListenerStep \/ TakeConnection

Next == ProcessStep \/ \E r \in Requests : Finish(r)

Spec == Init /\ [][Next]_vars

\* The runtime schedules every goroutine. Connections need not come, and handlers
\* may take for ever.
FairSpec ==
  Spec /\ WF_vars(RunApp) /\ WF_vars(ServerStep) /\ WF_vars(ListenerStep)

-----------------------------------------------------------------------------
\* Types. In particular no Done drives the wait group below zero, which panics.
TypeOK ==
  /\ main \in {"start", "select", "wait", "closed", "exited"}
  /\ server \in {"start", "serving", "shutdown", "closing", "returned"}
  /\ listener \in {"none", "start", "checked", "open", "serving", "accepted",
                  "failed", "ended"}
  /\ request \in [Requests -> {"none", "running", "done", "lost"}]
  /\ ctxDone \in BOOLEAN
  /\ signal \in BOOLEAN
  /\ waitGroup \in 0..WaitGroupSize

\* When startHTTPServer has returned, and so when runApp says "All service
\* closed...", no request begins any more, however late the goroutine of
\* ListenAndServe opened its socket: Shutdown may have found none to close, or one
\* with a connection just taken from it.
NoRequestAfterShutdown ==
  [][server = "returned" =>
       \A r \in Requests : request[r] = "none" => request'[r] = "none"]_vars

\* After a signal the goroutine whose turn it is can go on, be the server starting,
\* serving, or refused its port: no Wait, Shutdown or Serve waits for what will not
\* happen, however long the handlers take.
ShutdownNeverStuck ==
  signal /\ Alive =>
    IF main # "wait" \/ server = "returned" THEN ENABLED <<RunApp>>_vars
    ELSE IF server = "closing" /\ listener \in {"serving", "accepted"}
    THEN ENABLED <<ListenerStep>>_vars
    ELSE ENABLED <<ServerStep>>_vars

\* A signal ends the process.
ExitsAfterSignal == signal ~> ~Alive

\* The message "HTTP server shutdown gracefully" (startHTTPServer): no request is
\* in progress when Shutdown has returned. Not so: its context is already done.
GracefulShutdown ==
  server = "returned" /\ Alive => \A r \in Requests : request[r] # "running"
=============================================================================
