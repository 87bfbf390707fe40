----------------------- MODULE ServerLifecycleProofs -----------------------
(* Theorems about ServerLifecycle, for any set of requests.                *)
EXTENDS ServerLifecycle, TLAPS

\* Why nothing is accepted after the shutdown: runApp passes its Wait only after
\* startHTTPServer has returned, which saw Serve return, and a Serve that tracks its
\* socket later finds inShutdown set.
ClosedInv ==
  /\ waitGroup = (IF server = "returned" THEN 0 ELSE 1)
  /\ main = "closed" => server = "returned"
  /\ server = "returned" => listener \notin {"serving", "accepted"}

LifecycleInv == TypeOK /\ ClosedInv

LEMMA LifecycleInductive == Spec => []LifecycleInv
<1> USE DEF LifecycleInv, ClosedInv, TypeOK, WaitGroupSize, InShutdown,
            ListenersClosed, Alive
<1>1. Init => LifecycleInv
  <2> SUFFICES ASSUME Init PROVE LifecycleInv
    OBVIOUS
  <2>1. request \in [Requests -> {"none", "running", "done", "lost"}]
    BY DEF Init
  <2>2. waitGroup \in 0..WaitGroupSize
    BY DEF Init
  <2> QED
    BY <2>1, <2>2 DEF Init
<1>2. LifecycleInv /\ [Next]_vars => LifecycleInv'
  <2> SUFFICES ASSUME LifecycleInv, [Next]_vars PROVE LifecycleInv'
    OBVIOUS
  <2>1. CASE Signal
    BY <2>1 DEF Signal, ProcessEnds
  <2>2. CASE RunApp
    <3>1. CASE Notify
      BY <3>1 DEF Notify
    <3>2. CASE Select
      <4>1. ctxDone' \in BOOLEAN
        BY <3>2 DEF Select
      <4> QED
        BY <4>1, <3>2 DEF Select
    <3>3. CASE Wait
      BY <3>3 DEF Wait
    <3>4. CASE Exit
      <4>1. request' \in [Requests -> {"none", "running", "done", "lost"}]
        BY <3>4 DEF Exit, ProcessEnds
      <4> QED
        BY <4>1, <3>4 DEF Exit, ProcessEnds
    <3> QED
      BY <2>2, <3>1, <3>2, <3>3, <3>4 DEF RunApp
  <2>3. CASE ServerStep
    BY <2>3 DEF ServerStep, StartHTTPServer, ContextDone, CloseListeners, ShutdownReturns
  <2>4. CASE ListenerStep
    <3>1. CASE ListenAndServe \/ Listen \/ TrackListener \/ ServeReturns
      BY <3>1 DEF ListenAndServe, Listen, TrackListener, ServeReturns
    <3>2. CASE \E r \in Requests : Accept(r)
      BY <3>2 DEF Accept
    <3> QED
      BY <2>4, <3>1, <3>2 DEF ListenerStep
  <2>5. CASE TakeConnection
    BY <2>5 DEF TakeConnection
  <2>6. CASE \E r \in Requests : Finish(r)
    BY <2>6 DEF Finish
  <2>7. CASE UNCHANGED vars
    BY <2>7 DEF vars
  <2> QED
    BY <2>1, <2>2, <2>3, <2>4, <2>5, <2>6, <2>7 DEF Next, ProcessStep
<1> QED
  BY <1>1, <1>2, PTL DEF Spec

\* The process keeps its types; no Done drives the wait group below zero.
THEOREM LifecycleTypeCorrect == Spec => []TypeOK
BY LifecycleInductive, PTL DEF LifecycleInv

\* When startHTTPServer has returned no request begins any more, be it one whose
\* connection Serve had in hand when its socket was closed.
THEOREM NothingAcceptedAfterShutdown == Spec => NoRequestAfterShutdown
<1> DEFINE Late == server = "returned" =>
                     \A r \in Requests : request[r] = "none" => request'[r] = "none"
<1>1. LifecycleInv /\ [Next]_vars => [Late]_vars
  <2> SUFFICES ASSUME LifecycleInv, [Next]_vars, server = "returned",
                      NEW r \in Requests, request[r] = "none"
               PROVE  request'[r] = "none"
    OBVIOUS
  <2>0. listener # "accepted" /\ request \in [Requests -> {"none", "running", "done", "lost"}]
    BY DEF LifecycleInv, ClosedInv, TypeOK
  <2>1. CASE Signal \/ RunApp
    BY <2>0, <2>1 DEF Signal, RunApp, Notify, Select, Wait, Exit, ProcessEnds
  <2>2. CASE ServerStep \/ TakeConnection
    BY <2>2 DEF ServerStep, StartHTTPServer, ContextDone, CloseListeners,
                ShutdownReturns, TakeConnection
  <2>3. CASE ListenerStep
    BY <2>0, <2>3 DEF ListenerStep, ListenAndServe, Listen, TrackListener,
                      ServeReturns, Accept
  <2>4. CASE \E q \in Requests : Finish(q)
    BY <2>0, <2>4 DEF Finish
  <2>5. CASE UNCHANGED vars
    BY <2>5 DEF vars
  <2> QED
    BY <2>1, <2>2, <2>3, <2>4, <2>5 DEF Next, ProcessStep
<1> QED
  BY <1>1, LifecycleInductive, PTL DEF Spec, NoRequestAfterShutdown

-----------------------------------------------------------------------------
(* A signal ends the process                                               *)
(*                                                                         *)
(* What remains of the shutdown is a chain of places: each is left by the  *)
(* goroutine whose turn it is, and only for the ones behind it.            *)

\* Before Notify a signal kills; behind the select the context is cancelled.
SignalInv ==
  /\ signal => main # "start"
  /\ main \in {"wait", "closed"} => ctxDone

LEMMA SignalInductive == Spec => []SignalInv
<1>1. Init => SignalInv
  BY DEF Init, SignalInv
<1>2. SignalInv /\ [Next]_vars => SignalInv'
  BY DEF SignalInv, Next, ProcessStep, vars, Signal, ProcessEnds, RunApp, Notify,
         Select, Wait, Exit, ServerStep, StartHTTPServer, ContextDone, CloseListeners,
         ShutdownReturns, ListenerStep, ListenAndServe, Listen, TrackListener,
         ServeReturns, Accept, TakeConnection, Finish
<1> QED
  BY <1>1, <1>2, PTL DEF Spec

AllInv == LifecycleInv /\ SignalInv

\* The places of a shutdown, in their order.
InSelect == signal /\ main = "select"
Waiting(step) == signal /\ main = "wait" /\ server = step
Holding == Waiting("closing") /\ listener = "accepted"
Draining == Waiting("closing") /\ listener = "serving"
Drained == Waiting("closing") /\ listener \notin {"serving", "accepted"}
Closed == signal /\ main = "closed"

\* A place is left forwards, whoever takes the step.
LEMMA ShutdownForward ==
  ASSUME AllInv, [Next]_vars
  PROVE  /\ InSelect => (InSelect \/ (signal /\ main = "wait"))'
         /\ Waiting("start") => (Waiting("start") \/ Waiting("serving"))'
         /\ Waiting("serving") => (Waiting("serving") \/ Waiting("shutdown"))'
         /\ Waiting("shutdown") =>
              (Waiting("shutdown") \/ (Holding \/ Draining \/ Drained))'
         /\ Holding => (Holding \/ Draining)'
         /\ Draining => (Draining \/ Drained)'
         /\ Drained => (Drained \/ Waiting("returned"))'
         /\ Waiting("returned") => (Waiting("returned") \/ Closed)'
         /\ Closed => (Closed \/ ~Alive)'
<1> USE DEF AllInv, LifecycleInv, ClosedInv, TypeOK, SignalInv, InSelect, Waiting,
            Holding, Draining, Drained, Closed, Alive, InShutdown, ListenersClosed
<1>1. CASE Signal
  BY <1>1 DEF Signal
<1>2. CASE RunApp
  BY <1>2 DEF RunApp, Notify, Select, Wait, Exit, ProcessEnds
<1>3. CASE ServerStep
  BY <1>3 DEF ServerStep, StartHTTPServer, ContextDone, CloseListeners, ShutdownReturns
<1>4. CASE ListenerStep
  BY <1>4 DEF ListenerStep, ListenAndServe, Listen, TrackListener, ServeReturns, Accept
<1>5. CASE TakeConnection \/ \E r \in Requests : Finish(r)
  BY <1>5 DEF TakeConnection, Finish
<1>6. CASE UNCHANGED vars
  BY <1>6 DEF vars
<1> QED
  BY <1>1, <1>2, <1>3, <1>4, <1>5, <1>6 DEF Next, ProcessStep

\* The goroutine whose turn it is leaves the place.
LEMMA ShutdownMoves ==
  ASSUME AllInv
  PROVE  /\ InSelect /\ <<RunApp>>_vars => (signal /\ main = "wait")'
         /\ Waiting("start") /\ <<ServerStep>>_vars => (Waiting("serving"))'
         /\ Waiting("serving") /\ <<ServerStep>>_vars => (Waiting("shutdown"))'
         /\ Waiting("shutdown") /\ <<ServerStep>>_vars => (Holding \/ Draining \/ Drained)'
         /\ Holding /\ <<ListenerStep>>_vars => (Draining)'
         /\ Draining /\ <<ListenerStep>>_vars => (Drained)'
         /\ Drained /\ <<ServerStep>>_vars => (Waiting("returned"))'
         /\ Waiting("returned") /\ <<RunApp>>_vars => (Closed)'
         /\ Closed /\ <<RunApp>>_vars => (~Alive)'
<1> USE DEF AllInv, LifecycleInv, ClosedInv, TypeOK, SignalInv, InSelect, Waiting,
            Holding, Draining, Drained, Closed, Alive, InShutdown, ListenersClosed
<1>1. RunApp => /\ InSelect => (signal /\ main = "wait")'
                /\ Waiting("returned") => Closed'
                /\ Closed => ~Alive'
  BY DEF RunApp, Notify, Select, Wait, Exit, ProcessEnds
<1>2. ServerStep => /\ Waiting("start") => Waiting("serving")'
                    /\ Waiting("serving") => Waiting("shutdown")'
                    /\ Waiting("shutdown") => (Holding \/ Draining \/ Drained)'
                    /\ Drained => Waiting("returned")'
  BY DEF ServerStep, StartHTTPServer, ContextDone, CloseListeners, ShutdownReturns
<1>3. ListenerStep => /\ Holding => Draining'
                      /\ Draining => Drained'
  BY DEF ListenerStep, ListenAndServe, Listen, TrackListener, ServeReturns, Accept
<1> QED
  BY <1>1, <1>2, <1>3

LEMMA ShutdownOpen ==
  ASSUME ShutdownNeverStuck
  PROVE  /\ InSelect => ENABLED <<RunApp>>_vars
         /\ Waiting("start") => ENABLED <<ServerStep>>_vars
         /\ Waiting("serving") => ENABLED <<ServerStep>>_vars
         /\ Waiting("shutdown") => ENABLED <<ServerStep>>_vars
         /\ Holding => ENABLED <<ListenerStep>>_vars
         /\ Draining => ENABLED <<ListenerStep>>_vars
         /\ Drained => ENABLED <<ServerStep>>_vars
         /\ Waiting("returned") => ENABLED <<RunApp>>_vars
         /\ Closed => ENABLED <<RunApp>>_vars
BY DEF ShutdownNeverStuck, Alive, InSelect, Waiting, Holding, Draining, Drained, Closed

\* A signal ends the process, whatever the requests do and wherever start and
\* listener are, given that the goroutine whose turn it is can always go on
\* (ShutdownNeverStuck) and that the runtime schedules it.
THEOREM SignalEndsProcess == FairSpec /\ []ShutdownNeverStuck => ExitsAfterSignal
<1> DEFINE Fair == FairSpec /\ []ShutdownNeverStuck
<1>0. Spec => []AllInv
  BY LifecycleInductive, SignalInductive, PTL DEF AllInv
<1>1. Fair => (InSelect ~> (signal /\ main = "wait"))
  <2>1. AllInv /\ InSelect /\ [Next]_vars => (InSelect \/ (signal /\ main = "wait"))'
    BY ShutdownForward
  <2>2. AllInv /\ InSelect /\ <<RunApp>>_vars => ((signal /\ main = "wait"))'
    BY ShutdownMoves
  <2>3. ShutdownNeverStuck /\ InSelect => ENABLED <<RunApp>>_vars
    BY ShutdownOpen
  <2> QED
    BY <1>0, <2>1, <2>2, <2>3, PTL DEF FairSpec, Spec
<1>2. Fair => (Waiting("start") ~> Waiting("serving"))
  <2>1. AllInv /\ Waiting("start") /\ [Next]_vars => (Waiting("start") \/ Waiting("serving"))'
    BY ShutdownForward
  <2>2. AllInv /\ Waiting("start") /\ <<ServerStep>>_vars => (Waiting("serving"))'
    BY ShutdownMoves
  <2>3. ShutdownNeverStuck /\ Waiting("start") => ENABLED <<ServerStep>>_vars
    BY ShutdownOpen
  <2> QED
    BY <1>0, <2>1, <2>2, <2>3, PTL DEF FairSpec, Spec
<1>3. Fair => (Waiting("serving") ~> Waiting("shutdown"))
  <2>1. AllInv /\ Waiting("serving") /\ [Next]_vars => (Waiting("serving") \/ Waiting("shutdown"))'
    BY ShutdownForward
  <2>2. AllInv /\ Waiting("serving") /\ <<ServerStep>>_vars => (Waiting("shutdown"))'
    BY ShutdownMoves
  <2>3. ShutdownNeverStuck /\ Waiting("serving") => ENABLED <<ServerStep>>_vars
    BY ShutdownOpen
  <2> QED
    BY <1>0, <2>1, <2>2, <2>3, PTL DEF FairSpec, Spec
<1>4. Fair => (Waiting("shutdown") ~> (Holding \/ Draining \/ Drained))
  <2>1. AllInv /\ Waiting("shutdown") /\ [Next]_vars => (Waiting("shutdown") \/ (Holding \/ Draining \/ Drained))'
    BY ShutdownForward
  <2>2. AllInv /\ Waiting("shutdown") /\ <<ServerStep>>_vars => ((Holding \/ Draining \/ Drained))'
    BY ShutdownMoves
  <2>3. ShutdownNeverStuck /\ Waiting("shutdown") => ENABLED <<ServerStep>>_vars
    BY ShutdownOpen
  <2> QED
    BY <1>0, <2>1, <2>2, <2>3, PTL DEF FairSpec, Spec
<1>5. Fair => (Holding ~> Draining)
  <2>1. AllInv /\ Holding /\ [Next]_vars => (Holding \/ Draining)'
    BY ShutdownForward
  <2>2. AllInv /\ Holding /\ <<ListenerStep>>_vars => (Draining)'
    BY ShutdownMoves
  <2>3. ShutdownNeverStuck /\ Holding => ENABLED <<ListenerStep>>_vars
    BY ShutdownOpen
  <2> QED
    BY <1>0, <2>1, <2>2, <2>3, PTL DEF FairSpec, Spec
<1>6. Fair => (Draining ~> Drained)
  <2>1. AllInv /\ Draining /\ [Next]_vars => (Draining \/ Drained)'
    BY ShutdownForward
  <2>2. AllInv /\ Draining /\ <<ListenerStep>>_vars => (Drained)'
    BY ShutdownMoves
  <2>3. ShutdownNeverStuck /\ Draining => ENABLED <<ListenerStep>>_vars
    BY ShutdownOpen
  <2> QED
    BY <1>0, <2>1, <2>2, <2>3, PTL DEF FairSpec, Spec
<1>7. Fair => (Drained ~> Waiting("returned"))
  <2>1. AllInv /\ Drained /\ [Next]_vars => (Drained \/ Waiting("returned"))'
    BY ShutdownForward
  <2>2. AllInv /\ Drained /\ <<ServerStep>>_vars => (Waiting("returned"))'
    BY ShutdownMoves
  <2>3. ShutdownNeverStuck /\ Drained => ENABLED <<ServerStep>>_vars
    BY ShutdownOpen
  <2> QED
    BY <1>0, <2>1, <2>2, <2>3, PTL DEF FairSpec, Spec
<1>8. Fair => (Waiting("returned") ~> Closed)
  <2>1. AllInv /\ Waiting("returned") /\ [Next]_vars => (Waiting("returned") \/ Closed)'
    BY ShutdownForward
  <2>2. AllInv /\ Waiting("returned") /\ <<RunApp>>_vars => (Closed)'
    BY ShutdownMoves
  <2>3. ShutdownNeverStuck /\ Waiting("returned") => ENABLED <<RunApp>>_vars
    BY ShutdownOpen
  <2> QED
    BY <1>0, <2>1, <2>2, <2>3, PTL DEF FairSpec, Spec
<1>9. Fair => (Closed ~> ~Alive)
  <2>1. AllInv /\ Closed /\ [Next]_vars => (Closed \/ ~Alive)'
    BY ShutdownForward
  <2>2. AllInv /\ Closed /\ <<RunApp>>_vars => (~Alive)'
    BY ShutdownMoves
  <2>3. ShutdownNeverStuck /\ Closed => ENABLED <<RunApp>>_vars
    BY ShutdownOpen
  <2> QED
    BY <1>0, <2>1, <2>2, <2>3, PTL DEF FairSpec, Spec
<1>10. AllInv /\ signal /\ main = "wait"
         => \/ Waiting("start") \/ Waiting("serving") \/ Waiting("shutdown")
            \/ Holding \/ Draining \/ Drained \/ Waiting("returned")
  BY DEF AllInv, LifecycleInv, TypeOK, Waiting, Holding, Draining, Drained
<1>11. AllInv /\ signal
        => InSelect \/ (signal /\ main = "wait") \/ Closed \/ ~Alive
  BY DEF AllInv, LifecycleInv, TypeOK, SignalInv, InSelect, Closed, Alive
<1> QED
  BY <1>0, <1>1, <1>2, <1>3, <1>4, <1>5, <1>6, <1>7, <1>8, <1>9, <1>10, <1>11, PTL
  DEF FairSpec, ExitsAfterSignal
=============================================================================
