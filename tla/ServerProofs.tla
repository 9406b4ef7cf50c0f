----------------------------- MODULE ServerProofs ----------------------------
(***************************************************************************)
(* Proofs about Server, for any number of requests and all budgets that    *)
(* meet GraceAssumption.                                                   *)
(***************************************************************************)
EXTENDS Server, TLAPS

\* The invariant holds of a process that has just started.
LEMMA InitHolds == Init => ServerInv
  <1> SUFFICES ASSUME Init PROVE ServerInv
    OBVIOUS
  <1>1. Running = {} /\ Pings = {}
    BY DEF Init, Running, Pings
  <1>2. TypeOK
    <2>1. age \in [Requests -> 0 .. RequestBudget]
      BY GraceAssumption DEF Init
    <2>2. req \in [Requests -> {"none", "handler", "ping", "answered", "cut"}]
      BY DEF Init
    <2>3. grace \in 0 .. Grace /\ spent \in Nat /\ waited \in Nat /\ connecting \in 0 .. ConnectTimeout
      BY GraceAssumption DEF Init
    <2>4. cfg \subseteq {"database", "auth"}
      BY DEF Init
    <2>5. QED
      BY <1>1, <2>1, <2>2, <2>3, <2>4 DEF Init, TypeOK
  <1>3. Holdings /\ Door
    BY <1>1 DEF Init, Holdings, Door, Starting
  <1>4. Budgets /\ Remainder
    BY <1>1 DEF Init, Budgets, Remainder, Starting
  <1>5. RequestsGetTheirTime /\ StopsInTime /\ NothingLeftOpen
    BY GraceAssumption DEF Init, RequestsGetTheirTime, StopsInTime, NothingLeftOpen
  <1>6. QED
    BY <1>2, <1>3, <1>4, <1>5 DEF ServerInv

\* A step of run that touches neither requests nor clock.
LEMMA MainStep ==
  ASSUME ServerInv, Main, ~Exit PROVE ServerInv'
  <1> USE GraceAssumption DEF ServerInv, TypeOK, Holdings, Door, Budgets, Remainder, Starting,
     Running, Pings, RequestsGetTheirTime, StopsInTime, NothingLeftOpen, Spare, clients, kubelet, timing,
     Goto, Unwind, Fail, Heard, DrainBudget
  <1>1. CASE LoadConfig
    BY <1>1 DEF LoadConfig
  <1>2. CASE InitTracing
    BY <1>2 DEF InitTracing
  <1>3. CASE ConnectDatabase
    BY <1>3 DEF ConnectDatabase
  <1>4. CASE StartFails
    BY <1>4 DEF StartFails
  <1>5. CASE BuildRouter
    BY <1>5 DEF BuildRouter
  <1>6. CASE BearerAuthFails
    BY <1>6 DEF BearerAuthFails
  <1>7. CASE StartListener
    BY <1>7 DEF StartListener
  <1>8. CASE Notify
    BY <1>8 DEF Notify
  <1>9. CASE TakeSignal
    BY <1>9 DEF TakeSignal
  <1>10. CASE Drained
    BY <1>10 DEF Drained
  <1>11. CASE DrainTimesOut
    BY <1>11 DEF DrainTimesOut
  <1>12. CASE ClosePool
    BY <1>12 DEF ClosePool
  <1>13. CASE StopTracer
    BY <1>13 DEF StopTracer
  <1>14. QED
    BY <1>1, <1>2, <1>3, <1>4, <1>5, <1>6, <1>7, <1>8, <1>9, <1>10, <1>11, <1>12, <1>13 DEF Main

\* The end of a process, its own or forced, cuts off what is still in hand.
LEMMA EndStep ==
  ASSUME ServerInv, Exit \/ Forced PROVE ServerInv'
  <1> USE GraceAssumption DEF ServerInv, TypeOK, Holdings, Door, Budgets, Remainder, Starting,
     Running, Pings, RequestsGetTheirTime, StopsInTime, NothingLeftOpen, Spare, End, kubelet, timing
  <1>1. CASE Exit
    BY <1>1 DEF Exit
  <1>2. CASE Forced
    BY <1>2 DEF Forced
  <1>3. QED
    BY <1>1, <1>2

\* The goroutine of ListenAndServe opens the door or fails to.
LEMMA ListenerStep ==
  ASSUME ServerInv, Listens \/ ListenFails PROVE ServerInv'
  <1> USE GraceAssumption DEF ServerInv, TypeOK, Holdings, Door, Budgets, Remainder, Starting,
     Running, Pings, RequestsGetTheirTime, StopsInTime, NothingLeftOpen, Spare, run, clients, kubelet
  <1>1. CASE Listens
    BY <1>1 DEF Listens
  <1>2. CASE ListenFails
    BY <1>2 DEF ListenFails
  <1>3. QED
    BY <1>1, <1>2

\* The pool begins to build a connection or is done with one.
LEMMA PoolStep ==
  ASSUME ServerInv, Connect \/ Connected PROVE ServerInv'
  <1> USE GraceAssumption DEF ServerInv, TypeOK, Holdings, Door, Budgets, Remainder, Starting,
     Running, Pings, RequestsGetTheirTime, StopsInTime, NothingLeftOpen, Spare, run, process,
     clients, kubelet
  <1>1. CASE Connect
    BY <1>1 DEF Connect
  <1>2. CASE Connected
    BY <1>2 DEF Connected
  <1>3. QED
    BY <1>1, <1>2

\* A request comes in or is answered.
LEMMA ClientStep ==
  ASSUME ServerInv, NEW r \in Requests, Accept(r) \/ Answer(r) PROVE ServerInv'
  <1> USE GraceAssumption DEF ServerInv, TypeOK, Holdings, Door, Budgets, Remainder, Starting,
     Running, Pings, RequestsGetTheirTime, StopsInTime, NothingLeftOpen, Spare, run, process, kubelet
  <1>1. CASE Accept(r)
    BY <1>1 DEF Accept
  <1>2. CASE Answer(r)
    BY <1>2 DEF Answer
  <1>3. QED
    BY <1>1, <1>2

\* The kubelet asks the process to stop, or a probe has it ask.
LEMMA StopStep ==
  ASSUME ServerInv, Stop \/ ProbeFails PROVE ServerInv'
  <1>1. Stop
    BY DEF ProbeFails
  <1>2. QED
    BY <1>1, GraceAssumption DEF ServerInv, TypeOK, Holdings, Door, Budgets, Remainder, Starting,
     Running, Pings, RequestsGetTheirTime, StopsInTime, NothingLeftOpen, Spare, Stop, run, process, clients

\* Time passes: a drain outlasts every ping, and no phase its budget.
LEMMA TickStep ==
  ASSUME ServerInv, Tick PROVE ServerInv'
  BY GraceAssumption DEF ServerInv, TypeOK, Holdings, Door, Budgets, Remainder, Starting,
     Running, Pings, RequestsGetTheirTime, StopsInTime, NothingLeftOpen, Spare, Tick, Waiting, Expired,
     Heard, DrainBudget

\* A step that leaves the process, its clients and the kubelet as they are.
LEMMA StutterStep ==
  ASSUME ServerInv, UNCHANGED vars PROVE ServerInv'
  BY DEF ServerInv, TypeOK, Holdings, Door, Budgets, Remainder, Starting,
     Running, Pings, RequestsGetTheirTime, StopsInTime, NothingLeftOpen, Spare, vars, run, process, clients,
     kubelet

\* The inductive invariant of a server process.
THEOREM ServerInvariance == Spec => []ServerInv
  <1>1. ServerInv /\ [Next]_vars => ServerInv'
    BY MainStep, EndStep, ListenerStep, PoolStep, ClientStep, StopStep, TickStep, StutterStep
       DEF Next, Client, Finished
  <1>2. QED
    BY <1>1, InitHolds, PTL DEF Spec

\* Every variable keeps to its values, and no request outlives the budget of its kind:
\* 2 seconds of a readiness ping, the write deadline of every other.
THEOREM ServerTypeCorrect == Spec => []TypeOK
  BY ServerInvariance, PTL DEF ServerInv

\* However many requests are in hand when SIGTERM comes, only the 15 seconds of
\* srv.Shutdown, or a signal before signal.Notify, cut one off.
THEOREM RequestsHold == Spec => []RequestsGetTheirTime
  BY ServerInvariance, PTL DEF ServerInv

\* The drain and the flush fit the grace period, pool.Close waits for no ping, and for a
\* connection under construction no longer than that may take: whatever the budgets, as long
\* as a ping is shorter than the drain, a process is killed only if pool.Close has used up
\* the spare time.
THEOREM StopsHold == Spec => []StopsInTime
  BY ServerInvariance, PTL DEF ServerInv

\* On every way out of run the pool and then the exporter are released.
THEOREM NothingLeftOpenHolds == Spec => []NothingLeftOpen
  BY ServerInvariance, PTL DEF ServerInv
=============================================================================
