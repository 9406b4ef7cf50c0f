-------------------------------- MODULE Server --------------------------------
(***************************************************************************)
(* The life of one server process (run of cmd/server/main.go): start-up,   *)
(* the listener's goroutine, requests, SIGTERM, the drain and the deferred *)
(* calls, among a kubelet that probes it and asks it to stop.              *)
(***************************************************************************)
EXTENDS Naturals, FiniteSets

CONSTANTS
  Requests,       \* requests that clients may ever send
  ShutdownBudget, \* context of srv.Shutdown: 15 seconds
  PingTimeout,    \* context of a readiness ping: 2 seconds
  FlushBudget,    \* context of the tracer's shutdown: 5 seconds
  ConnectTimeout, \* for how long the pool builds a connection: 30 seconds
  RequestBudget,  \* WriteTimeout: 30 seconds
  Grace           \* terminationGracePeriodSeconds, which the chart leaves at 30

ASSUME GraceAssumption ==
  /\ {ShutdownBudget, PingTimeout, FlushBudget, ConnectTimeout, RequestBudget, Grace}
       \subseteq Nat
  /\ PingTimeout < ShutdownBudget /\ PingTimeout <= RequestBudget
  /\ ShutdownBudget + FlushBudget < Grace

VARIABLES
  pc,        \* where run is
  cfg,       \* what the environment sets: "database", "auth"
  tracer,    \* the exporter is running
  pool,
  connecting, \* time left to the connection that the pool builds of its own accord
  waited,    \* time spent in pool.Close
  listener,  \* the goroutine of ListenAndServe
  handled,   \* signal.Notify has been called
  failed,    \* run returns an error
  req, age,  \* the requests, and for how long each has been in hand
  asked,     \* SIGTERM was sent
  grace,     \* for how long
  spent,     \* time in the current phase of the shutdown
  exit

run == <<pc, cfg, tracer, pool, handled, failed, spent, exit>>
process == <<run, listener, waited>>
clients == <<req, age>>
kubelet == <<asked, grace>>
timing == <<connecting, waited>>
vars == <<process, connecting, clients, kubelet>>
-----------------------------------------------------------------------------
Running == {r \in Requests : req[r] \in {"handler", "ping"}}
Pings == {r \in Requests : req[r] = "ping"}

Init ==
  /\ pc = "config"
  /\ cfg \in SUBSET {"database", "auth"}
  /\ tracer = FALSE /\ pool = "none" /\ listener = "off"
  /\ connecting = 0 /\ waited = 0
  /\ handled = FALSE /\ failed = FALSE
  /\ req = [r \in Requests |-> "none"] /\ age = [r \in Requests |-> 0]
  /\ asked = FALSE /\ grace = 0 /\ spent = 0
  /\ exit = "running"

Goto(l) == pc' = l /\ spent' = 0

\* Mutant: the pool is left to the end of the process.
UnwindToTracer == IF tracer THEN "flush" ELSE "exit"

\* A return runs the deferred calls there are: the pool's, then the tracer's.
Unwind == IF pool = "open" THEN "close" ELSE IF tracer THEN "flush" ELSE "exit"

Fail == failed' = TRUE /\ Goto(Unwind)
-----------------------------------------------------------------------------
(* start-up *)

LoadConfig ==
  /\ pc = "config"
  /\ Goto("tracing")
  /\ UNCHANGED <<cfg, tracer, pool, listener, handled, failed, exit, clients, kubelet, timing>>

InitTracing ==
  /\ pc = "tracing"
  /\ tracer' = TRUE
  /\ Goto("database")
  /\ UNCHANGED <<cfg, pool, listener, handled, failed, exit, clients, kubelet, timing>>

\* NewPool hands out a pool that has answered a ping.  Without a DATABASE_URL the
\* server runs in shell mode.
ConnectDatabase ==
  /\ pc = "database"
  /\ pool' = IF "database" \in cfg THEN "open" ELSE "none"
  /\ Goto("router")
  /\ UNCHANGED <<cfg, tracer, listener, handled, failed, exit, clients, kubelet, timing>>

\* The environment does not parse, the exporter does not start, the database cannot be
\* reached (NewPool has closed the pool by then).
StartFails ==
  /\ pc \in {"config", "tracing"} \/ (pc = "database" /\ "database" \in cfg)
  /\ Fail
  /\ UNCHANGED <<cfg, tracer, pool, listener, handled, exit, clients, kubelet, timing>>

\* NewVerifier refuses unless issuer and audience are set, and the library may refuse
\* them then.
BuildRouter ==
  /\ pc = "router" /\ "auth" \in cfg
  /\ Goto("listen")
  /\ UNCHANGED <<cfg, tracer, pool, listener, handled, failed, exit, clients, kubelet, timing>>

BearerAuthFails ==
  /\ pc = "router"
  /\ Fail
  /\ UNCHANGED <<cfg, tracer, pool, listener, handled, exit, clients, kubelet, timing>>

StartListener ==
  /\ pc = "listen"
  /\ listener' = "starting"
  /\ Goto("notify")
  /\ UNCHANGED <<cfg, tracer, pool, handled, failed, exit, clients, kubelet, timing>>

Notify ==
  /\ pc = "notify"
  /\ handled' = TRUE
  /\ Goto("wait")
  /\ UNCHANGED <<cfg, tracer, pool, listener, failed, exit, clients, kubelet, timing>>

(* the listener's goroutine *)

Listens ==
  /\ pc # "exited" /\ listener = "starting"
  /\ listener' = "up"
  /\ UNCHANGED <<run, waited, connecting, clients, kubelet>>

\* Only logged.
ListenFails ==
  /\ pc # "exited" /\ listener = "starting"
  /\ listener' = "failed"
  /\ UNCHANGED <<run, waited, connecting, clients, kubelet>>
-----------------------------------------------------------------------------
(* the shutdown *)

\* Mutant: a server that does not serve does not listen for the signal either.
HeardWhileServing == asked /\ listener # "failed"

Heard == asked

\* Mutant: the drain may last as long as a response.
DrainForResponses == RequestBudget

DrainBudget == ShutdownBudget

\* Mutant: the drain begins with the listener still open.
TakeSignalServing ==
  /\ pc = "wait" /\ Heard
  /\ Goto("drain")
  /\ UNCHANGED <<cfg, tracer, pool, listener, handled, failed, exit, clients, kubelet, timing>>

\* The channel holds a signal that comes before main receives.  Shutdown closes the
\* listener first; one that has not started yet will not start.
TakeSignal ==
  /\ pc = "wait" /\ Heard
  /\ Goto("drain")
  /\ listener' = IF listener = "failed" THEN listener ELSE "closed"
  /\ UNCHANGED <<cfg, tracer, pool, handled, failed, exit, clients, kubelet, timing>>

\* Mutant: Shutdown does not wait for the requests.
DrainedAtOnce ==
  /\ pc = "drain"
  /\ Goto(Unwind)
  /\ UNCHANGED <<cfg, tracer, pool, listener, handled, failed, exit, clients, kubelet, timing>>

Drained ==
  /\ pc = "drain" /\ Running = {}
  /\ Goto(Unwind)
  /\ UNCHANGED <<cfg, tracer, pool, listener, handled, failed, exit, clients, kubelet, timing>>

DrainTimesOut ==
  /\ pc = "drain" /\ spent >= DrainBudget
  /\ Fail
  /\ UNCHANGED <<cfg, tracer, pool, listener, handled, exit, clients, kubelet, timing>>

\* pool.Close waits, without a limit, for the connections that pings hold and for one
\* that is being built.
ClosePool ==
  /\ pc = "close" /\ Pings = {} /\ connecting = 0
  /\ pool' = "closed"
  /\ Goto("flush")
  /\ UNCHANGED <<cfg, tracer, listener, handled, failed, exit, clients, kubelet, timing>>

\* Flushed, or out of time.
StopTracer ==
  /\ pc = "flush"
  /\ tracer' = FALSE
  /\ Goto("exit")
  /\ UNCHANGED <<cfg, pool, listener, handled, failed, exit, clients, kubelet, timing>>

\* The end of the process cuts off what is still in hand.
End(how) ==
  /\ pc' = "exited" /\ exit' = how
  /\ req' = [r \in Requests |-> IF r \in Running THEN "cut" ELSE req[r]]
  /\ UNCHANGED <<cfg, tracer, pool, listener, handled, failed, spent, age, kubelet, timing>>

Exit == pc = "exit" /\ End(IF failed THEN "1" ELSE "0")

Main ==
  \/ LoadConfig \/ InitTracing \/ ConnectDatabase \/ StartFails \/ BuildRouter
  \/ BearerAuthFails \/ StartListener \/ Notify
  \/ TakeSignal \/ Drained \/ DrainTimesOut \/ ClosePool \/ StopTracer \/ Exit
-----------------------------------------------------------------------------
(* the pool's own goroutine, which keeps MinConns of them *)

\* It builds connections on a context of its own, but none once it is being closed.
Connect ==
  /\ pool = "open" /\ pc \notin {"close", "exited"}
  /\ connecting' = ConnectTimeout
  /\ UNCHANGED <<process, clients, kubelet>>

\* The connection is there, or the database has refused it.
Connected ==
  /\ pc # "exited" /\ connecting > 0
  /\ connecting' = 0
  /\ UNCHANGED <<process, clients, kubelet>>
-----------------------------------------------------------------------------
(* the clients *)

\* A readiness request pings the database, every other is a handler of its own.
Accept(r) ==
  /\ pc # "exited" /\ listener = "up" /\ req[r] = "none"
  /\ \/ req' = [req EXCEPT ![r] = "handler"]
     \/ pool = "open" /\ req' = [req EXCEPT ![r] = "ping"]
  /\ UNCHANGED <<age, process, connecting, kubelet>>

\* The answer goes out, or its time is over.
Answer(r) ==
  /\ pc # "exited" /\ r \in Running
  /\ req' = [req EXCEPT ![r] = "answered"]
  /\ UNCHANGED <<age, process, connecting, kubelet>>

(* the kubelet *)

Stop ==
  /\ pc # "exited" /\ ~asked
  /\ asked' = TRUE
  /\ UNCHANGED <<grace, process, connecting, clients>>

\* The probes of the chart ask for the port the listener should have open.
ProbeFails == listener # "up" /\ Stop

\* Before signal.Notify a SIGTERM ends the process on the spot, and after it a SIGKILL
\* does when the grace period is over.
Forced ==
  /\ pc # "exited" /\ asked
  /\ handled => grace >= Grace
  /\ End(IF handled THEN "killed" ELSE "signal")

(* the clock: steps that wait for nothing take no time *)

Waiting ==
  \/ pc \in {"config", "tracing", "database"} /\ ~asked
  \/ pc = "wait" /\ ~Heard
  \/ pc = "drain" /\ Running # {} /\ spent < DrainBudget
  \/ pc = "close" /\ (Pings # {} \/ connecting > 0)
  \/ pc = "flush" /\ spent < FlushBudget

\* A ping has its own context, every other request the write deadline.
Expired(r) == age[r] >= IF r \in Pings THEN PingTimeout ELSE RequestBudget

Tick ==
  /\ Waiting /\ (Running # {} \/ asked \/ connecting > 0)
  /\ grace < Grace /\ \A r \in Running : ~Expired(r)
  /\ age' = [r \in Requests |-> IF r \in Running THEN age[r] + 1 ELSE age[r]]
  /\ spent' = IF pc \in {"drain", "close", "flush"} THEN spent + 1 ELSE spent
  /\ waited' = IF pc = "close" THEN waited + 1 ELSE waited
  /\ connecting' = IF connecting > 0 THEN connecting - 1 ELSE 0
  /\ grace' = IF asked THEN grace + 1 ELSE grace
  /\ UNCHANGED <<pc, cfg, tracer, pool, listener, handled, failed, exit, req, asked>>

Client == \E r \in Requests : Accept(r) \/ Answer(r)

Finished == pc = "exited" /\ UNCHANGED vars

Next ==
  \/ Main \/ Listens \/ ListenFails \/ Connect \/ Connected \/ Client
  \/ Stop \/ ProbeFails \/ Forced \/ Tick \/ Finished

Spec == Init /\ [][Next]_vars

\* Main and the listener's goroutine run when they can, the kubelet probes and kills,
\* the signal of a process that does not handle it is delivered, and time passes; a
\* client owes nothing, but a request whose time is over ends, and so does the building
\* of a connection (Tick).
Fairness ==
  /\ WF_vars(Main) /\ WF_vars(Listens \/ ListenFails)
  /\ WF_vars(ProbeFails) /\ WF_vars(Forced)
  /\ WF_vars(Tick) /\ \A r \in Requests : WF_vars(Expired(r) /\ Answer(r))

FairSpec == Spec /\ Fairness
-----------------------------------------------------------------------------
\* The values every variable ranges over.  No request outlives the
\* budget its kind has (main.go's time-outs, health.go's ping).
TypeOK ==
  /\ pc \in {"config", "tracing", "database", "router", "listen", "notify", "wait",
            "drain", "close", "flush", "exit", "exited"}
  /\ cfg \subseteq {"database", "auth"}
  /\ tracer \in BOOLEAN /\ handled \in BOOLEAN /\ failed \in BOOLEAN /\ asked \in BOOLEAN
  /\ pool \in {"none", "open", "closed"}
  /\ listener \in {"off", "starting", "up", "failed", "closed"}
  /\ req \in [Requests -> {"none", "handler", "ping", "answered", "cut"}]
  /\ age \in [Requests -> 0 .. RequestBudget] /\ \A r \in Pings : age[r] <= PingTimeout
  /\ grace \in 0 .. Grace /\ spent \in Nat /\ waited \in Nat
  /\ connecting \in 0 .. ConnectTimeout
  /\ exit \in {"running", "0", "1", "signal", "killed"}

\* A request in hand when the process is asked to stop (main.go's Shutdown) is answered,
\* unless it takes longer than the 15 seconds of the drain or the signal comes before
\* signal.Notify; a process that ends well has answered them all.
RequestsGetTheirTime ==
  \A r \in Requests : req[r] = "cut" =>
    exit = "signal" \/ (exit \in {"1", "killed"} /\ grace >= ShutdownBudget)

\* The spare time: what drain and flush leave of the grace period.
Spare == Grace - ShutdownBudget - FlushBudget

\* The drain and the tracer's flush, one after the other, fit the grace period.
\* pool.Close, which has no deadline of its own, finds no ping still out, also after a
\* drain that timed out, but it waits for a connection that the pool is building itself:
\* for ConnectTimeout at most.  A SIGKILL takes such a wait, and one of all the spare time.
StopsInTime ==
  /\ pc = "close" => Pings = {}
  /\ waited <= ConnectTimeout
  /\ grace <= ShutdownBudget + FlushBudget + waited
  /\ exit = "killed" => waited >= Spare

\* On every way out of run, of a failed start as of a failed drain, the deferred calls
\* release what was acquired, and the exporter outlives the pool whose pings it traces.
NothingLeftOpen ==
  /\ pool = "open" => tracer
  /\ exit \in {"0", "1"} => pool # "open" /\ ~tracer

\* A process that is asked to stop, whose start failed, or that serves nothing because its
\* listener failed (which main only logs) ends, and without being killed unless pool.Close
\* has used up the spare time: the probes find the last.
EndsWithoutForce ==
  asked \/ failed \/ listener = "failed" ~>
    exit \in {"0", "1", "signal"} \/ (exit = "killed" /\ waited >= Spare)
-----------------------------------------------------------------------------
(* Why: the parts of the inductive invariant *)

Starting == {"config", "tracing", "database", "router", "listen", "notify", "wait"}

\* What is acquired at each place of run, and what released.
Holdings ==
  /\ pc \in {"config", "tracing"} => ~tracer
  /\ pc \in {"config", "tracing", "database"} => pool = "none"
  /\ pc \in {"database", "router", "listen", "notify", "wait", "drain", "close", "flush"} => tracer
  /\ pc = "close" \/ connecting > 0 => pool = "open"
  /\ pc \in {"flush", "exit"} => pool # "open"
  /\ pc = "exit" => ~tracer
  /\ exit = "running" <=> pc # "exited"

\* Requests come in through the listener only, which is not open before it is started
\* nor after the shutdown has begun.
Door ==
  /\ pc \in Starting \ {"notify", "wait"} => listener = "off"
  /\ listener = "off" => Running = {}
  /\ pc \in {"drain", "close", "flush", "exit"} => listener \in {"off", "closed", "failed"}

\* Every phase of the shutdown has its own budget, and the requests of a drain are as
\* old as the drain at least, so that the pings are over when it times out.  What
\* pool.Close has waited was taken from the time of the connection.
Budgets ==
  /\ ~asked \/ pc \in Starting => grace = 0
  /\ pc = "drain" => /\ asked /\ grace = spent /\ spent <= ShutdownBudget
                     /\ \A r \in Running : age[r] >= spent
  /\ pc \in Starting \cup {"drain"} => waited = 0
  /\ pc = "close" => /\ Pings = {} /\ grace <= ShutdownBudget + waited
                     /\ waited + connecting <= ConnectTimeout
  /\ pc = "flush" => grace <= ShutdownBudget + waited + spent /\ spent <= FlushBudget
  /\ \A r \in Requests : req[r] = "none" => age[r] = 0

\* Only a drain that timed out leaves requests to be cut off by the end of the process.
Remainder ==
  /\ pc \in Starting \cup {"drain"} => ~failed
  /\ pc \in {"close", "flush", "exit"} /\ Running # {} => failed /\ grace >= ShutdownBudget
  /\ \A r \in Requests : req[r] = "cut" => pc = "exited"

\* The invariant that the proofs go by.
ServerInv ==
  /\ TypeOK /\ Holdings /\ Door /\ Budgets /\ Remainder
  /\ RequestsGetTheirTime /\ StopsInTime /\ NothingLeftOpen
=============================================================================
