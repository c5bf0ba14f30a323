------------------------------- MODULE Serve -------------------------------
(***************************************************************************)
(* The life of the daemon's process, from its listeners to its exit        *)
(* (cmd/wgserver/main.go, serve): the HTTP servers' goroutines, the one    *)
(* that waits for a signal and shuts them down, and the main goroutine,    *)
(* which collects the servers' results from the channel serveErr.          *)
(*                                                                         *)
(* net/http is external: Shutdown closes the listener at once, so that     *)
(* Serve returns ErrServerClosed, and itself returns when the server's     *)
(* requests are answered or its context, ten seconds for both servers,     *)
(* has expired.                                                            *)
(***************************************************************************)
EXTENDS Naturals, Sequences

CONSTANTS
    HasHealth,  \* whether http.health_addr is set
    MaxInFlight \* bounds the requests a server has under way

ASSUME ServeAssumption == HasHealth \in BOOLEAN /\ MaxInFlight \in Nat

Servers == IF HasHealth THEN {"admin", "health"} ELSE {"admin"}

\* make(chan error, 2), whichever servers there are.
Cap == 2

VARIABLES
    main,       \* the main goroutine: "collect", "drain" (<-idleDone), "exited"
    exit,       \* what serve returned
    collected,  \* results received so far
    serveErr,   \* the channel
    listener,   \* each server's
    returned,   \* servers whose Serve has returned
    inflight,   \* requests each server has accepted and not answered
    shutdown,   \* the signal goroutine's place
    timedOut,   \* the ten seconds are over
    cancelled   \* syncCtx: the syncer and the bot have been told to stop

server == <<listener, returned, inflight>>
signal == <<shutdown, timedOut, cancelled>>
vars == <<main, exit, collected, serveErr, listener, returned, inflight,
          shutdown, timedOut, cancelled>>

Stages == {"waiting", "signalled", "admin", "between", "health", "done"}

TypeOK ==
    /\ main \in {"collect", "drain", "exited"}
    /\ exit \in {"none", "clean", "error"}
    /\ main = "exited" <=> exit # "none"
    /\ collected \in 0..Cap
    /\ serveErr \in Seq({"closed", "failed"})
    /\ Len(serveErr) + collected <= Cap
    /\ listener \in [Servers -> {"open", "closed", "failed"}]
    /\ returned \subseteq Servers
    /\ inflight \in [Servers -> 0..MaxInFlight]
    /\ shutdown \in Stages
    /\ timedOut \in BOOLEAN /\ cancelled \in BOOLEAN
    /\ shutdown # "waiting" => cancelled

Init ==
    /\ main = "collect" /\ exit = "none" /\ collected = 0 /\ serveErr = <<>>
    /\ listener = [s \in Servers |-> "open"]
    /\ returned = {}
    /\ inflight = [s \in Servers |-> 0]
    /\ shutdown = "waiting" /\ timedOut = FALSE /\ cancelled = FALSE

Running == main # "exited"

-----------------------------------------------------------------------------
(***************************************************************************)
(* The servers.                                                            *)
(***************************************************************************)
Accept(s) ==
    /\ Running
    /\ listener[s] = "open"
    /\ inflight[s] < MaxInFlight
    /\ inflight' = [inflight EXCEPT ![s] = @ + 1]
    /\ UNCHANGED <<main, exit, collected, serveErr, listener, returned, signal>>

Answer(s) ==
    /\ Running
    /\ inflight[s] > 0
    /\ inflight' = [inflight EXCEPT ![s] = @ - 1]
    /\ UNCHANGED <<main, exit, collected, serveErr, listener, returned, signal>>

\* Serve has decided to return an error of accept(2).  (One that comes when
\* Shutdown has begun becomes ErrServerClosed: that is Close.)
ListenerFails(s) ==
    /\ Running
    /\ listener[s] = "open"
    /\ listener' = [listener EXCEPT ![s] = "failed"]
    /\ UNCHANGED <<main, exit, collected, serveErr, returned, inflight, signal>>

\* Mutated form of ServeReturns: Serve is called again after an error, and
\* every call's result goes into the channel.
ServeRetried(s) ==
    /\ Running
    /\ listener[s] # "open"
    /\ Len(serveErr) <= Cap
    /\ returned' = returned \union {s}
    /\ serveErr' = Append(serveErr, listener[s])
    /\ UNCHANGED <<main, exit, collected, listener, inflight, signal>>

\* serveErr <- srv.Serve(l).  The channel has room for both.
ServeReturns(s) ==
    /\ Running
    /\ listener[s] # "open" /\ s \notin returned
    /\ returned' = returned \union {s}
    /\ serveErr' = Append(serveErr, listener[s])
    /\ UNCHANGED <<main, exit, collected, listener, inflight, signal>>

-----------------------------------------------------------------------------
(***************************************************************************)
(* The signal goroutine: cancel syncCtx, shut the admin server down, then  *)
(* the health server if there is one, then close idleDone.                 *)
(***************************************************************************)
Signal ==
    /\ Running
    /\ shutdown = "waiting"
    /\ shutdown' = "signalled"
    /\ cancelled' = TRUE
    /\ UNCHANGED <<main, exit, collected, serveErr, server, timedOut>>

Close(s) == listener' = [listener EXCEPT ![s] = IF @ = "open" THEN "closed" ELSE @]

\* Mutated form of ShutdownAdmin: the servers are shut down the other way
\* round, the health server closed and drained before the admin server.
ShutdownHealthFirst ==
    /\ Running
    /\ shutdown = "signalled"
    /\ shutdown' = "admin"
    /\ listener' = [s \in Servers |-> IF listener[s] = "failed" THEN "failed" ELSE "closed"]
    /\ UNCHANGED <<main, exit, collected, serveErr, returned, inflight, timedOut, cancelled>>

ShutdownAdmin ==
    /\ Running
    /\ shutdown = "signalled"
    /\ shutdown' = "admin"
    /\ Close("admin")
    /\ UNCHANGED <<main, exit, collected, serveErr, returned, inflight, timedOut, cancelled>>

\* Mutated form of AdminDrained: Shutdown(context.Background()).
AdminDrainedUntimed ==
    /\ Running
    /\ shutdown = "admin"
    /\ inflight["admin"] = 0
    /\ shutdown' = IF HasHealth THEN "between" ELSE "done"
    /\ UNCHANGED <<main, exit, collected, serveErr, server, timedOut, cancelled>>

AdminDrained ==
    /\ Running
    /\ shutdown = "admin"
    /\ inflight["admin"] = 0 \/ timedOut
    /\ shutdown' = IF HasHealth THEN "between" ELSE "done"
    /\ UNCHANGED <<main, exit, collected, serveErr, server, timedOut, cancelled>>

ShutdownHealth ==
    /\ Running
    /\ shutdown = "between"
    /\ shutdown' = "health"
    /\ Close("health")
    /\ UNCHANGED <<main, exit, collected, serveErr, returned, inflight, timedOut, cancelled>>

HealthDrained ==
    /\ Running
    /\ shutdown = "health"
    /\ inflight["health"] = 0 \/ timedOut
    /\ shutdown' = "done"
    /\ UNCHANGED <<main, exit, collected, serveErr, server, timedOut, cancelled>>

\* context.WithTimeout(context.Background(), 10*time.Second)
ShutdownTimesOut ==
    /\ Running
    /\ shutdown \in {"admin", "between", "health"}
    /\ ~timedOut
    /\ timedOut' = TRUE
    /\ UNCHANGED <<main, exit, collected, serveErr, server, shutdown, cancelled>>

-----------------------------------------------------------------------------
(***************************************************************************)
(* The main goroutine.                                                     *)
(***************************************************************************)

\* Mutated form of Collect: an error other than ErrServerClosed is dropped.
CollectAll ==
    /\ main = "collect" /\ serveErr # <<>>
    /\ serveErr' = Tail(serveErr)
    /\ collected' = collected + 1
    /\ main' = IF collected' = Cap THEN "drain" ELSE main
    /\ UNCHANGED <<exit, server, signal>>

\* One result: an error ends the process at once, the second ErrServerClosed
\* ends the loop.
Collect ==
    /\ main = "collect" /\ serveErr # <<>>
    /\ serveErr' = Tail(serveErr)
    /\ collected' = collected + 1
    /\ IF Head(serveErr) = "failed"
       THEN main' = "exited" /\ exit' = "error"
       ELSE main' = (IF collected' = Cap THEN "drain" ELSE main) /\ UNCHANGED exit
    /\ UNCHANGED <<server, signal>>

\* Mutated form of ExitClean: idleDone is not waited for.
ExitUndrained ==
    /\ main = "drain"
    /\ main' = "exited" /\ exit' = "clean"
    /\ UNCHANGED <<collected, serveErr, server, signal>>

\* idleDone is closed: serve returns nil.
ExitClean ==
    /\ main = "drain"
    /\ shutdown = "done"
    /\ main' = "exited" /\ exit' = "clean"
    /\ UNCHANGED <<collected, serveErr, server, signal>>

-----------------------------------------------------------------------------
Goroutines ==
    \/ \E s \in Servers : ServeReturns(s)
    \/ ShutdownAdmin \/ AdminDrained \/ ShutdownHealth \/ HealthDrained
    \/ ShutdownTimesOut
    \/ Collect \/ ExitClean

Next ==
    \/ Goroutines
    \/ \E s \in Servers : Accept(s) \/ Answer(s) \/ ListenerFails(s)
    \/ Signal

Spec == Init /\ [][Next]_vars

\* Runnable goroutines run, and ten seconds pass.  Handlers need not answer
\* and nobody needs to send a signal.
Fairness ==
    /\ \A s \in {"admin", "health"} : WF_vars(s \in Servers /\ ServeReturns(s))
    /\ WF_vars(ShutdownAdmin) /\ WF_vars(AdminDrained)
    /\ WF_vars(ShutdownHealth) /\ WF_vars(HealthDrained)
    /\ WF_vars(ShutdownTimesOut)
    /\ WF_vars(Collect) /\ WF_vars(ExitClean)

FairSpec == Spec /\ Fairness

-----------------------------------------------------------------------------
\* A clean exit drops no request that the ten seconds left time to answer:
\* Serve has returned long before, at the closing of its listener.
CleanExitDrains ==
    exit = "clean" => timedOut \/ \A s \in Servers : inflight[s] = 0

\* /healthz is answered as long as an admin's request is being served, in the
\* middle of a shutdown too, until the ten seconds are over.
HealthOutlivesAdmin ==
    HasHealth /\ listener["health"] = "closed" =>
        /\ listener["admin"] # "open"
        /\ inflight["admin"] = 0 \/ timedOut

\* A daemon that lost a listener ends with an error, which is what makes
\* systemd (Restart=on-failure) start it again; a shutdown that begins at the
\* same time does not turn it into a success.
FailureIsReported ==
    \A s \in {"admin", "health"} :
        (s \in Servers /\ listener[s] = "failed") ~> (exit = "error")

\* "The loop shares the same context as the HTTP server so a SIGINT stops
\* both": the process ends after a signal, whatever its requests do.  Without
\* health_addr it does not: the second result never comes.
SignalEndsProcess == (shutdown = "signalled") ~> (exit # "none")

=============================================================================
