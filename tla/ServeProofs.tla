---------------------------- MODULE ServeProofs ----------------------------
(***************************************************************************)
(* Theorems about Serve, with and without a health listener, for any       *)
(* number of requests under way.                                           *)
(***************************************************************************)
EXTENDS Serve, TLAPS

\* What the signal goroutine has behind it: a closed listener accepts no
\* more, so a server it has seen idle stays idle.
DrainedSoFar ==
    /\ shutdown \in {"admin", "between", "health", "done"} => listener["admin"] # "open"
    /\ shutdown \in {"between", "health", "done"} => inflight["admin"] = 0 \/ timedOut
    /\ shutdown \in {"between", "health"} => HasHealth
    /\ HasHealth =>
        /\ shutdown \in {"health", "done"} => listener["health"] # "open"
        /\ shutdown = "done" => inflight["health"] = 0 \/ timedOut
        /\ listener["health"] = "closed" => shutdown \in {"health", "done"}
    /\ exit = "clean" => shutdown = "done"

Sent(s) == IF s \in returned THEN 1 ELSE 0

\* What the main goroutine has been sent: one result of each server whose
\* Serve has returned, and it knows of a failure or will.
ResultsAddUp ==
    /\ Len(serveErr) + collected = Sent("admin") + Sent("health")
    /\ \A s \in returned : listener[s] # "open"
    /\ \A s \in returned :
        listener[s] = "failed" =>
            exit = "error" \/ \E i \in 1..Len(serveErr) : serveErr[i] = "failed"
    /\ main = "drain" \/ exit = "clean" => collected = Cap

IInv == TypeOK /\ DrainedSoFar /\ ResultsAddUp

\* The initial state satisfies the inductive invariant.
LEMMA InitIInv == Init => IInv
  <1> SUFFICES ASSUME Init PROVE IInv
    OBVIOUS
  <1> USE ServeAssumption DEF Init, Cap
  <1>1. serveErr \in Seq({"closed", "failed"}) /\ Len(serveErr) = 0
    OBVIOUS
  <1>2. TypeOK
    <2>1. /\ listener \in [Servers -> {"open", "closed", "failed"}]
          /\ inflight \in [Servers -> 0..MaxInFlight]
      OBVIOUS
    <2>2. timedOut \in BOOLEAN /\ cancelled \in BOOLEAN
      OBVIOUS
    <2>3. collected \in 0..Cap /\ Len(serveErr) + collected <= Cap
      BY <1>1
    <2> QED
      BY <1>1, <2>1, <2>2, <2>3 DEF TypeOK, Stages
  <1>3. DrainedSoFar
    BY DEF DrainedSoFar, Servers
  <1>4. ResultsAddUp
    BY <1>1 DEF ResultsAddUp, Sent, Servers
  <1> QED
    BY <1>2, <1>3, <1>4 DEF IInv

\* Steps of the servers' goroutines keep it.
LEMMA ServerSteps ==
    ASSUME IInv, NEW s \in Servers,
           Accept(s) \/ Answer(s) \/ ListenerFails(s) \/ ServeReturns(s)
    PROVE  IInv'
  <1> USE ServeAssumption
          DEF IInv, TypeOK, DrainedSoFar, ResultsAddUp, Sent, Servers, Stages, Cap,
              Running, signal
  <1>1. CASE Accept(s)
    BY <1>1 DEF Accept
  <1>2. CASE Answer(s)
    BY <1>2 DEF Answer
  <1>3. CASE ListenerFails(s)
    BY <1>3 DEF ListenerFails
  <1>4. CASE ServeReturns(s)
    BY <1>4 DEF ServeReturns
  <1> QED
    BY <1>1, <1>2, <1>3, <1>4

\* Steps of the signal goroutine, and the signal itself, keep it.
LEMMA SignalSteps ==
    ASSUME IInv,
           \/ Signal \/ ShutdownAdmin \/ AdminDrained
           \/ ShutdownHealth \/ HealthDrained \/ ShutdownTimesOut
    PROVE  IInv'
  <1> USE ServeAssumption
          DEF IInv, TypeOK, DrainedSoFar, ResultsAddUp, Sent, Servers, Stages, Cap,
              Running, server, Close
  <1>1. CASE Signal
    BY <1>1 DEF Signal
  <1>2. CASE ShutdownAdmin
    BY <1>2 DEF ShutdownAdmin
  <1>3. CASE AdminDrained
    BY <1>3 DEF AdminDrained
  <1>4. CASE ShutdownHealth
    BY <1>4 DEF ShutdownHealth
  <1>5. CASE HealthDrained
    BY <1>5 DEF HealthDrained
  <1>6. CASE ShutdownTimesOut
    BY <1>6 DEF ShutdownTimesOut
  <1> QED
    BY <1>1, <1>2, <1>3, <1>4, <1>5, <1>6

\* Steps of the main goroutine keep it.
LEMMA MainSteps ==
    ASSUME IInv, Collect \/ ExitClean
    PROVE  IInv'
  <1> USE ServeAssumption
          DEF IInv, TypeOK, DrainedSoFar, ResultsAddUp, Sent, Servers, Stages, Cap,
              Running, server, signal
  <1>1. CASE Collect
    BY <1>1 DEF Collect
  <1>2. CASE ExitClean
    BY <1>2 DEF ExitClean
  <1> QED
    BY <1>1, <1>2

\* The inductive invariant holds in every reachable state.
THEOREM SpecIInv == Spec => []IInv
  <1>1. IInv /\ UNCHANGED vars => IInv'
    BY DEF IInv, TypeOK, DrainedSoFar, ResultsAddUp, Sent, vars
  <1>2. IInv /\ [Next]_vars => IInv'
    BY <1>1, ServerSteps, SignalSteps, MainSteps DEF Next, Goroutines
  <1> QED
    BY <1>2, InitIInv, PTL DEF Spec

\* Types: above all, serveErr never holds more than it has room for, so that no
\* server's goroutine blocks on it.
THEOREM SpecTypeOK == Spec => []TypeOK
  <1>1. IInv => TypeOK
    BY DEF IInv
  <1> QED
    BY <1>1, SpecIInv, PTL

\* A clean exit drops no request that there was time to answer (serve waits
\* for idleDone).
THEOREM SpecCleanExitDrains == Spec => []CleanExitDrains
  <1>1. IInv => CleanExitDrains
    <2>1. ASSUME IInv, exit = "clean", ~timedOut, NEW s \in Servers
          PROVE  inflight[s] = 0
      BY <2>1 DEF IInv, DrainedSoFar, Servers
    <2> QED
      BY <2>1 DEF CleanExitDrains
  <1> QED
    BY <1>1, SpecIInv, PTL

\* The health listener is closed by a shutdown only after the admin server has
\* been drained.
THEOREM SpecHealthOutlivesAdmin == Spec => []HealthOutlivesAdmin
  <1>1. IInv => HealthOutlivesAdmin
    BY DEF IInv, DrainedSoFar, HealthOutlivesAdmin
  <1> QED
    BY <1>1, SpecIInv, PTL

-----------------------------------------------------------------------------
\* serve returns nil only if no listener has failed and both of them, admin
\* and health, were closed by the shutdown.
CleanMeansClosed ==
    exit = "clean" => HasHealth /\ \A s \in Servers : listener[s] = "closed"

\* The safety half of FailureIsReported, and of finding 4: a failure is never
\* turned into a success, and with a single listener there is no clean exit.
THEOREM SpecCleanMeansClosed == Spec => []CleanMeansClosed
  <1>1. ASSUME IInv, exit = "clean"
        PROVE  HasHealth /\ \A s \in Servers : listener[s] = "closed"
    <2> USE <1>1, ServeAssumption DEF IInv, TypeOK, ResultsAddUp, Servers, Cap, Sent
    <2>1. collected = 2 /\ Len(serveErr) = 0
      OBVIOUS
    <2>2. "admin" \in returned /\ "health" \in returned
      BY <2>1
    <2>3. HasHealth
      BY <2>2
    <2> QED
      BY <2>1, <2>2, <2>3
  <1> QED
    BY <1>1, SpecIInv, PTL DEF CleanMeansClosed

=============================================================================
