--------------------------- MODULE CircuitBreaker ---------------------------
(***************************************************************************)
(* CircuitBreaker of worker-core: one instance in each worker process.     *)
(* exec(fn) reads the state once, awaits fn, then reports what came of it; *)
(* other calls run in between.  t is what Date.now() answers.              *)
(***************************************************************************)
EXTENDS Naturals

CONSTANTS Workers,           \* worker processes, each with a breaker of its own
          FailureThreshold,  \* consecutive failures that open the circuit
          CooldownMs         \* how long it stays open before a probe

ASSUME BreakerAssumption == FailureThreshold \in Nat \ {0} /\ CooldownMs \in Nat

VARIABLES state,                \* state[w] of the breaker of process w
          consecutiveFailures,  \* consecutiveFailures[w]
          openedAt              \* openedAt[w], a time

breakerVars == <<state, consecutiveFailures, openedAt>>

CircuitState == {"CLOSED", "OPEN", "HALF_OPEN"}

BreakerTypeOK ==
    /\ state \in [Workers -> CircuitState]
    /\ consecutiveFailures \in [Workers -> Nat]
    /\ openedAt \in [Workers -> Nat]

BreakerInit ==
    /\ state = [w \in Workers |-> "CLOSED"]
    /\ consecutiveFailures = [w \in Workers |-> 0]
    /\ openedAt = [w \in Workers |-> 0]

\* getState: an open circuit whose cooldown is over becomes HALF_OPEN when it is read.
CooledDown(w, t) == t - openedAt[w] >= CooldownMs

GetState(w, t) == IF state[w] = "OPEN" /\ CooledDown(w, t) THEN "HALF_OPEN" ELSE state[w]

\* The head of exec: fail fast or go on to call fn.
FailFast(w, t) == GetState(w, t) = "OPEN" /\ UNCHANGED breakerVars

LetThrough(w, t) ==
    /\ GetState(w, t) # "OPEN"
    /\ state' = [state EXCEPT ![w] = GetState(w, t)]
    /\ UNCHANGED <<consecutiveFailures, openedAt>>

\* onSuccess that forgets the counter.
OnSuccess_keepsCount(w) ==
    /\ state' = [state EXCEPT ![w] = "CLOSED"]
    /\ UNCHANGED <<consecutiveFailures, openedAt>>

\* fn resolved, however long after it was let through.
OnSuccess(w) ==
    /\ consecutiveFailures' = [consecutiveFailures EXCEPT ![w] = 0]
    /\ state' = [state EXCEPT ![w] = "CLOSED"]
    /\ UNCHANGED openedAt

\* fn threw.
Trips(w) == consecutiveFailures[w] + 1 >= FailureThreshold \/ state[w] = "HALF_OPEN"

OnFailure(w, t) ==
    /\ consecutiveFailures' = [consecutiveFailures EXCEPT ![w] = @ + 1]
    /\ IF Trips(w)
       THEN /\ state' = [state EXCEPT ![w] = "OPEN"]
            /\ openedAt' = [openedAt EXCEPT ![w] = t]
       ELSE UNCHANGED <<state, openedAt>>

\* A restarted process builds a new breaker; reset() does the same to an old one.
ResetBreaker(w) ==
    /\ state' = [state EXCEPT ![w] = "CLOSED"]
    /\ consecutiveFailures' = [consecutiveFailures EXCEPT ![w] = 0]
    /\ openedAt' = [openedAt EXCEPT ![w] = 0]

\* The circuit is closed exactly while the failures in a row are below the threshold,
\* whatever order the answers of overlapping calls come in: a late failure under OPEN
\* or HALF_OPEN never closes it, and no failure is lost on the way to OPEN.
ClosedBelowThreshold ==
    \A w \in Workers : state[w] = "CLOSED" <=> consecutiveFailures[w] < FailureThreshold
=============================================================================
