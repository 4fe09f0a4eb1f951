--------------------------- MODULE CircuitBreaker ---------------------------
(***************************************************************************)
(* internal/resilience/circuit_breaker.go: a circuit breaker shared by     *)
(* concurrent callers.  Call is beforeCall, the guarded operation, then    *)
(* afterCall; the mutex covers the two ends and not the operation, so the  *)
(* result of a call may arrive in a state other than the one that admitted *)
(* it.  Time is abstracted to whether Timeout has passed since OpenedAt.   *)
(***************************************************************************)
EXTENDS Integers, FiniteSets

CONSTANTS
  Callers,            \* goroutines that share the breaker
  FailureThreshold,   \* config: open after this many consecutive failures
  SuccessThreshold,   \* config: close after this many half-open successes
  HalfOpenRequests    \* config: concurrent requests allowed while half-open

ASSUME CallersAssumption == IsFiniteSet(Callers)
ASSUME ConfigAssumption ==
  /\ FailureThreshold \in Nat \ {0}
  /\ SuccessThreshold \in Nat \ {0}
  /\ HalfOpenRequests \in Nat \ {0}

VARIABLES
  state,            \* "closed", "open" or "half_open"
  failureCount,
  successCount,
  inHalfOpen,       \* the field HalfOpenRequests: half-open slots in use
  timer,            \* "elapsed" when time.Since(OpenedAt) >= Timeout
  running,          \* callers between beforeCall and afterCall
  (* history *)
  probes,           \* running callers admitted in the current half-open epoch
  probeSuccesses    \* successes of such callers in the current epoch

vars == <<state, failureCount, successCount, inHalfOpen, timer, running,
          probes, probeSuccesses>>

TypeOK ==
  /\ state \in {"closed", "open", "half_open"}
  /\ failureCount \in Nat
  /\ successCount \in Nat
  /\ inHalfOpen \in Int
  /\ timer \in {"running", "elapsed"}
  /\ running \in SUBSET Callers
  /\ probes \in SUBSET Callers
  /\ probeSuccesses \in Nat

(***************************************************************************)
(* NewCircuitBreaker, with a configuration whose zero fields have been     *)
(* replaced by their defaults.                                             *)
(***************************************************************************)
Init ==
  /\ state = "closed"
  /\ failureCount = 0
  /\ successCount = 0
  /\ inHalfOpen = 0
  /\ timer = "running"
  /\ running = {}
  /\ probes = {}
  /\ probeSuccesses = 0

-----------------------------------------------------------------------------
(* beforeCall: one disjunct per state; a rejected call leaves no trace.    *)

AdmitClosed(c) ==
  /\ state = "closed"
  /\ running' = running \union {c}
  /\ UNCHANGED <<state, failureCount, successCount, inHalfOpen, timer,
                 probes, probeSuccesses>>

AdmitAfterTimeout(c) ==
  /\ state = "open"
  /\ timer = "elapsed"
  /\ state' = "half_open"
  /\ successCount' = 0
  /\ failureCount' = 0
  /\ inHalfOpen' = 1
  /\ running' = running \union {c}
  /\ probes' = {c}
  /\ probeSuccesses' = 0
  /\ UNCHANGED timer

\* A bug to catch: the limit compared with > instead of >=.
HasSlotOffByOne == inHalfOpen <= HalfOpenRequests

HasSlot == inHalfOpen < HalfOpenRequests

AdmitHalfOpen(c) ==
  /\ state = "half_open"
  /\ HasSlot
  /\ inHalfOpen' = inHalfOpen + 1
  /\ running' = running \union {c}
  /\ probes' = probes \union {c}
  /\ UNCHANGED <<state, failureCount, successCount, timer, probeSuccesses>>

BeforeCall(c) ==
  /\ c \notin running
  /\ \/ AdmitClosed(c)
     \/ AdmitAfterTimeout(c)
     \/ AdmitHalfOpen(c)

-----------------------------------------------------------------------------
(* afterCall: the result is recorded in the state found on arrival, which  *)
(* need not be the state that admitted the call.                           *)

\* A bug to catch: a success keeps the half-open slot of its call.
SlotKept == inHalfOpen

SlotReturned == inHalfOpen - 1

\* A bug to catch: a success forgives one failure instead of all of them.
FailureForgiven == failureCount - 1

FailuresCleared == 0

OnSuccess(c) ==
  /\ running' = running \ {c}
  /\ UNCHANGED timer
  /\ \/ /\ state = "closed"
        /\ failureCount' = FailuresCleared
        /\ UNCHANGED <<state, successCount, inHalfOpen, probes,
                       probeSuccesses>>
     \/ /\ state = "half_open"
        /\ failureCount' = 0
        /\ probeSuccesses' = probeSuccesses + (IF c \in probes THEN 1 ELSE 0)
        /\ IF successCount + 1 >= SuccessThreshold
           THEN /\ state' = "closed"
                /\ successCount' = 0
                /\ inHalfOpen' = 0
                /\ probes' = {}
           ELSE /\ successCount' = successCount + 1
                /\ inHalfOpen' = SlotReturned
                /\ probes' = probes \ {c}
                /\ UNCHANGED state
     \/ /\ state = "open"
        /\ failureCount' = 0
        /\ UNCHANGED <<state, successCount, inHalfOpen, probes,
                       probeSuccesses>>

OnFailure(c) ==
  /\ running' = running \ {c}
  /\ probes' = {}
  /\ UNCHANGED probeSuccesses
  /\ \/ /\ state = "closed"
        /\ failureCount' = failureCount + 1
        /\ successCount' = 0
        /\ IF failureCount + 1 >= FailureThreshold
           THEN state' = "open" /\ timer' = "running"
           ELSE UNCHANGED <<state, timer>>
        /\ UNCHANGED inHalfOpen
     \/ /\ state = "half_open"
        /\ state' = "open"
        /\ timer' = "running"
        /\ failureCount' = FailureThreshold
        /\ successCount' = 0
        /\ inHalfOpen' = 0
     \/ /\ state = "open"
        /\ failureCount' = failureCount + 1
        /\ UNCHANGED <<state, successCount, inHalfOpen, timer>>

AfterCall(c) ==
  /\ c \in running
  /\ OnSuccess(c) \/ OnFailure(c)

(* Reset: an operator forces the breaker closed, whatever is in flight.    *)
Reset ==
  /\ state' = "closed"
  /\ failureCount' = 0
  /\ successCount' = 0
  /\ inHalfOpen' = 0
  /\ probes' = {}
  /\ UNCHANGED <<timer, running, probeSuccesses>>

(* The clock reaches OpenedAt + Timeout.                                   *)
TimeoutPasses ==
  /\ state = "open"
  /\ timer = "running"
  /\ timer' = "elapsed"
  /\ UNCHANGED <<state, failureCount, successCount, inHalfOpen, running,
                 probes, probeSuccesses>>

Next ==
  \/ \E c \in Callers : BeforeCall(c) \/ AfterCall(c)
  \/ Reset
  \/ TimeoutPasses

Spec == Init /\ [][Next]_vars

-----------------------------------------------------------------------------
(* Fairness.  Operations return (the guarded HTTP client has timeouts),    *)
(* the clock advances, and somebody keeps calling; no single caller is     *)
(* promised admission.                                                     *)
Fairness ==
  /\ WF_vars(\E c \in Callers : BeforeCall(c))
  /\ \A c \in Callers : WF_vars(AfterCall(c))
  /\ WF_vars(TimeoutPasses)

FairSpec == Spec /\ Fairness

-----------------------------------------------------------------------------
(* What links the half-open counters of the code to the calls in flight.   *)
Accounting ==
  /\ probes \subseteq running
  /\ state # "half_open" => probes = {}
  /\ state = "half_open" =>
    /\ inHalfOpen <= HalfOpenRequests
    /\ successCount < SuccessThreshold
    /\ probeSuccesses <= successCount
    /\ inHalfOpen + successCount = Cardinality(probes) + probeSuccesses

(* A half-open slot is never held by nobody: beforeCall counts at most the *)
(* probes still running, whatever late results of older calls were counted *)
(* in between.  A leaked slot would make beforeCall reject for ever.       *)
NoLeakedSlot ==
  state = "half_open" => inHalfOpen <= Cardinality(probes)

(* The load a recovering service sees: late successes can free slots they  *)
(* never held, but at most SuccessThreshold - 1 of them before the breaker *)
(* closes.                                                                 *)
ProbeBound ==
  state = "half_open" =>
    Cardinality(probes) <= HalfOpenRequests + SuccessThreshold - 1

(* Once operations stop failing, the breaker closes again (and again,      *)
(* whatever resets do): it cannot stay open or half-open for ever.         *)
SomeFailure == \E c \in Callers : c \in running /\ OnFailure(c)
RecoversWhenHealthy ==
  <>[][~SomeFailure]_vars => []<>(state = "closed")

=============================================================================
