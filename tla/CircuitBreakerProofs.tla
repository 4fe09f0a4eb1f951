------------------------ MODULE CircuitBreakerProofs ------------------------
(***************************************************************************)
(* The half-open accounting of CircuitBreaker for every set of callers and *)
(* every configuration.                                                    *)
(***************************************************************************)
EXTENDS CircuitBreaker, FiniteSetTheorems, TLAPS

(* Types are preserved by every step of the breaker. *)
THEOREM TypeCorrect == Spec => []TypeOK
<1>1. Init => TypeOK
  BY DEF Init, TypeOK
<1>2. TypeOK /\ [Next]_vars => TypeOK'
  <2> SUFFICES ASSUME TypeOK, [Next]_vars PROVE TypeOK'
    OBVIOUS
  <2> USE DEF TypeOK
  <2>1. ASSUME NEW c \in Callers, BeforeCall(c) PROVE TypeOK'
    BY <2>1 DEF BeforeCall, AdmitClosed, AdmitAfterTimeout, AdmitHalfOpen
  <2>2. ASSUME NEW c \in Callers, c \in running, OnSuccess(c) PROVE TypeOK'
    BY <2>2 DEF OnSuccess, SlotReturned, FailuresCleared
  <2>3. ASSUME NEW c \in Callers, c \in running, OnFailure(c) PROVE TypeOK'
    BY <2>3, ConfigAssumption DEF OnFailure
  <2>4. CASE Reset
    BY <2>4 DEF Reset
  <2>5. CASE TimeoutPasses
    BY <2>5 DEF TimeoutPasses
  <2>6. CASE UNCHANGED vars
    BY <2>6 DEF vars
  <2> QED BY <2>1, <2>2, <2>3, <2>4, <2>5, <2>6 DEF Next, AfterCall
<1> QED BY <1>1, <1>2, PTL DEF Spec

(* Adding or removing one running call changes the number of probes by one *)
(* at most; every set of probes is finite because Callers is.              *)
LEMMA ProbeCount ==
  ASSUME TypeOK
  PROVE  /\ Cardinality(probes) \in Nat
         /\ \A c \in Callers \ probes :
              Cardinality(probes \union {c}) = Cardinality(probes) + 1
         /\ \A c \in probes :
              Cardinality(probes \ {c}) = Cardinality(probes) - 1
         /\ \A c : Cardinality({c}) = 1
<1>1. IsFiniteSet(probes)
  BY CallersAssumption, FS_Subset DEF TypeOK
<1>2. \A c \in Callers \ probes :
        Cardinality(probes \union {c}) = Cardinality(probes) + 1
  BY <1>1, FS_AddElement
<1>3. \A c \in probes : Cardinality(probes \ {c}) = Cardinality(probes) - 1
  BY <1>1, FS_RemoveElement
<1> QED BY <1>1, <1>2, <1>3, FS_CardinalityType, FS_Singleton

(* The accounting that links the counters of the code to the calls in      *)
(* flight is inductive: a late result moves one unit from inHalfOpen to    *)
(* successCount without touching the probes, so only the sum is constant.  *)
THEOREM AccountingInvariant == Spec => []Accounting
<1>1. Init => Accounting
  BY FS_EmptySet DEF Init, Accounting
<1>2. TypeOK /\ Accounting /\ [Next]_vars => Accounting'
  <2> SUFFICES ASSUME TypeOK, Accounting, [Next]_vars PROVE Accounting'
    OBVIOUS
  <2> USE ConfigAssumption DEF TypeOK
  <2>1. ASSUME NEW c \in Callers, c \notin running, AdmitClosed(c)
        PROVE  Accounting'
    BY <2>1 DEF AdmitClosed, Accounting
  <2>2. ASSUME NEW c \in Callers, c \notin running, AdmitAfterTimeout(c)
        PROVE  Accounting'
    <3>1. Cardinality({c}) = 1
      BY ProbeCount
    <3>2. Cardinality(probes') = 1
      BY <2>2, <3>1 DEF AdmitAfterTimeout
    <3> QED BY <2>2, <3>2 DEF AdmitAfterTimeout, Accounting
  <2>3. ASSUME NEW c \in Callers, c \notin running, AdmitHalfOpen(c)
        PROVE  Accounting'
    <3>1. c \in Callers \ probes
      BY <2>3 DEF Accounting
    <3>2. Cardinality(probes') = Cardinality(probes) + 1
      BY <2>3, <3>1, ProbeCount DEF AdmitHalfOpen
    <3> QED BY <2>3, <3>2, ProbeCount DEF AdmitHalfOpen, HasSlot, Accounting
  <2>4. ASSUME NEW c \in Callers, c \in running, OnSuccess(c)
        PROVE  Accounting'
    <3>1. CASE state # "half_open"
      BY <2>4, <3>1 DEF OnSuccess, FailuresCleared, Accounting
    <3>2. CASE state = "half_open" /\ c \in probes
      <4>1. Cardinality(probes \ {c}) = Cardinality(probes) - 1
        BY <3>2, ProbeCount
      <4> QED BY <2>4, <3>2, <4>1, ProbeCount
              DEF OnSuccess, SlotReturned, FailuresCleared, Accounting
    <3>3. CASE state = "half_open" /\ c \notin probes
      <4>1. probes \ {c} = probes
        BY <3>3
      <4> QED BY <2>4, <3>3, <4>1, ProbeCount
              DEF OnSuccess, SlotReturned, FailuresCleared, Accounting
    <3> QED BY <3>1, <3>2, <3>3
  <2>5. ASSUME NEW c \in Callers, c \in running, OnFailure(c)
        PROVE  Accounting'
    BY <2>5 DEF OnFailure, Accounting
  <2>6. CASE Reset
    BY <2>6 DEF Reset, Accounting
  <2>7. CASE TimeoutPasses
    BY <2>7 DEF TimeoutPasses, Accounting
  <2>8. CASE UNCHANGED vars
    BY <2>8 DEF vars, Accounting
  <2> QED BY <2>1, <2>2, <2>3, <2>4, <2>5, <2>6, <2>7, <2>8
          DEF Next, BeforeCall, AfterCall
<1> QED BY <1>1, <1>2, TypeCorrect, PTL DEF Spec

(* No half-open slot is ever held by nobody. *)
THEOREM SlotsNeverLeak == Spec => []NoLeakedSlot
<1>1. TypeOK /\ Accounting => NoLeakedSlot
  BY ProbeCount DEF TypeOK, Accounting, NoLeakedSlot
<1> QED BY <1>1, TypeCorrect, AccountingInvariant, PTL

(* At most HalfOpenRequests + SuccessThreshold - 1 calls probe at once. *)
THEOREM ProbesBounded == Spec => []ProbeBound
<1>1. TypeOK /\ Accounting => ProbeBound
  BY ConfigAssumption, ProbeCount DEF TypeOK, Accounting, ProbeBound
<1> QED BY <1>1, TypeCorrect, AccountingInvariant, PTL
=============================================================================
