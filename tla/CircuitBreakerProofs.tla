------------------------- MODULE CircuitBreakerProofs -------------------------
(***************************************************************************)
(* The circuit breaker's safety, for any number of callers and any         *)
(* threshold.                                                              *)
(***************************************************************************)
EXTENDS CircuitBreaker, TLAPS

\* A circuit that is not closed was tripped, and has the time of that failure.
TrippedHasTime == state # "Closed" => last # "none"

\* Closing restarts one count and not the other.
CountCovers == since <= failures

\* The safety properties are inductive with the types.
Inv == TypeOK /\ FailuresTrip /\ TrippedHasTime /\ CountCovers

LEMMA CallStepInv ==
  ASSUME Inv, NEW c \in Caller, CallStep(c)
  PROVE  Inv'
<1> USE DEF Inv, TrippedHasTime, CountCovers
<1>0. Threshold \in Nat \ {0}
  BY CircuitBreakerAssumption
<1>1. CASE Begin(c)
  <2>1. TypeOK'
    BY <1>1 DEF Begin, TypeOK
  <2>2. failures' = failures /\ since' = since /\ last' = last
    BY <1>1 DEF Begin
  <2>3. \A d \in Caller : call'[d] # "failed" => call[d] # "failed"
    BY <1>1 DEF Begin, TypeOK
  <2>4. state' = "Closed" => state = "Closed"
    BY <1>1 DEF Begin
  <2> QED
    BY <1>1, <2>1, <2>2, <2>3, <2>4 DEF FailuresTrip, Begin
<1>2. CASE Reject(c)
  BY <1>2 DEF Reject, vars, TypeOK, FailuresTrip
<1>3. CASE Succeed(c)
  <2>1. TypeOK'
    BY <1>0, <1>3 DEF Succeed, TypeOK
  <2>2. since' = 0 /\ failures' = 0 /\ since' # Threshold
    BY <1>0, <1>3 DEF Succeed
  <2> QED
    BY <1>3, <2>1, <2>2 DEF FailuresTrip, Succeed
<1>4. CASE Close(c)
  <2>1. TypeOK'
    BY <1>0, <1>4 DEF Close, TypeOK
  <2>2. since' = 0 /\ since' # Threshold /\ failures' = failures
    BY <1>0, <1>4 DEF Close
  <2>3. CountCovers'
    BY <2>2 DEF TypeOK
  <2> QED
    BY <1>4, <2>1, <2>2, <2>3 DEF FailuresTrip, Close
<1>5. CASE Fail(c)
  <2>1. TypeOK'
    BY <1>0, <1>5 DEF Fail, Counted, TypeOK
  <2>2. since' = Threshold => call'[c] = "failed"
    BY <1>0, <1>5 DEF Fail, Counted, Reached, TypeOK
  <2>3. CountCovers'
    BY <1>0, <1>5 DEF Fail, Counted, TypeOK
  <2> QED
    BY <1>5, <2>1, <2>2, <2>3 DEF FailuresTrip, Fail
<1>6. CASE Trip(c)
  <2>1. TypeOK'
    BY <1>6 DEF Trip, TypeOK
  <2> QED
    BY <1>6, <2>1 DEF FailuresTrip, Trip
<1> QED
  BY <1>1, <1>2, <1>3, <1>4, <1>5, <1>6 DEF CallStep

(***************************************************************************)
(* No step of a caller, of the clock or of the service breaks the          *)
(* inductive invariant.                                                    *)
(***************************************************************************)
THEOREM BreakerInvariant == Spec => []Inv
<1>1. Init => Inv
  <2> SUFFICES ASSUME Init PROVE Inv
    OBVIOUS
  <2>1. failures \in 0 .. Threshold /\ since = 0 /\ since \in 0 .. Threshold /\ since # Threshold /\ since <= failures /\ outages \in 0 .. MaxOutages
    BY CircuitBreakerAssumption DEF Init
  <2>2. up \in BOOLEAN /\ state = "Closed" /\ last = "none"
    BY DEF Init
  <2>3. call \in [Caller -> {"idle", "calling", "probing", "succeeded", "failed"}]
    BY DEF Init
  <2> QED
    BY <2>1, <2>2, <2>3 DEF Inv, TypeOK, FailuresTrip, TrippedHasTime, CountCovers
<1>2. ASSUME Inv, [Next]_vars
      PROVE  Inv'
  <2>1. CASE \E c \in Caller : CallStep(c)
    BY <1>2, <2>1, CallStepInv
  <2>2. CASE ResetTimeout
    BY <1>2, <2>2 DEF ResetTimeout, Inv, TypeOK, FailuresTrip, TrippedHasTime, CountCovers
  <2>3. CASE GoDown
    <3>1. outages' \in 0 .. MaxOutages
      BY <1>2, <2>3, CircuitBreakerAssumption, SMT DEF GoDown, Inv, TypeOK
    <3>2. up' \in BOOLEAN
      BY <2>3 DEF GoDown
    <3> QED
      BY <1>2, <2>3, <3>1, <3>2 DEF GoDown, Inv, TypeOK, FailuresTrip, TrippedHasTime, CountCovers
  <2>4. CASE GoUp
    BY <1>2, <2>4 DEF GoUp, Inv, TypeOK, FailuresTrip, TrippedHasTime, CountCovers
  <2>5. CASE UNCHANGED vars
    BY <1>2, <2>5 DEF vars, Inv, TypeOK, FailuresTrip, TrippedHasTime, CountCovers
  <2> QED
    BY <1>2, <2>1, <2>2, <2>3, <2>4, <2>5 DEF Next
<1> QED
  BY <1>1, <1>2, PTL DEF Spec

(***************************************************************************)
(* Every reachable state of the breaker is type correct; the counter is at *)
(* most the threshold.                                                     *)
(***************************************************************************)
THEOREM TypeCorrect == Spec => []TypeOK
<1>1. Inv => TypeOK
  BY DEF Inv
<1> QED
  BY <1>1, BreakerInvariant, PTL

(***************************************************************************)
(* Enough failures trip the circuit, in every interleaving of the counter  *)
(* and the lock of `call', a late success among them: Threshold failures   *)
(* since a success was counted and since the circuit was last closed leave *)
(* it not closed once their calls have taken the lock.                     *)
(***************************************************************************)
THEOREM FailuresTripHolds == Spec => []FailuresTrip
<1>1. Inv => FailuresTrip
  BY DEF Inv
<1> QED
  BY <1>1, BreakerInvariant, PTL

(***************************************************************************)
(* A circuit that is Open or HalfOpen has a last_failure_at: the branch of *)
(* `call' that rejects is left again once reset_timeout has elapsed.       *)
(***************************************************************************)
THEOREM TrippedHasTimeHolds == Spec => []TrippedHasTime
<1>1. Inv => TrippedHasTime
  BY DEF Inv
<1> QED
  BY <1>1, BreakerInvariant, PTL
=============================================================================
