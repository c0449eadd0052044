-------------------------- MODULE BreakerTheorems --------------------------
(***************************************************************************)
(* What module Breaker's runs check on an instance, proved for any number  *)
(* of overlapping callers, any threshold, cooldown and number of retries.  *)
(***************************************************************************)
EXTENDS Breaker, TLAPS

(* A fetch backs off only while an attempt is left. *)
BacksOffWithinBudget ==
  \A c \in Callers : pc[c] = "backoff" => attempt[c] < MaxRetries

(* A trial starts when the cooldown is over, and nothing but the end of    *)
(* the trial sets a new one.                                               *)
TrialIsCool == state = "half-open" => cooling = 0

BreakerInv ==
  /\ BreakerTypeOK
  /\ BacksOffWithinBudget
  /\ TrialIsCool
  /\ TripsAtThreshold

USE DEF breaker

-----------------------------------------------------------------------------
(* The three methods keep the breaker's part of the invariant.             *)
StateInv ==
  /\ state \in {"closed", "open", "half-open"}
  /\ failures \in 0 .. MaxFailures
  /\ cooling \in 0 .. Cooldown
  /\ TrialIsCool
  /\ TripsAtThreshold

(* Allow moves an open breaker to half-open only when it has cooled.       *)
LEMMA AllowKeeps == StateInv /\ Allow => StateInv'
  BY BreakerAssumption, SMTT(30)
     DEF StateInv, Allow, TrialIsCool, TripsAtThreshold

(* Success closes the breaker and clears the count together.               *)
LEMMA SuccessKeeps == StateInv /\ Success => StateInv'
  BY BreakerAssumption, SMTT(30)
     DEF StateInv, Success, TrialIsCool, TripsAtThreshold

(* Failure opens the breaker in the step that reaches the threshold, and   *)
(* a failed trial opens it at a count that is there already.               *)
LEMMA FailureKeeps == StateInv /\ Failure => StateInv'
<1> SUFFICES ASSUME StateInv, Failure PROVE StateInv'
  OBVIOUS
<1> USE BreakerAssumption DEF Opened
<1>1. CASE state = "half-open"
  BY <1>1, SMTT(30) DEF StateInv, Failure, TrialIsCool, TripsAtThreshold
<1>2. CASE state # "half-open"
  <2>1. /\ failures' = Counted
        /\ IF Threshold > 0 /\ failures' >= Threshold
           THEN Opened ELSE UNCHANGED <<state, cooling>>
    BY <1>2 DEF Failure
  <2>2. Counted \in 0 .. MaxFailures /\ Counted >= failures
    BY DEF StateInv, Counted
  <2> QED
    BY <1>2, <2>1, <2>2, SMTT(30)
       DEF StateInv, Counted, TrialIsCool, TripsAtThreshold
<1> QED
  BY <1>1, <1>2

-----------------------------------------------------------------------------
LEMMA BreakerInit == Init => BreakerInv
  BY BreakerAssumption, SMTT(30)
     DEF Init, BreakerInv, BreakerTypeOK, BacksOffWithinBudget, TrialIsCool,
         TripsAtThreshold

(* A step of one fetch leaves the other fetches alone.                     *)
LEMMA BreakerStep == BreakerInv /\ [Next]_bvars => BreakerInv'
<1> SUFFICES ASSUME BreakerInv, [Next]_bvars PROVE BreakerInv'
  OBVIOUS
<1> USE BreakerAssumption
<1>0. StateInv
  BY DEF BreakerInv, BreakerTypeOK, StateInv
<1> DEFINE Rest ==
      /\ pc \in [Callers -> {"idle", "attempt", "backoff"}]
      /\ attempt \in [Callers -> 0 .. MaxRetries]
      /\ up \in BOOLEAN
      /\ BacksOffWithinBudget
<1>1. Rest
  BY DEF BreakerInv, BreakerTypeOK
<1>2. ASSUME StateInv', Rest' PROVE BreakerInv'
  BY <1>2 DEF BreakerInv, BreakerTypeOK, StateInv
<1>3. ASSUME UNCHANGED breaker PROVE StateInv'
  BY <1>0, <1>3 DEF StateInv, TrialIsCool, TripsAtThreshold
<1>4. ASSUME NEW c \in Callers, Begin(c) PROVE BreakerInv'
  <2>1. StateInv'
    BY <1>0, <1>4, AllowKeeps DEF Begin
  <2>2. Rest'
    BY <1>1, <1>4 DEF Begin, Goes, BacksOffWithinBudget
  <2> QED BY <1>2, <2>1, <2>2
<1>5. ASSUME NEW c \in Callers, AttemptSucceeds(c) PROVE BreakerInv'
  <2>1. StateInv'
    BY <1>0, <1>5, SuccessKeeps DEF AttemptSucceeds
  <2>2. Rest'
    BY <1>1, <1>5 DEF AttemptSucceeds, Goes, BacksOffWithinBudget
  <2> QED BY <1>2, <2>1, <2>2
<1>6. ASSUME NEW c \in Callers, AttemptFails(c) PROVE BreakerInv'
  <2>1. StateInv'
    BY <1>0, <1>3, <1>6, FailureKeeps DEF AttemptFails
  <2>2. Rest'
    BY <1>1, <1>6 DEF AttemptFails, Goes, BacksOffWithinBudget
  <2> QED BY <1>2, <2>1, <2>2
<1>7. ASSUME NEW c \in Callers, Retry(c) PROVE BreakerInv'
  <2>1. StateInv'
    BY <1>3, <1>7 DEF Retry
  <2>2. Rest'
    BY <1>1, <1>7 DEF Retry, Goes, BacksOffWithinBudget
  <2> QED BY <1>2, <2>1, <2>2
<1>8. ASSUME NEW c \in Callers, GiveUp(c) PROVE BreakerInv'
  <2>1. StateInv'
    BY <1>0, <1>8, FailureKeeps DEF GiveUp
  <2>2. Rest'
    BY <1>1, <1>8 DEF GiveUp, Goes, BacksOffWithinBudget
  <2> QED BY <1>2, <2>1, <2>2
<1>9. CASE Cool
  <2>1. StateInv'
    BY <1>0, <1>9 DEF Cool, StateInv, TrialIsCool, TripsAtThreshold
  <2>2. Rest'
    BY <1>1, <1>9 DEF Cool, BacksOffWithinBudget
  <2> QED BY <1>2, <2>1, <2>2
<1>10. CASE Flip
  <2>1. StateInv'
    BY <1>3, <1>10 DEF Flip
  <2>2. Rest'
    BY <1>1, <1>10 DEF Flip, BacksOffWithinBudget
  <2> QED BY <1>2, <2>1, <2>2
<1>11. CASE UNCHANGED bvars
  <2>1. StateInv'
    BY <1>3, <1>11 DEF bvars
  <2>2. Rest'
    BY <1>1, <1>11 DEF bvars, BacksOffWithinBudget
  <2> QED BY <1>2, <2>1, <2>2
<1> QED
  BY <1>4, <1>5, <1>6, <1>7, <1>8, <1>9, <1>10, <1>11 DEF Next, Fetch

(* The inductive invariant of the breaker and its callers: types, the      *)
(* retry budget, a trial only after the cooldown, the threshold.           *)
THEOREM BreakerInvariant == Spec => []BreakerInv
  BY BreakerInit, BreakerStep, PTL DEF Spec

(* breaker.go Success and Failure: the breaker is closed exactly while its *)
(* count is below the threshold, in whatever order fetches report.         *)
THEOREM AlwaysTripsAtThreshold == Spec => []TripsAtThreshold
<1>1. BreakerInv => TripsAtThreshold
  BY DEF BreakerInv
<1> QED
  BY <1>1, BreakerInvariant, PTL

(* breaker.go Allow: after an outage tripped the breaker no fetch starts   *)
(* before the cooldown since the last failure is over.                     *)
THEOREM NeverCallsWhileCooling == Spec => NoCallWhileCooling
<1> DEFINE Starts(c) == pc[c] = "idle" /\ pc'[c] # "idle"
           Free == failures < Threshold \/ Threshold = 0 \/ cooling = 0
<1>1. ASSUME BreakerInv, [Next]_bvars, NEW c \in Callers, Starts(c)
      PROVE  Free
  <2>1. \A d \in Callers :
          Goes(d, "attempt", "idle") \/ Goes(d, "attempt", "backoff")
          \/ Goes(d, "backoff", "attempt") \/ Goes(d, "backoff", "idle")
          => pc'[c] = pc[c]
    BY <1>1 DEF Goes, BreakerInv, BreakerTypeOK
  <2>2. \E d \in Callers : Begin(d)
    BY <1>1, <2>1
       DEF Next, Fetch, AttemptSucceeds, AttemptFails, Retry, GiveUp, Cool,
           Flip, bvars
  <2>3. state = "open" => cooling = 0
    BY <2>2 DEF Begin, Allow
  <2> QED
    BY <1>1, <2>3, BreakerAssumption
       DEF BreakerInv, BreakerTypeOK, TrialIsCool, TripsAtThreshold
<1>2. BreakerInv /\ [Next]_bvars
        => [\A c \in Callers : Starts(c) => Free]_bvars
  BY <1>1
<1> QED
  BY <1>2, BreakerInvariant, PTL DEF Spec, NoCallWhileCooling
=============================================================================
