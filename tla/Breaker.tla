------------------------------ MODULE Breaker ------------------------------
(***************************************************************************)
(* The circuit breaker (internal/infra/oracle/breaker.go) and the          *)
(* resilient client that drives it (client.go): each Fetch asks Allow,     *)
(* makes up to MaxRetries + 1 attempts and reports Success or Failure      *)
(* once.  The breaker's methods are atomic, a Fetch is not: those of       *)
(* several callers overlap.  In the program the only caller is the poller. *)
(*                                                                         *)
(* cooling is the part of the cooldown that has not elapsed since openedAt *)
(* on the monotonic clock; the upstream goes up and down as it likes.      *)
(***************************************************************************)
EXTENDS Naturals

CONSTANTS
  Callers,     \* goroutines that call Fetch
  Threshold,   \* failed fetches that trip the breaker; 0 disables it
  Cooldown,    \* how long it stays open
  MaxRetries,  \* extra attempts of a fetch
  MaxFailures  \* where the model stops counting

ASSUME BreakerAssumption ==
  /\ Threshold \in Nat /\ Cooldown \in Nat \ {0} /\ MaxRetries \in Nat
  /\ MaxFailures \in Nat /\ Threshold <= MaxFailures

VARIABLES
  state,       \* of the breaker
  failures,    \* consecutive failed fetches it has counted
  cooling,     \* cooldown left
  pc,          \* how far each caller's Fetch has come
  attempt,     \* the attempt it is making
  up           \* does the upstream answer?

bvars == <<state, failures, cooling, pc, attempt, up>>

breaker == <<state, failures, cooling>>

BreakerTypeOK ==
  /\ state \in {"closed", "open", "half-open"}
  /\ failures \in 0 .. MaxFailures
  /\ cooling \in 0 .. Cooldown
  /\ pc \in [Callers -> {"idle", "attempt", "backoff"}]
  /\ attempt \in [Callers -> 0 .. MaxRetries]
  /\ up \in BOOLEAN

Init ==
  /\ state = "closed" /\ failures = 0 /\ cooling = 0
  /\ pc = [c \in Callers |-> "idle"]
  /\ attempt = [c \in Callers |-> 0]
  /\ up \in BOOLEAN
-----------------------------------------------------------------------------
Goes(c, from, to) == pc[c] = from /\ pc' = [pc EXCEPT ![c] = to]

(* Fault: the cooldown is not waited for. *)
AllowAtOnce ==
  /\ state' = IF state = "open" THEN "half-open" ELSE state
  /\ UNCHANGED <<failures, cooling>>

(* Allow: refused while the breaker is open and cooling. *)
Allow ==
  /\ state = "open" => cooling = 0
  /\ state' = IF state = "open" THEN "half-open" ELSE state
  /\ UNCHANGED <<failures, cooling>>

(* Fault: the counter is kept. *)
SuccessKeepsCount ==
  /\ state' = "closed"
  /\ UNCHANGED <<failures, cooling>>

(* Fault: a success after the cooldown does not close the breaker. *)
SuccessStaysHalfOpen ==
  /\ failures' = 0
  /\ UNCHANGED <<state, cooling>>

Success ==
  /\ state' = "closed" /\ failures' = 0
  /\ UNCHANGED cooling

Opened == state' = "open" /\ cooling' = Cooldown

(* The count is only compared with Threshold, so a bound above it loses    *)
(* nothing.                                                                *)
Counted == IF failures < MaxFailures THEN failures + 1 ELSE failures

(* Fault: a failed trial counts as any other failure. *)
FailureAlwaysCounts ==
  /\ failures' = Counted
  /\ IF failures' = Threshold THEN Opened ELSE UNCHANGED <<state, cooling>>

(* Failure: a failed trial opens the breaker again without being counted. *)
Failure ==
  IF state = "half-open"
  THEN Opened /\ UNCHANGED failures
  ELSE /\ failures' = Counted
       /\ IF Threshold > 0 /\ failures' >= Threshold
          THEN Opened
          ELSE UNCHANGED <<state, cooling>>
-----------------------------------------------------------------------------
(* A refused Fetch returns ErrCircuitOpen and changes nothing. *)
Begin(c) ==
  /\ Goes(c, "idle", "attempt")
  /\ Allow
  /\ attempt' = [attempt EXCEPT ![c] = 0]
  /\ UNCHANGED up

AttemptSucceeds(c) ==
  /\ up
  /\ Goes(c, "attempt", "idle")
  /\ Success
  /\ UNCHANGED <<attempt, up>>

(* An attempt fails or times out. *)
AttemptFails(c) ==
  /\ ~up
  /\ \/ /\ attempt[c] < MaxRetries
        /\ Goes(c, "attempt", "backoff")
        /\ UNCHANGED breaker
     \/ /\ attempt[c] = MaxRetries
        /\ Goes(c, "attempt", "idle")
        /\ Failure
  /\ UNCHANGED <<attempt, up>>

Retry(c) ==
  /\ Goes(c, "backoff", "attempt")
  /\ attempt' = [attempt EXCEPT ![c] = @ + 1]
  /\ UNCHANGED <<breaker, up>>

(* The caller's context ends during the backoff. *)
GiveUp(c) ==
  /\ Goes(c, "backoff", "idle")
  /\ Failure
  /\ UNCHANGED <<attempt, up>>

Fetch(c) == AttemptSucceeds(c) \/ AttemptFails(c) \/ Retry(c)

Cool ==
  /\ cooling > 0
  /\ cooling' = cooling - 1
  /\ UNCHANGED <<state, failures, pc, attempt, up>>

Flip ==
  /\ up' = ~up
  /\ UNCHANGED <<breaker, pc, attempt>>

Next ==
  \/ \E c \in Callers : Begin(c) \/ Fetch(c) \/ GiveUp(c)
  \/ Cool
  \/ Flip

(* The poller's ticker starts fetch after fetch, an attempt ends by its    *)
(* timeout, and time passes.                                               *)
Spec ==
  /\ Init /\ [][Next]_bvars
  /\ \A c \in Callers : WF_bvars(Begin(c)) /\ WF_bvars(Fetch(c))
  /\ WF_bvars(Cool)
-----------------------------------------------------------------------------
(* The breaker is closed exactly while its count is below the threshold,   *)
(* whatever the order in which overlapping fetches report: it neither      *)
(* trips early nor forgets to, and a failed trial cannot close it.         *)
TripsAtThreshold ==
  Threshold > 0 => (state = "closed" <=> failures < Threshold)

(* A fetch that starts after an outage has tripped the breaker starts when *)
(* the cooldown since the last failure is over.                            *)
NoCallWhileCooling ==
  [][\A c \in Callers : pc[c] = "idle" /\ pc'[c] # "idle" =>
       failures < Threshold \/ Threshold = 0 \/ cooling = 0]_bvars

(* The breaker is not stuck half-open, nor open: every trial is reported,  *)
(* and once the upstream stays up the breaker closes for good.             *)
TrialEnds == state = "half-open" ~> state # "half-open"

RecoversAfterOutage == <>[]up => <>[](state = "closed" \/ Threshold = 0)
=============================================================================
