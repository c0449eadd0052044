------------------------------- MODULE Rules -------------------------------
(***************************************************************************)
(* The business rules of internal/service/rules.go: pure functions over    *)
(* int64 amounts and times, each written as the condition under which the  *)
(* Go function returns nil (or as the value it returns).                   *)
(*                                                                         *)
(* An int64 is an integer in -Half .. Half-1 and Go's + and * wrap.  Half  *)
(* is 2^63 in the program; TLC runs use smaller widths.                    *)
(*                                                                         *)
(* Here and in the other modules a definition whose comment begins with    *)
(* "Fault:" is a wrong variant of the one after it.  No specification uses *)
(* it; it serves to show which property would notice the fault.            *)
(***************************************************************************)
EXTENDS Integers

CONSTANT Half

ASSUME HalfAssumption == Half \in Nat \ {0}

(* Two's complement wrap-around of an exact result. *)
Wrap(x) ==
  IF x \in -Half .. Half - 1 THEN x ELSE ((x + Half) % (2 * Half)) - Half

(* Go's integer division truncates toward zero. *)
Quotient(n, d) == IF n >= 0 THEN n \div d ELSE -((-n) \div d)

BidIncrementPercent == 5

(* Fault: the reserve is not taken off. *)
AvailableIsTotal(total, reserved) == total

AvailableBalance(total, reserved) == Wrap(total - reserved)

EnsurePositive(amount) == amount > 0

EnsureSufficientAvailable(total, reserved, amount) ==
  /\ EnsurePositive(amount)
  /\ AvailableBalance(total, reserved) >= amount

EnsureCanReserve(total, reserved, amount) ==
  EnsureSufficientAvailable(total, reserved, amount)

EnsureCanRelease(reserved, amount) ==
  /\ EnsurePositive(amount)
  /\ reserved >= amount

EnsureNotSelfBid(owner, bidder) == owner # bidder

(* Fault: 5% rounded down. *)
MinNextBidTruncated(current) ==
  Quotient(Wrap(current * (100 + BidIncrementPercent)), 100)

(* current + 5%, rounded up; 0 stands for "no bid yet". *)
MinNextBid(current) ==
  Quotient(Wrap(Wrap(current * (100 + BidIncrementPercent)) + 99), 100)

(* Fault: a bid is not compared with the leader's. *)
AnyPositiveBid(current, amount) == EnsurePositive(amount)

EnsureBidBeatsCurrent(current, amount) ==
  /\ EnsurePositive(amount)
  /\ amount >= MinNextBid(current)

(* Fault: the leader may cancel. *)
AnyBidCancels(isHighest) == TRUE

EnsureCanCancelBid(isHighest) == ~isHighest

(* A cap of 0 means unlimited. *)
EnsureWithinDailyCap(cap, spent, amount) ==
  \/ cap = 0
  \/ Wrap(spent + amount) <= cap

(* Fault: the extension is added to the old end. *)
MaybeExtendTwice(now, endsAt, threshold, extension) ==
  IF endsAt - now <= threshold THEN endsAt + extension ELSE endsAt

(* The (possibly later) end of an auction that takes a bid at time now. *)
MaybeExtend(now, endsAt, threshold, extension) ==
  IF endsAt - now <= threshold /\ now + extension > endsAt
  THEN now + extension
  ELSE endsAt

AuctionEnded(now, endsAt) == now >= endsAt
=============================================================================
