------------------------------ MODULE Wallets ------------------------------
(***************************************************************************)
(* The wallets table and its ledger (internal/service/wallet.go).  Every   *)
(* movement is an operator from the table to the table it commits, next to *)
(* the condition under which the service performs it, so that a larger     *)
(* transaction composes movements exactly as the *Tx methods do.           *)
(*                                                                         *)
(* wallets.total[g], wallets.reserved[g]: columns total_balance and        *)
(* reserved_amount of guild g's row.  wallets.ledger[g][k]: the sum of the *)
(* amounts of g's wallet_transactions rows of kind k, a kind being the     *)
(* row's type together with its ref_type.                                  *)
(***************************************************************************)
EXTENDS Rules

CONSTANTS
  Guilds,      \* guilds that own a wallet
  InitTotal    \* their balances when the market opens

ASSUME GuildsAssumption ==
  /\ Guilds # {}
  /\ InitTotal \in [Guilds -> Nat]

VARIABLE wallets

LedgerKinds == {"reserve_bid", "release_bid", "debit_auction", "credit_auction",
                "debit_listing", "credit_listing"}

WalletsType == [total    : [Guilds -> Int],
                reserved : [Guilds -> Int],
                ledger   : [Guilds -> [LedgerKinds -> Nat]]]

WalletsInit ==
  wallets = [total    |-> InitTotal,
             reserved |-> [g \in Guilds |-> 0],
             ledger   |-> [g \in Guilds |-> [k \in LedgerKinds |-> 0]]]

(* Every movement appends one ledger row in the same transaction. *)
Recorded(w, g, kind, amount) ==
  [w.ledger EXCEPT ![g] = [w.ledger[g] EXCEPT ![kind] = w.ledger[g][kind] + amount]]

CanReserve(w, g, amount) == EnsureCanReserve(w.total[g], w.reserved[g], amount)

(* Fault: the money is taken at once. *)
ReserveDebits(w, g, amount, kind) ==
  [total    |-> [w.total EXCEPT ![g] = Wrap(@ - amount)],
   reserved |-> [w.reserved EXCEPT ![g] = Wrap(@ + amount)],
   ledger   |-> Recorded(w, g, kind, amount)]

Reserve(w, g, amount, kind) ==
  [total    |-> w.total,
   reserved |-> [w.reserved EXCEPT ![g] = Wrap(@ + amount)],
   ledger   |-> Recorded(w, g, kind, amount)]

CanRelease(w, g, amount) == EnsureCanRelease(w.reserved[g], amount)

(* Fault: the ledger row is forgotten. *)
ReleaseUnrecorded(w, g, amount, kind) ==
  [total    |-> w.total,
   reserved |-> [w.reserved EXCEPT ![g] = Wrap(@ - amount)],
   ledger   |-> w.ledger]

(* Fault: the reservation is kept. *)
ReleaseNothing(w, g, amount, kind) ==
  [total    |-> w.total,
   reserved |-> w.reserved,
   ledger   |-> Recorded(w, g, kind, amount)]

Release(w, g, amount, kind) ==
  [total    |-> w.total,
   reserved |-> [w.reserved EXCEPT ![g] = Wrap(@ - amount)],
   ledger   |-> Recorded(w, g, kind, amount)]

CanDebit(w, g, amount) ==
  EnsureSufficientAvailable(w.total[g], w.reserved[g], amount)

Debit(w, g, amount, kind) ==
  [total    |-> [w.total EXCEPT ![g] = Wrap(@ - amount)],
   reserved |-> w.reserved,
   ledger   |-> Recorded(w, g, kind, amount)]

CanCredit(amount) == EnsurePositive(amount)

(* Fault: the seller is never paid. *)
CreditNothing(w, g, amount, kind) ==
  [total    |-> w.total,
   reserved |-> w.reserved,
   ledger   |-> Recorded(w, g, kind, amount)]

Credit(w, g, amount, kind) ==
  [total    |-> [w.total EXCEPT ![g] = Wrap(@ + amount)],
   reserved |-> w.reserved,
   ledger   |-> Recorded(w, g, kind, amount)]

CanSettleReserved(w, g, amount) == EnsureCanRelease(w.reserved[g], amount)

(* Fault: the reservation is given back instead of spent. *)
SettleReservedReleases(w, g, amount, kind) ==
  [total    |-> w.total,
   reserved |-> [w.reserved EXCEPT ![g] = Wrap(@ - amount)],
   ledger   |-> Recorded(w, g, kind, amount)]

(* A prior reservation becomes a spend. *)
SettleReserved(w, g, amount, kind) ==
  [total    |-> [w.total EXCEPT ![g] = Wrap(@ - amount)],
   reserved |-> [w.reserved EXCEPT ![g] = Wrap(@ - amount)],
   ledger   |-> Recorded(w, g, kind, amount)]
=============================================================================
