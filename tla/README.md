# Market Dragon in TLA+

A verification project for the Market Dragon backend: TLA+ modules translated
from its Go code, TLC configurations that model-check them on small instances,
and theorems about them that the TLA+ proof system checks for every instance.
Source paths below are relative to the repository root.

Market Dragon is a marketplace for game guilds. Common and rare items are sold
at fixed prices, legendary items only by auction. All state is in PostgreSQL;
the Go process keeps an in-memory cache of oracle prices and a circuit breaker
besides. Every operation that changes state is one READ COMMITTED transaction
that locks the rows it reads with `SELECT ... FOR UPDATE` and saves them whole.

## 1. Inventory

| Component | Source | State | Operations | Correct when |
|---|---|---|---|---|
| Business rules | `internal/service/rules.go` | none | balance, bid, cap and time rules over int64 | each rule means what it says at every width and boundary |
| Wallets and ledger | `internal/service/wallet.go` | `wallets`, `wallet_transactions` | reserve, release, debit, credit, settle reserved | no over-commitment, money conserved, ledger explains balances |
| Auctions | `internal/service/auction.go` | `auctions`, `bids`, item owner and status | create, bid, cancel, settle, settle due | one open auction an item; every reservation returned or spent once; highest bid wins; an item moves only against payment |
| Settlement worker | `internal/worker/settlement.go` | ticker | rounds of `SettleDue` | every ended auction is settled, once, never early |
| Items | `internal/service/item.go` | `items` | register | legendary rules |
| Listings | `internal/service/listing.go` | `listings`, `daily_purchase_totals` | list, buy, buy by item | no oversold stock, cap kept, unit and money move together |
| Seed | `internal/model/seed.go` | items, guilds, wallets | insert if absent | harmless when repeated, leaves the tables usable |
| Idempotency middleware | `internal/api/middleware/idempotency.go` | `idempotency_keys` | claim, replay, release, store | one effect per key; replay only what happened |
| Oracle client, breaker | `internal/infra/oracle/{client,breaker}.go` | breaker state, retry loop | Allow, Success, Failure, Fetch | trips at the threshold, honours the cooldown, recovers |
| Price feed and poller | `internal/service/oracle.go`, `internal/worker/oracle.go` | cache, `oracle_prices` | Refresh, LoadLastKnownGood | last good price retained, no jump beyond the ratio |
| HTTP router, handlers, DTOs | `internal/api` | none | decode, call services, map errors to a status, show rows | every answer is a documented one and fits what the market was at some time |
| Start and shutdown | `cmd/marketd/serve.go`, `internal/api/server.go` | listener, signal context | boot, serve, drain, exit | a request that an exit cuts off does no harm |
| Configuration, migrations, logging, mock source, report tool, API docs | `internal/config`, `migrations`, `internal/infra`, `tools`, `docs` | none | one-off I/O | not modelled |

How they interact. Handlers (inside the idempotency middleware) and the
settlement worker call the services from many goroutines, and several server
processes may share one database; the services meet only in the database, so
the interactions are row locks, rows read before a lock was taken, and commits.
The auction and listing services call the wallet service's `*Tx` methods inside
their own transactions. The poller calls the price feed, which calls the
resilient client, which asks the breaker.

What is hard. Reservations that live across operations of several guilds;
ids and rows read before a lock (`SettleDue`, `PlaceBidOnItem`, `BuyByItem`);
wallet locks in the order of roles rather than ids, hence deadlocks; several
clock readings in one transaction; int64 wrap-around in two rules; statements of
the middleware that fail, or whose request is cancelled, between claim and
store; restarts between the insert of a price and its caching; drains that time
out; answers put together from several statements. The full list is
`hazards` in PROJECT.json, each at its line with the properties that cover it.

## 2. Modules

| Module | Role |
|---|---|
| `Rules` | the functions of rules.go as operators |
| `Wallets` | EXTENDS Rules: the wallets table, one operator a movement, next to its guard |
| `AuctionHouse` | EXTENDS Wallets: the auction operations as committed transactions; also the abstract specification of `AuctionTx` |
| `RowLocks` | PostgreSQL row locks with queues and deadlock detection (external, modelled from its use) |
| `AuctionTx` | EXTENDS AuctionHouse, INSTANCEs RowLocks: the same operations statement by statement in concurrent sessions, with the settlement worker |
| `Listings` | EXTENDS Wallets: items, seed and fixed-price sales as committed transactions |
| `WalletCopies` | EXTENDS Wallets: the wallet rows a transaction has read and not committed |
| `BuyTx` | EXTENDS Listings and WalletCopies, INSTANCEs RowLocks: purchases statement by statement; Listings is its abstract specification |
| `Market` | EXTENDS AuctionHouse, INSTANCEs Listings: both flows over one wallets table and clock |
| `Api` | EXTENDS Market: the HTTP calls of clients, statement by statement, among everyone else's operations |
| `Idempotency` | the middleware around a handler |
| `Server` | EXTENDS Idempotency: the processes that serve the requests, from boot to exit |
| `Breaker` | circuit breaker and the Fetch loop of its callers |
| `OracleFeed` | the price feed of one server, with restarts |
| `WalletTheorems` | exactness of the rules and movements within the width; lemmas on the sum of a function over a finite set |
| `AuctionHouseTheorems` | invariants and action properties of AuctionHouse, proved |
| `AuctionTxTheorems` | the proof that AuctionTx implements AuctionHouse, and that nothing it works on is stale |
| `ListingsTheorems` | the same of Listings, and the proof that BuyTx implements it |
| `MarketTheorems` | the invariants of Market and Api, proved |
| `ServerTheorems` | invariants of the middleware at any number of processes, proved |
| `BreakerTheorems`, `OracleFeedTheorems` | the properties of Breaker and OracleFeed, proved |
| `MC*` | values of the constants for TLC |

An operator whose comment begins with "Fault:" is a wrong variant of the
definition after it. No specification uses one; it shows which property would
notice that bug, and PROJECT.json pairs each property with one. The type
invariants are stated for the reader and for proofs; no run checks them.

### Rules and Wallets

An int64 is an integer in `-Half .. Half-1`; `Wrap` is Go's wrap-around and
`Quotient` its truncating division. `Half` is a parameter: a power of two is not
needed for any argument, and runs use one small enough for sums to overflow
where overflow is the question. A rule is written as the condition under which
the Go function returns nil. `wallets` keeps `total`, `reserved` and, for each
guild and kind (type with ref_type), the sum of the ledger amounts. The order,
ids and timestamps of ledger rows are left out.

### AuctionHouse

| Code | Action |
|---|---|
| `CreateAuction` | `CreateAuction(g, i, a, t)` |
| `PlaceBid` | `PlaceBid(a, g, amount, b, t)` |
| `CancelBid` | `CancelBid(a, b, g)` |
| `SettleAuction` | `SettleAuction(a, t)` |
| time | `Tick` |

A rejected operation rolls back and is a stuttering step. A transaction reads
the clock after it has its lock and commits later, so actions take the reading
`t`, anywhere between the last update of the row it locked and now. Fresh ids
are chosen among absent rows. The CHECK and UNIQUE constraints of the schema are
not guards: that they never fire is what `WalletSound` and `ItemInOneAuction`
say. The branch of `CancelBid` that releases money is kept as in the code; by
`ActiveBidLeads` it is never reached, since only the leader's bid is active and
the leader may not cancel.

### RowLocks and AuctionTx

A session is a database connection with at most one transaction. `tx[s]` is the
transaction's private state: the operation, its next statement, the copies of
the rows it has locked, the wallets it has changed (`mine`, `w` of WalletCopies)
with ledger amounts counted from 0. `due[s]` holds the ids a worker has plucked and not
settled. The tables are the variables of AuctionHouse and hold what is
committed. A lock action takes a row lock, copies the row, and checks what the
code checks there; a failed check ends the transaction; `Commit*` writes the
copies whole and hands each lock to the first in its queue. `Waits` queues for a
lock, `DeadlockVictim` aborts a transaction on a circle, and `Fails` (where
`MayFail`) aborts any transaction anywhere, which stands for a failing
statement, a client that disconnects, and a process that dies. Requests resolve
the item's auction without a lock, and `SettleDue` plucks ids without one. Left
out: a commit of a worker's settlement whose answer is lost (the round would
only end early), and the weak locks that foreign keys take.

### Listings

`CreateItem`, `CreateListing`, `Buy` and `Seed` as committed transactions.
`items.id` is a BIGSERIAL: `seq` moves at every insert, also one that rolls
back, and does not move for an explicit id. `Buy` takes three readings of the
clock (cap check, day charged, sold_at). The upsert of the daily total fails
where PostgreSQL's BIGINT would overflow, while the sum in the cap check wraps
as Go's does. Guilds and wallets of the seed are the initial state.

### BuyTx

| Code | Action |
|---|---|
| `BuyByItem`, `OpenListingByItem` | `BuyByItem(s, g, i)` |
| `Buy`: lock and check the listing, the item, the buyer's wallet and cap | `LockListing`, `LockItem`, `LockBuyer` |
| `Buy`: `DebitTx`, `CreditTx` | `DebitBuyer`, `CreditSeller` |
| `Buy`: the writes and the commit | `CommitPurchase` |
| `CreateListing` | `Lists(g, i, p)` |
| `CreateItem`, `Seed` | `Registers` |

The layout is that of AuctionTx: copies of locked rows in `tx[s]`, whole-row
writes at the commit, `Waits`, `DeadlockVictim` and `Fails`. The day's total is
read once the buyer's wallet is locked and added to by the database at the
commit, possibly on another day. The writes between the last lock and the commit
are one step: nobody sees them before, the rows they write are locked, and the
two that are not (the buyer's new item, the day's total) are an insert and an
upsert. `CreateListing` locks one row from its only check to its commit and is
one step while that lock is free.

### Market and Api

`Market` lets the operations of AuctionHouse and Listings interleave over one
wallets table. Legendaries are the rows of `item`, the rest are those of `good`,
which are disjoint tables here and one in the code: no operation turns one into
the other (`MarketAssumption`; no action here registers a legendary, which would
be a new row of `item`, and a row of `item` never enters a fixed-price sale).
`MarketSpec` is what Api is proved to implement.

`Api` follows the calls of `Clients` on every route but /health and /swagger.
`call[c]` is what the client asked for, the next step of the handler, what its
last statement found, and in the end the status and the body. The first step
decodes the request (`Asked`: a path that is no number or a missing required
field is answered with 400; a field of value 0 is a missing one) and runs the
first statement; `Buy`, `Bid` and `Cancel` are the transactions of calls that
have resolved an offer without a lock. The `*Error` operators are the checks of
a service in the order in which it makes them, by the name of its errors, and
`StatusForError` maps them. Reads that run several statements take a step for
each. Between any two steps others deal (`Others`), the settlement worker
included.

`call[c].fault` says what befell a call beside its own checks. Any statement may
fail, and a commit may lose its acknowledgement: the answer is 500, except that
`GetAuction` (auction.go:56) and `GetItem` (item.go:97,101) drop the error of a
later read and show what they have without it (`ShowsWithout`). `TurnsAway` is
the middleware's 409 for a key that is in flight or was another request's; an
answer it replays is a copy of one given before (`ReplayFaithful`) and left out.
Values that pass the decoding and fit no column are model values of their own:
`TooBig` is an id of 2^63 or more, `BadName` a name its column refuses, and a
stock may exceed `IntMax`; all of them are internal errors. Left out are the
Oracle's price in an item and the format of times. A day's total that overflows
(`AddsUp`) is modelled, but no amount of the run reaches it.

### Idempotency

One request is a sequence of statements on `idempotency_keys` around one
transaction of its handler. Statuses are the classes the middleware
distinguishes, bodies are named by the request that wrote them. `faults` is
chosen at the start from `Environments` and never changes: "db" (a statement of
the middleware returns an error, done or not), "cancel" (the request's context
ends), "ack" (a handler's commit is done and answered by an error), "panic",
"crash". Requests without a key pass through and are left out.

### Server

Each request is sent to one process (`Home`). A process is down, serving or
draining: `Boot`, `Signal`, `Shutdown` (the drain ends because all is answered
or because the timeout has passed), `Kill`. What a process still serves when it
exits is dead: its transaction has committed or not, its client has no answer,
and its key keeps the state it had. A retry goes to another process or to the
rebooted one. The steps of a boot touch nothing of the middleware's and are one
step.

### Breaker and OracleFeed

`Breaker` keeps the three fields of the breaker, `cooling` being the part of the
cooldown not yet over; a Fetch is Begin, attempts, backoffs and one report. The
count of failures stops at MaxFailures, above the threshold, which loses nothing
as the code only compares it with the threshold. Durations of timeouts and
backoffs are left out: an attempt just ends.

`OracleFeed` has one step per snapshot, per rejected price, per insert and per
`setCache`; `Stop` may come between any two of them and `Start` loads the cache,
or fails to and starts anyway. A failing Fetch is a stuttering step. The
deviation ratio is a natural number (a float64 in the code), the clock that
dates rows does not go back, and one server runs.

## 3. Runs

| Run | States | Shows |
|---|---|---|
| `auctions` | 140,325 | the invariants and action properties of AuctionHouse |
| `sessions` | 86,715 | two clients and a worker on one item, failures anywhere: AuctionTx implements AuctionHouse, nothing stale |
| `settling` | 196,502 | two workers and a client, wallets locked crosswise, deadlocks: every ended auction is settled |
| `trading` | 66,584 | listings, caps across midnight and overflow, stock, reconciliation of sales with wallets and daily totals, seed |
| `shop` | 82,842 | two sessions that buy, failures anywhere: BuyTx implements Listings, every request ends |
| `api` | 880,822 | one client's calls in a market of three guilds, any statement of which may fail: the shared wallets stay sound and explained, balances move only by trades, answers are documented ones or of a named kind, the leader shown fits its auction |
| `retries` | 170,852 | the middleware at two processes in two environments: effects, replays, orphaned keys, and that nothing waits |
| `outage` | 864 | the breaker with two overlapping callers, safety and recovery |
| `feed` | 821,839 | the price feed in two environments |
| `seeded_ids`, `claim_stuck`, `cold_start` | | a statement of the repository that the code violates, see section 6 |

Bounds, and why they are enough.

- `auctions`: two items of two owners, two auctions, four bids, three guilds.
  Two auctions are enough for a guild that leads both, and for an item that is
  sold and auctioned again by its winner. Balances (32, 34, 61) are such that
  one guild can pay for one leading bid or two, another for one only. The amounts
  30, 31, 32, 34 are 5% steps and one that is rounded down only by a wrong
  formula; 0 is refused. Window and extension 2 with clock up to 4 let a bid
  extend an auction and a settlement follow the extension.
- `sessions`: three sessions are enough for one to hold a lock, one to wait with
  a row it has read before, and one to commit in between. One auction and three
  bids let an outbid guild, a cancelled bid and an extension all race with the
  settlement.
- `settling`: the smallest instance with a deadlock of two settlements (two
  auctions whose sellers bid on each other's items) and with two workers that
  have plucked the same ids. No symmetry, as a liveness property is checked. That
  two workers settle nothing twice is a case of the refinement, which
  `sessions` checks with one worker and `SessionsImplementAuctionHouse` proves
  for any number. Extension and clock end at 1 here, so that no bid moves an end.
  A bid that read the clock in time, commits when the auction is due and gives
  it a later end is among the behaviours of `sessions`, as far as safety goes;
  that such an auction is settled at its later end is part of `DueSettled`, but
  needs a third instant, with which this instance has 752,693 states and its
  liveness check takes too long. On one auction (items, auctions and workers cut
  to one, amounts 2 and 3, clients `s1` and `s2`, extension 2, clock to 3: 99,632
  states) TLC finds `DueSettled` to hold with such bids as well; this is not one
  of the runs. An end moved beyond the last instant is excused, which happens
  only there.
- `trading`: Half = 8 makes the turnover of one day, but no balance, overflow:
  two purchases at 2 and 6. One guild's cap is below the greater price, so that
  it can be passed only by a check that wraps. Midnight lies between the two
  instants; three listings let one item of two
  units be listed more often than it has stock, and be resold.
- `shop`: two guilds, three items of which one guild owns two and the other the
  third, two listings, one price. Two purchases of one guild from different
  listings exceed its cap only together; purchases of both from
  each other lock the wallets crosswise; midnight passes once. Two ids are left
  for the units bought.
- `api`: one followed client is enough, as the others' operations come between
  any two of its steps. One legendary, two auctions of it and two bids let an
  offer be replaced between its resolution and the transaction, and a leader be
  outbid, or win, between the statements of a read. One listing, one price and
  wallets that can pay for a bid or a purchase, not both. One id, one name and
  one stock lie beyond the width of their columns.
- `retries`: a request, its retry at another process, and another body under the
  key. A third retry meets only situations the second one meets too. Disconnects
  and failing statements are in different environments: a statement fails under
  both alike.
- `outage`: threshold 3, one retry, two callers: late reports reach the breaker
  in each of its states. The program has one caller, the poller; two are more
  than it needs, and what the breaker's own comments ask of it.
- `feed`: three rows an item are enough for a jump across a restart to show as
  two successive rows; the amounts are good, zero, deviating and too large.

Deadlock checking is off in every run since ids, clock and requests are bounded,
so that every instance comes to rest.

Fairness, and why the code justifies it.

- `settling`: time goes on, a session runs its next statement, joins the queue or is aborted
  if it can be (the goroutine is scheduled, PostgreSQL runs its deadlock
  detector), and a worker's ticker never stops (`SettlementWorker.Run`). Weak
  fairness suffices because lock queues are first come first served, as
  PostgreSQL's are: if a released lock could be taken by anyone, two workers
  could abort each other for ever. Statements do not fail in this run; a
  database that always fails settles nothing.
- `shop`: as in `settling`, for the sessions only; nobody has to buy.
- `retries`: the middleware's own statements return. Handlers are not fair (they
  may wait for a lock as long as they like), nor are boots, signals, drains or
  faults.
- `api` has none: its properties are invariants.
- `outage`: the poller's ticker starts fetch after fetch, an attempt ends by its
  timeout, time passes. The upstream is not fair: recovery is promised only when
  it stays up.

## 4. Theorems

Checked by TLAPS for every value of the constants: any guilds, items, auctions,
bids, listings, sessions, processes and requests, and any balance, amount,
width, window and threshold. The assumptions are the named ASSUMEs of the
modules: constants have their types, the sets that are summed over are finite,
all the money in the market fits an int64 (`BalancesFit`; raised by 5%,
`MoneyFits`), days follow the clock, and NULL is no value.

**Auctions** (`AuctionHouseTheorems`). The inductive invariant is `CoreInv ==
TypeOK /\ RowsConsistent /\ ReservedBacked /\ WalletSound /\ MoneyConserved`. None
of the parts is inductive alone. That a release never takes more than is
reserved needs the reserved amount to be the sum of the guild's active bids;
that the bid released is active needs the references between auctions and bids;
that no movement wraps needs every balance to be bounded by the money in the
market, hence conservation; and conservation needs that nothing wraps.
`PlaceBidEffect` and `SettleMoneyMoves` first show that the int64 operations
compute the exact result, the `*Core` lemmas then preserve the invariant action
by action. Sums are `SumFunctionOnSet` of the community modules; `WalletTheorems`
turns it into a recursive function over subsets and proves what a change of one
or two summands does. From CoreInv follow `ReservedAlwaysBacked`,
`WalletsAlwaysSound`, `MoneyAlwaysConserved`, `LeadersAlwaysFunded`,
`ActiveBidsAlwaysLead`, `TypeAlwaysOK`, and the action properties
`AlwaysRaisedByFivePercent`, `AlwaysAntiSnipe`, `AlwaysTransferWithPayment`. A
second invariant, `MarketInv` (an item has one open auction of its owner, the
leader has the maximum, nothing was settled early), inductive relative to
CoreInv, yields `ItemsAlwaysInOneAuction`, `HighestAlwaysMax`,
`NeverSettledBeforeEnd` and `AlwaysPaidOnce`. `LedgerMoves` says that the ledger
rows of every step explain what it does to a wallet, whatever was there before;
`LedgerAlwaysReconciles` follows, relative to CoreInv. `MinNextBidExact` (`WalletTheorems`) says that the
integer formula of the 5% rule is the exact ceiling for every amount whose
product fits the width. `TypeOK`, `LedgerReconciles`, `RowsConsistent` and
`NeverSettledEarly` are proved and not run; `MarketReconciles` is the ledger's
property over both flows.

**Concurrent sessions** (`AuctionTxTheorems`). `SessionsImplementAuctionHouse ==
TxSpec => ImplementsAuctionHouse`, for every number of clients, workers and
rows. The inductive invariant `TxInv` says of each session what its stage
entitles it to: which rows it holds, that its copies of them are what is
committed, that what it has checked still holds, and that its private wallets
and ledger sums are the committed ones with its movements so far. The part that
weighs most is that a session works with several wallets at once, each locked at
another statement. A session's own statement carries it from one stage to the
next; a step of anyone else spares it, because a lock has one holder and a
commit writes only rows its transaction holds. What the queues, the deadlock
detector, the failures and the stale ids of `SettleDue` do is left open. Each
commit is then the whole operation of `AuctionHouse`, every other step stutters.
`NothingEverStale` is a part of `TxInv`: no transaction works on a copy of a row
that has changed since. `SessionsKeepMarket` draws the conclusion: every
invariant and action property proved of AuctionHouse holds of the concurrent
sessions.

**Listings** (`ListingsTheorems`). `TradeInv` joins the row references, balances
(nothing is reserved here, the sum is constant), stock, ownership, charges and
the ledger. Two parts carry the weight. `BalancesSound` bounds a price by the
buyer's balance and both parties' balances by the money in the market, so that
`BuyMoneyExact` can drop every wrap-around from a purchase. `ChargedBySales`
says that whatever is charged to a day was bought on it or later; with the row
lock that dates a purchase after the buyer's last one it follows that a purchase
which midnight splits finds the new day's total empty (`LaterDayFree`), which is
what saves the cap there. What it does not save is a sum that wraps in the check:
`DailyCapRespected` names that one purchase (`WrappedAtMidnight`, which the run
`trading` reaches), and `CapHoldsWhenSumsFit` shows that nothing else is
missing: where a cap and all the money together fit an int64, no cap is ever
exceeded.

**Concurrent purchases** (`ListingsTheorems`). `PurchasesAreSerial ==
BuySpec => ImplementsListings`. The inductive invariant says of each session how
far it is and what that entitles it to: the locks it holds, that the rows it has
copied are still what is committed, that the cap and balance it has checked
still suffice, and that its private version of the wallets is the committed one
with its movements so far. A session's own statement adds to this
(`LockListingKeeps` to `CreditSellerKeeps`); a step of anyone else leaves it alone
because a lock has one holder (`CommitSpares`, `OutsideSpares`, `SparedSession`).
`CommitIsBuy` then turns each commit into `Buy` of the abstract module. The
queues, the deadlock detector and the failures may do what they like: the proof
uses of `RowLocks` only that a lock is taken when nobody else holds it and kept
until the transaction ends. What is proved of Listings thereby holds of
concurrent sessions.

**Both flows** (`MarketTheorems`). In Listings alone nothing is reserved; in the
market a purchase draws on the same row as the bids of its buyer. `WholeInv`
joins the auctions' invariants with `MarketReconciles`, `ShopInv` (types and
references of items and listings, ids are the seed's or behind the sequence) and
`WinnersLead`. `BuySells` shows that a purchase does not wrap and takes at most
what the buyer has not reserved (`Sale`), whatever it leads; `SaleKeepsMarket` and
`SaleReconciles` that every reservation stays backed, the money stays the same
and both ledger rows explain it. A step of the auction flow is dealt with by
`HouseStep` and `LedgerMoves`, which assume nothing of the ledger's state. Hence
`MarketAlwaysReconciles`, and with it the invariants of the auction flow beside
purchases. `MoneyAlwaysTraded` joins the two step lemmas `PayStep` (auctions) and
`MoneySells` (purchases): a balance changes only as one side of one settlement
or one sale, by its price. `MarketKeepsRules` carries the three action properties
of the auctions over; `PaidOnce` as such does not hold here, where purchases move
balances too, and `MoneyMovesByTrade` takes its place.

**Calls** (`MarketTheorems`). `ApiImplementsMarket` shows that the checks of the
handlers let through nothing but what the market's transactions allow: a call's
arguments, read without a lock, still name rows that exist, and no legendary is
listed nor a common item auctioned. `CallSound` says of each call what its
next statement may rely on, as a predicate of the call and the tables, and
`CallKept` that no step of the market takes it away: auctions and bids are not
deleted, a bid stays the bid of its guild and amount (`RowsRemain`), a settled
auction is final. `Goes` says of a step of a client that the market allows it and
that its answer, if it gives one, is explained. `StatusesAlwaysExplained` and
`LeaderNeverOlder` follow for every number of clients. For the former each step
of a call that answers is shown to give a declared status or to have one of the
named reasons: a call that is cut off is explained by its `fault` (`CutOffGoes`,
`FailureGoes`, `TurnsAwayGoes`), one refused for an argument that fits no column
by that argument (`UnfitGoes`). The exceptions are judged in the step that
gives the answer, because the sequence and the day's total move on between the
answer and its reading. `LeaderNeverOlder` rests on `HighestIsMax` (who leads now
is at least who led when the row was read) and on `WinnersLead`; a leader the
row names is missing only where the read of it failed (`LeaderMissing`).
`ApiKeepsMarket` and `ApiKeepsRules` give the market's invariants and rules to
the calls. Two assumptions beside the types of the constants: listing ids are
numbers, and the ids, names and stocks beyond their columns' widths are not
those of any row (`ApiAssumption`); and no representation of a bid is NULL
(`NullIsNoView`).

**Idempotency** (`ServerTheorems`). The argument is about holders: a request
holds its key from its claim until it has been answered by an error, a key has
one holder at most, and while it has one the row is the holder's (`OneHolder`).
With what each stage of a request has done so far this is inductive under
faults, exits and reboots of any number of processes, and yields
`AlwaysAtMostOnce`, `DoubleEffectAlwaysExplained`, `ReplayAlwaysFaithful`,
`AckedAlwaysClaimed` and `OrphansAlwaysExplained`.

**Breaker and feed** (`BreakerTheorems`, `OracleFeedTheorems`). The breaker's
invariant ties its state to the count and to the cooldown for reports in any
order, and keeps the retry budget. The feed's adds that a price between insert
and cache was validated against what the cache still shows (`PendingIsValid`);
`ValidIsNear` shows that the rounded lower limit keeps prices within the ratio.

Only model-checked: liveness (`DueSettled`, `RequestsEnd`, `NeverWaits`,
`TrialEnds`, `RecoversAfterOutage`), which the prover does not do under fairness. Every other property of a passing run is stated by a theorem.
The properties of Listings are proved of Listings and of concurrent purchases,
not of Market; there they rest on `trading` and on the tables the auction flow
leaves alone.

## 5. Not modelled

Configuration, migrations, logging, the mock source, the report tool and the API
documents change no state or are one-off I/O. The configuration is the models'
constants: a malformed duration in the environment becomes 0, with which
`time.NewTicker` panics in a worker, and no model starts from such a value.
`/health` and `/swagger` touch no state. `ListBids` and the public wrappers of
the wallet movements have no caller outside the tests.

Of what is modelled, the following is left out: the steps of a boot, the answers
that the middleware replays in `Api`, the Oracle's price in an item's
representation, the format of times, requests without an idempotency key in
`Server`. Several servers that share `oracle_prices` are not
modelled: the row with the latest wall-clock time is then not the last accepted.

## 6. Where the code and its documents differ

- `seeded_ids` (a bug): the seed's explicit ids do not advance the sequence of
  `items.id`, so the first registrations and purchases on seeded data fail.
- `claim_stuck` (a bug): the delete that should release a failed request's
  idempotency key runs under the request's own context and its error is dropped;
  after a disconnect the key stays in flight for good.
- `cold_start`: when the cache load at the start fails the server runs on, and
  the first price is accepted however far it is from the last good one.

Not runs of their own:

- auction.go:37 announces an auction "and its current highest bid (if any)", but
  line 56 drops an error of the read of that bid, so that a 200 may show an
  auction without the leader its row names; `LeaderNotOlder` says that nothing
  else hides it. An item's listing and auction are dropped likewise
  (item.go:97,101).
- listing.go:17-18 says that buyers never exceed their daily cap. The sum in
  `EnsureWithinDailyCap` wraps, so that a price of which it makes more than an
  int64 passes any cap; on the same day the total's BIGINT column refuses the
  sum, after midnight nothing does. It takes balances the seed does not give and
  no route adds to.
- breaker.go:28-29 promises a single trial call that is safe for concurrent use.
  A half-open breaker lets every caller through; the program has one, the poller.
- README.md:7 and the comments of `CreateItem` call legendary items unique. No
  check and no constraint stops one from being registered twice.
- These answers are not among those the handlers' comments declare, and are the
  exceptions that `StatusesExplained` names:
  - 400 for a malformed path of a read;
  - the middleware's 409 on `POST /items` and on the cancellation of a bid;
  - 409 for a bid cancelled after its auction was settled;
  - 500 for a statement that fails for reasons of the database;
  - 500 for an argument that is let through and fits no column: an id of 2^63 or
    more, a stock beyond INT, a name beyond VARCHAR(160);
  - 500 for a buyer or bidder that does not exist, as the wallet's lock fails
    before the guild is looked for;
  - 500 for an insert that finds its id taken (`seeded_ids`);
  - 500 for a purchase whose day's total does not fit its column.
- auction.go:335 calls what `HighestBid` returns "the current highest (active)
  bid". For a settled auction it is a won one; shown with an auction it may be
  newer than the row it is shown with. `LeaderNotOlder` says what does hold.
- An item that is sold out keeps its open listings, which are shown and can only
  be refused.
- When the claim statement itself fails the middleware lets the handler run
  unguarded, so a retry may take effect twice. `AtMostOnce` and
  `DoubleEffectExplained` state exactly when.
- A drain that times out leaves the keys of the requests it cuts in flight, like
  the crash that docs/ADR.md:247 admits. `OrphanExplained` says when else.

## 7. Plan

The order of the work follows what matters most to users: money and ownership
in auctions, then the concurrency of the transactions, then fixed-price sales,
repeated requests and the price feed.

Done: sections 2 to 4. Next, in this order:

1. The properties of Listings beside auctions: caps, stock and ownership hold of
   Market, where a buyer's reserved amount is not zero.
2. The two refinements under one roof: sessions of both kinds over one set of
   locks implement Market.
3. Several servers over one `oracle_prices` table, whose clocks may differ.
