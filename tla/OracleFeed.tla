----------------------------- MODULE OracleFeed -----------------------------
(***************************************************************************)
(* The price feed (internal/service/oracle.go) of one server process: the  *)
(* poller refreshes, the service validates every price of a snapshot       *)
(* against its cache, inserts the good ones into oracle_prices and then    *)
(* caches them; a restart loads the cache from the table.                  *)
(*                                                                         *)
(* A refresh whose Fetch fails (module Breaker) changes nothing and is a   *)
(* stuttering step.  The clock that dates the rows does not go back, so    *)
(* the latest row of an item is the last one inserted.  faults says what   *)
(* may go wrong in the environment of a behaviour:                         *)
(*   "db"     an insert returns an error and is not done                   *)
(*   "ack"    an insert is done and returns an error                       *)
(*   "warm"   the load at the start fails, and the server starts anyway    *)
(*   "crash"  the process dies, or is stopped, between two steps           *)
(***************************************************************************)
EXTENDS Integers, Sequences, SequencesExt

CONSTANTS
  Things,      \* item ids of the feed
  Snapshots,   \* sequences of prices the upstream may return
  MaxPrice,    \* 0: no limit
  Ratio,       \* MaxDeviationRatio; 0: no limit
  MaxRows,     \* bound on the rows of an item
  Environments \* sets of faults

ASSUME FeedAssumption ==
  /\ Snapshots \subseteq Seq([item : Things, amount : Int])
  /\ MaxPrice \in Nat /\ Ratio \in Nat
  /\ Environments \subseteq SUBSET {"db", "ack", "warm", "crash"}

VARIABLES
  faults,      \* those of the environment, which do not change
  stored,      \* oracle_prices table: the amounts of each item, in order
  cache,       \* the service's cache; 0 for an item it has no price of
  batch,       \* what is left of the snapshot being refreshed
  pc           \* "down", "running", or "stored" between insert and setCache

fvars == <<faults, stored, cache, batch, pc>>

Nothing == [i \in Things |-> 0]

FeedTypeOK ==
  /\ faults \in Environments
  /\ stored \in [Things -> Seq(Nat \ {0})]
  /\ cache \in [Things -> Nat]
  /\ batch \in Seq([item : Things, amount : Int])
  /\ pc \in {"down", "running", "stored"}
  /\ pc = "stored" => batch # <<>>

Init ==
  /\ faults \in Environments
  /\ stored = [i \in Things |-> <<>>]
  /\ cache = Nothing
  /\ batch = <<>>
  /\ pc = "down"
-----------------------------------------------------------------------------
(* Fault: the deviation is not looked at. *)
AnyPlausiblePrice(amount, prev) ==
  amount > 0 /\ (MaxPrice > 0 => amount <= MaxPrice)

validatePrice(amount, prev) ==
  /\ amount > 0
  /\ MaxPrice > 0 => amount <= MaxPrice
  /\ Ratio > 0 /\ prev > 0 => amount \in prev \div Ratio .. prev * Ratio

(* Fault: the oldest price is loaded. *)
OldestPrices ==
  [i \in Things |-> IF stored[i] = <<>> THEN 0 ELSE Head(stored[i])]

(* SELECT DISTINCT ON (item_id) ... ORDER BY created_at DESC. *)
LatestPrices ==
  [i \in Things |-> IF stored[i] = <<>> THEN 0 ELSE Last(stored[i])]

(* The load is done before the poller starts; its failure is only logged. *)
Start ==
  /\ pc = "down"
  /\ \/ cache' = LatestPrices
     \/ "warm" \in faults /\ cache' = Nothing
  /\ pc' = "running"
  /\ UNCHANGED <<stored, batch>>

Fetched(prices) ==
  /\ pc = "running" /\ batch = <<>>
  /\ batch' = prices
  /\ UNCHANGED <<stored, cache, pc>>

Price == Head(batch)

Valid == validatePrice(Price.amount, cache[Price.item])

Reject ==
  /\ pc = "running" /\ batch # <<>>
  /\ ~Valid
  /\ batch' = Tail(batch)
  /\ UNCHANGED <<stored, cache, pc>>

Inserted == [stored EXCEPT ![Price.item] = Append(@, Price.amount)]

(* An insert that fails ends the refresh; later prices are dropped. *)
Store ==
  /\ pc = "running" /\ batch # <<>>
  /\ Valid
  /\ Len(stored[Price.item]) < MaxRows
  /\ \/ /\ stored' = Inserted
        /\ pc' = "stored"
        /\ UNCHANGED batch
     \/ /\ "db" \in faults
        /\ batch' = <<>>
        /\ UNCHANGED <<stored, pc>>
     \/ /\ "ack" \in faults
        /\ stored' = Inserted
        /\ batch' = <<>>
        /\ UNCHANGED pc
  /\ UNCHANGED cache

(* Fault: the stored price is not cached. *)
SetCacheForgotten ==
  /\ pc = "stored"
  /\ batch' = Tail(batch)
  /\ pc' = "running"
  /\ UNCHANGED <<stored, cache>>

SetCache ==
  /\ pc = "stored"
  /\ cache' = [cache EXCEPT ![Price.item] = Price.amount]
  /\ batch' = Tail(batch)
  /\ pc' = "running"
  /\ UNCHANGED stored

Stop ==
  /\ "crash" \in faults
  /\ pc # "down"
  /\ pc' = "down"
  /\ cache' = Nothing
  /\ batch' = <<>>
  /\ UNCHANGED stored

Next ==
  /\ UNCHANGED faults
  /\ \/ Start
     \/ \E prices \in Snapshots : Fetched(prices)
     \/ Reject \/ Store \/ SetCache
     \/ Stop

Spec == Init /\ [][Next]_fvars
-----------------------------------------------------------------------------
(* A running server shows the latest stored price of every item, but for   *)
(* the one price it has inserted and not cached yet: after any restart and *)
(* any failed refresh, as long as no answer of the database is lost.       *)
CacheIsLatest ==
  faults \cap {"ack", "warm"} = {} /\ pc # "down" =>
    \A i \in Things :
      \/ cache[i] = IF stored[i] = <<>> THEN 0 ELSE Last(stored[i])
      \/ pc = "stored" /\ i = Price.item

(* oracle.go: "A bad or missing upstream never overwrites a good price".   *)
(* Of two successive rows of an item the later deviates by no more than    *)
(* the configured ratio, even across a restart.                            *)
NeverJumps ==
  Ratio > 0 =>
    \A i \in Things : \A n \in 1 .. Len(stored[i]) - 1 :
      /\ stored[i][n + 1] <= stored[i][n] * Ratio
      /\ stored[i][n] < (stored[i][n + 1] + 1) * Ratio

(* It holds as long as no answer of the database is lost.                  *)
NeverJumpsUnlessLost == faults \cap {"ack", "warm"} = {} => NeverJumps

(* What a running server shows of an item never jumps by more than the     *)
(* ratio, not even when lost answers leave rows in the table that the      *)
(* cache has not seen.                                                     *)
ServedNeverJumps ==
  [][Ratio > 0 /\ pc # "down" /\ pc' # "down" =>
       \A i \in Things : cache[i] # 0 /\ cache'[i] # cache[i] =>
         /\ cache'[i] <= cache[i] * Ratio
         /\ cache[i] < (cache'[i] + 1) * Ratio]_fvars
=============================================================================
