------------------------- MODULE OracleFeedTheorems -------------------------
(***************************************************************************)
(* What module OracleFeed's run checks on an instance, proved for every    *)
(* set of items, every snapshot, limit and ratio, and tables of any size.  *)
(***************************************************************************)
EXTENDS OracleFeed, TLAPS

(* The database answers truly and the load at the start does not fail. *)
NothingLost == faults \cap {"ack", "warm"} = {}

Newest(rows) == IF rows = <<>> THEN 0 ELSE Last(rows)

(* The price between insert and setCache is the newest of its item and was *)
(* validated against what the cache still shows.                           *)
PendingIsValid ==
  pc = "stored" =>
    /\ Valid
    /\ stored[Price.item] # <<>> /\ Last(stored[Price.item]) = Price.amount

FeedInv ==
  /\ FeedTypeOK
  /\ PendingIsValid
  /\ CacheIsLatest
  /\ NeverJumpsUnlessLost

(* No two neighbours of a history of prices deviate by more than Ratio.    *)
Steady(rows) ==
  \A n \in 1 .. Len(rows) - 1 :
    /\ rows[n + 1] <= rows[n] * Ratio
    /\ rows[n] < (rows[n + 1] + 1) * Ratio

Amounts == Nat \ {0}
-----------------------------------------------------------------------------
(* The rounded-down lower limit still keeps a price within the ratio.      *)
LEMMA ValidIsNear ==
  ASSUME NEW amount \in Int, NEW prev \in Amounts, Ratio > 0,
         validatePrice(amount, prev)
  PROVE  amount <= prev * Ratio /\ prev < (amount + 1) * Ratio
<1>1. Ratio \in Nat \ {0} /\ amount \in prev \div Ratio .. prev * Ratio
  BY FeedAssumption DEF validatePrice, Amounts
<1> QED
  BY <1>1, SMTT(30) DEF Amounts

(* The newest price of a history is 0 or one of its amounts.               *)
LEMMA NewestType ==
  ASSUME NEW rows \in Seq(Amounts)
  PROVE  Newest(rows) \in Nat /\ (rows # <<>> => Newest(rows) \in Amounts)
  BY DEF Newest, Last, Amounts

(* A price that is valid after the newest one continues a steady history.  *)
LEMMA AppendSteady ==
  ASSUME NEW rows \in Seq(Amounts), NEW amount \in Amounts,
         Ratio > 0 => Steady(rows),
         validatePrice(amount, Newest(rows))
  PROVE  Ratio > 0 => Steady(Append(rows, amount))
<1> SUFFICES ASSUME Ratio > 0, NEW n \in 1 .. Len(Append(rows, amount)) - 1
             PROVE  LET more == Append(rows, amount)
                    IN  /\ more[n + 1] <= more[n] * Ratio
                        /\ more[n] < (more[n + 1] + 1) * Ratio
  BY DEF Steady
<1> DEFINE more == Append(rows, amount)
<1>1. /\ Len(rows) \in Nat /\ Len(more) = Len(rows) + 1
      /\ \A k \in 1 .. Len(rows) : more[k] = rows[k]
      /\ more[Len(rows) + 1] = amount
  OBVIOUS
<1>2. n \in 1 .. Len(rows)
  BY <1>1
<1>3. CASE n = Len(rows)
  <2>1. rows # <<>> /\ more[n] = Newest(rows) /\ more[n + 1] = amount
    BY <1>1, <1>2, <1>3 DEF Newest, Last
  <2>2. Newest(rows) \in Amounts
    BY <2>1, NewestType
  <2> QED
    BY <2>1, <2>2, ValidIsNear DEF Amounts
<1>4. CASE n # Len(rows)
  <2>1. more[n] = rows[n] /\ more[n + 1] = rows[n + 1] /\ n \in 1 .. Len(rows) - 1
    BY <1>1, <1>2, <1>4
  <2> QED
    BY <2>1 DEF Steady
<1> QED
  BY <1>3, <1>4

LEMMA HeadTailType ==
  ASSUME NEW S, NEW s \in Seq(S), s # <<>>
  PROVE  Head(s) \in S /\ Tail(s) \in Seq(S)
  OBVIOUS

LEMMA SteadyRows == NeverJumps <=> (Ratio > 0 => \A i \in Things : Steady(stored[i]))
  BY DEF NeverJumps, Steady
-----------------------------------------------------------------------------
LEMMA FeedInit == Init => FeedInv
  BY FeedAssumption
     DEF Init, FeedInv, FeedTypeOK, PendingIsValid, CacheIsLatest,
         NeverJumpsUnlessLost, NeverJumps, Nothing

(* The next price of a refresh is one the upstream may return. *)
LEMMA PriceType ==
  FeedTypeOK /\ batch # <<>> =>
    /\ Price.item \in Things /\ Price.amount \in Int
    /\ Tail(batch) \in Seq([item : Things, amount : Int])
<1> SUFFICES ASSUME FeedTypeOK, batch # <<>>
             PROVE  /\ Price.item \in Things /\ Price.amount \in Int
                    /\ Tail(batch) \in Seq([item : Things, amount : Int])
  OBVIOUS
<1> DEFINE Quote == [item : Things, amount : Int]
<1>1. batch \in Seq(Quote)
  BY DEF FeedTypeOK
<1> HIDE DEF Quote
<1>2. Price \in Quote /\ Tail(batch) \in Seq(Quote)
  BY <1>1, HeadTailType DEF Price
<1> QED
  BY <1>2 DEF Quote

LEMMA StartKeeps == FeedInv /\ UNCHANGED faults /\ Start => FeedInv'
<1> SUFFICES ASSUME FeedInv, UNCHANGED faults, Start PROVE FeedInv'
  OBVIOUS
<1>1. \A i \in Things : LatestPrices[i] = Newest(stored[i])
  BY DEF LatestPrices, Newest
<1>2. cache' \in [Things -> Nat]
  BY NewestType DEF Start, Nothing, FeedInv, FeedTypeOK, LatestPrices, Newest, Amounts
<1>3. FeedTypeOK'
  BY <1>2 DEF Start, FeedInv, FeedTypeOK
<1>4. CacheIsLatest'
  BY <1>1 DEF Start, CacheIsLatest, Newest
<1>5. NeverJumpsUnlessLost' /\ PendingIsValid'
  BY DEF Start, FeedInv, NeverJumpsUnlessLost, NeverJumps, PendingIsValid
<1> QED
  BY <1>3, <1>4, <1>5 DEF FeedInv

LEMMA FetchedKeeps ==
  ASSUME NEW prices \in Snapshots, FeedInv, UNCHANGED faults, Fetched(prices)
  PROVE  FeedInv'
<1>1. FeedTypeOK'
  BY FeedAssumption DEF Fetched, FeedInv, FeedTypeOK
<1>2. CacheIsLatest' /\ NeverJumpsUnlessLost' /\ PendingIsValid'
  BY DEF Fetched, FeedInv, CacheIsLatest, NeverJumpsUnlessLost, NeverJumps, PendingIsValid
<1> QED
  BY <1>1, <1>2 DEF FeedInv

LEMMA RejectKeeps == FeedInv /\ UNCHANGED faults /\ Reject => FeedInv'
<1> SUFFICES ASSUME FeedInv, UNCHANGED faults, Reject PROVE FeedInv'
  OBVIOUS
<1>1. FeedTypeOK'
  BY PriceType DEF Reject, FeedInv, FeedTypeOK
<1>2. CacheIsLatest' /\ NeverJumpsUnlessLost' /\ PendingIsValid'
  BY DEF Reject, FeedInv, CacheIsLatest, NeverJumpsUnlessLost, NeverJumps, PendingIsValid
<1> QED
  BY <1>1, <1>2 DEF FeedInv

(* A validated price, inserted, keeps every history typed and, when        *)
(* nothing is lost, steady.                                                *)
LEMMA InsertedFits ==
  ASSUME FeedInv, pc = "running", batch # <<>>, Valid
  PROVE  /\ Inserted \in [Things -> Seq(Amounts)]
         /\ Inserted[Price.item] = Append(stored[Price.item], Price.amount)
         /\ \A i \in Things \ {Price.item} : Inserted[i] = stored[i]
         /\ NothingLost /\ Ratio > 0 => \A i \in Things : Steady(Inserted[i])
<1> DEFINE p == Price.item
           rows == stored[p]
<1>1. p \in Things /\ Price.amount \in Amounts
  BY PriceType DEF FeedInv, Valid, validatePrice, Amounts
<1>2. rows \in Seq(Amounts) /\ stored \in [Things -> Seq(Amounts)]
  BY <1>1 DEF FeedInv, FeedTypeOK, Amounts
<1>3. Append(rows, Price.amount) \in Seq(Amounts)
  BY <1>1, <1>2
<1>4. /\ Inserted \in [Things -> Seq(Amounts)]
      /\ Inserted[p] = Append(rows, Price.amount)
      /\ \A i \in Things \ {p} : Inserted[i] = stored[i]
  BY <1>1, <1>2, <1>3 DEF Inserted
<1>5. ASSUME NothingLost, Ratio > 0 PROVE \A i \in Things : Steady(Inserted[i])
  <2>1. \A i \in Things : Steady(stored[i])
    BY <1>5, SteadyRows DEF FeedInv, NeverJumpsUnlessLost, NothingLost
  <2>2. cache[p] = Newest(rows)
    BY <1>1, <1>5 DEF FeedInv, CacheIsLatest, NothingLost, Newest
  <2>3. validatePrice(Price.amount, Newest(rows))
    BY <2>2 DEF Valid
  <2>4. Steady(Append(rows, Price.amount))
    BY <1>1, <1>2, <1>5, <2>1, <2>3, AppendSteady
  <2> QED
    BY <1>4, <2>1, <2>4
<1> QED
  BY <1>4, <1>5

LEMMA StoreKeeps == FeedInv /\ UNCHANGED faults /\ Store => FeedInv'
<1> SUFFICES ASSUME FeedInv, UNCHANGED faults, Store PROVE FeedInv'
  OBVIOUS
<1>1. pc = "running" /\ batch # <<>> /\ Valid /\ cache' = cache
  BY DEF Store
<1>2. Price.item \in Things /\ Price.amount \in Amounts
  BY <1>1, PriceType DEF FeedInv, Valid, validatePrice, Amounts
<1>3. ASSUME stored' = Inserted PROVE NeverJumpsUnlessLost'
  <2>1. NothingLost /\ Ratio > 0 => \A i \in Things : Steady(stored'[i])
    BY <1>1, <1>3, InsertedFits
  <2> QED
    BY <2>1 DEF NeverJumpsUnlessLost, NeverJumps, NothingLost, Steady
<1>4. CASE stored' = Inserted /\ pc' = "stored" /\ UNCHANGED batch
  <2>1. FeedTypeOK'
    <3>1. stored' \in [Things -> Seq(Amounts)]
      BY <1>1, <1>4, InsertedFits
    <3> QED BY <1>1, <1>4, <3>1 DEF FeedInv, FeedTypeOK, Amounts
  <2>2. stored'[Price.item] # <<>> /\ Last(stored'[Price.item]) = Price.amount
    <3> DEFINE rows == stored[Price.item]
    <3>1. stored'[Price.item] = Append(rows, Price.amount)
      BY <1>1, <1>4, InsertedFits
    <3>2. rows \in Seq(Amounts) /\ Price.amount \in Amounts
      BY <1>2 DEF FeedInv, FeedTypeOK, Amounts
    <3> HIDE DEF rows
    <3>3. /\ Append(rows, Price.amount) # <<>>
          /\ Last(Append(rows, Price.amount)) = Price.amount
      BY <3>2 DEF Last
    <3> QED BY <3>1, <3>3
  <2>3. PendingIsValid'
    BY <1>1, <1>4, <2>2 DEF PendingIsValid, Valid, Price
  <2>4. CacheIsLatest'
    BY <1>1, <1>4, InsertedFits DEF FeedInv, CacheIsLatest, Price
  <2> QED
    BY <1>3, <1>4, <2>1, <2>3, <2>4 DEF FeedInv
<1>5. CASE "db" \in faults /\ batch' = <<>> /\ UNCHANGED <<stored, pc>>
  BY <1>1, <1>5
     DEF FeedInv, FeedTypeOK, PendingIsValid, CacheIsLatest, NeverJumpsUnlessLost, NeverJumps
<1>6. CASE "ack" \in faults /\ stored' = Inserted /\ batch' = <<>> /\ UNCHANGED pc
  <2>1. FeedTypeOK'
    <3>1. stored' \in [Things -> Seq(Amounts)]
      BY <1>1, <1>6, InsertedFits
    <3> QED BY <1>1, <1>6, <3>1 DEF FeedInv, FeedTypeOK, Amounts
  <2>2. PendingIsValid' /\ CacheIsLatest'
    BY <1>1, <1>6 DEF PendingIsValid, CacheIsLatest
  <2> QED
    BY <1>3, <1>6, <2>1, <2>2 DEF FeedInv
<1> QED
  BY <1>4, <1>5, <1>6 DEF Store

LEMMA SetCacheKeeps == FeedInv /\ UNCHANGED faults /\ SetCache => FeedInv'
<1> SUFFICES ASSUME FeedInv, UNCHANGED faults, SetCache PROVE FeedInv'
  OBVIOUS
<1>1. batch # <<>> /\ PendingIsValid /\ pc = "stored"
  BY DEF SetCache, FeedInv, FeedTypeOK
<1>2. Price.item \in Things /\ Price.amount \in Amounts
  BY <1>1, PriceType DEF FeedInv, PendingIsValid, Valid, validatePrice, Amounts
<1>3. FeedTypeOK'
  BY <1>1, <1>2, PriceType DEF SetCache, FeedInv, FeedTypeOK, Amounts
<1>4. CacheIsLatest'
  BY <1>1, <1>2 DEF SetCache, FeedInv, FeedTypeOK, CacheIsLatest, PendingIsValid
<1>5. NeverJumpsUnlessLost' /\ PendingIsValid'
  BY DEF SetCache, FeedInv, NeverJumpsUnlessLost, NeverJumps, PendingIsValid
<1> QED
  BY <1>3, <1>4, <1>5 DEF FeedInv

LEMMA StopKeeps == FeedInv /\ UNCHANGED faults /\ Stop => FeedInv'
<1> SUFFICES ASSUME FeedInv, UNCHANGED faults, Stop PROVE FeedInv'
  OBVIOUS
<1>1. FeedTypeOK'
  BY DEF Stop, Nothing, FeedInv, FeedTypeOK
<1>2. CacheIsLatest' /\ NeverJumpsUnlessLost' /\ PendingIsValid'
  BY DEF Stop, FeedInv, CacheIsLatest, NeverJumpsUnlessLost, NeverJumps, PendingIsValid
<1> QED
  BY <1>1, <1>2 DEF FeedInv

LEMMA FeedStep == FeedInv /\ [Next]_fvars => FeedInv'
<1> SUFFICES ASSUME FeedInv, [Next]_fvars PROVE FeedInv'
  OBVIOUS
<1>1. CASE UNCHANGED fvars
  BY <1>1
     DEF fvars, FeedInv, FeedTypeOK, PendingIsValid, Valid, Price, CacheIsLatest,
         NeverJumpsUnlessLost, NeverJumps
<1>2. CASE Next
  BY <1>2, StartKeeps, FetchedKeeps, RejectKeeps, StoreKeeps, SetCacheKeeps, StopKeeps
     DEF Next
<1> QED
  BY <1>1, <1>2

(* The inductive invariant of the feed: types, the pending price, the      *)
(* cache against the table, the table's history.                           *)
THEOREM FeedInvariant == Spec => []FeedInv
  BY FeedInit, FeedStep, PTL DEF Spec

(* oracle.go warmCache, refresh: a running server shows the latest stored  *)
(* price of every item, whatever restarts and failed inserts went before.  *)
THEOREM CacheAlwaysLatest == Spec => []CacheIsLatest
<1>1. FeedInv => CacheIsLatest
  BY DEF FeedInv
<1> QED
  BY <1>1, FeedInvariant, PTL

(* oracle.go validatePrice: as long as nothing is lost, two successive     *)
(* rows of an item never deviate by more than the ratio.                   *)
THEOREM HistoryNeverJumps == Spec => []NeverJumpsUnlessLost
<1>1. FeedInv => NeverJumpsUnlessLost
  BY DEF FeedInv
<1> QED
  BY <1>1, FeedInvariant, PTL

(* oracle.go setCache: what a running server shows never jumps by more     *)
(* than the ratio, whatever is lost.                                       *)
THEOREM ServedPriceNeverJumps == Spec => ServedNeverJumps
<1> DEFINE Smooth ==
      Ratio > 0 /\ pc # "down" /\ pc' # "down" =>
        \A i \in Things : cache[i] # 0 /\ cache'[i] # cache[i] =>
          /\ cache'[i] <= cache[i] * Ratio
          /\ cache[i] < (cache'[i] + 1) * Ratio
<1>1. ASSUME FeedInv, SetCache PROVE Smooth
  <2> SUFFICES ASSUME Ratio > 0, NEW i \in Things, cache[i] # 0, cache'[i] # cache[i]
               PROVE  /\ cache'[i] <= cache[i] * Ratio
                      /\ cache[i] < (cache'[i] + 1) * Ratio
    OBVIOUS
  <2>1. batch # <<>> /\ Valid
    BY <1>1 DEF SetCache, FeedInv, FeedTypeOK, PendingIsValid
  <2>2. i = Price.item /\ cache'[i] = Price.amount /\ cache[i] \in Amounts
    BY <1>1 DEF SetCache, FeedInv, FeedTypeOK, Amounts
  <2>3. Price.amount \in Int /\ validatePrice(Price.amount, cache[i])
    BY <1>1, <2>1, <2>2, PriceType DEF FeedInv, Valid
  <2> QED
    BY <2>2, <2>3, ValidIsNear
<1>2. ASSUME FeedInv, [Next]_fvars PROVE Smooth
  BY <1>1, <1>2 DEF Next, Start, Fetched, Reject, Store, Stop, fvars
<1>3. FeedInv /\ [Next]_fvars => [Smooth]_fvars
  BY <1>2
<1> QED
  BY <1>3, FeedInvariant, PTL DEF Spec, ServedNeverJumps
=============================================================================
