--------------------------- MODULE MarketTheorems ---------------------------
(***************************************************************************)
(* The market with both its flows, and the calls of the API over it, for   *)
(* every set of guilds, items, ids, clients and strangers.                 *)
(***************************************************************************)
EXTENDS Api, AuctionHouseTheorems

(* The tables of the fixed-price flow: an item that is there belongs to a  *)
(* guild and is no legendary, its id is the seed's or one the sequence has *)
(* passed, and a listing refers to an item.                                *)
ShopTypes ==
  /\ good \in [Shop!Goods -> Shop!GoodRow]
  /\ seq \in 0 .. MaxItems
  /\ listing \in [ListingIds -> Shop!ListingRow]

GoodsConsistent ==
  \A i \in Shop!Goods :
    /\ good[i].status = "absent" => good[i].owner = Null
    /\ good[i].status # "absent" =>
         /\ good[i].owner \in Guilds /\ good[i].tier # "legendary"
         /\ i <= seq \/ i \in DOMAIN SeedGoods

ListingsConsistent ==
  \A l \in ListingIds : listing[l].status # "absent" =>
    /\ listing[l].item \in Shop!Goods /\ listing[l].seller \in Guilds
    /\ good[listing[l].item].status # "absent"

ShopInv == ShopTypes /\ GoodsConsistent /\ ListingsConsistent
-----------------------------------------------------------------------------
(* The movements of Listings are those of AuctionHouse. *)
LEMMA SameMovements ==
  ASSUME NEW w, NEW g, NEW x, NEW k
  PROVE  /\ Shop!Debit(w, g, x, k) = Debit(w, g, x, k)
         /\ Shop!Credit(w, g, x, k) = Credit(w, g, x, k)
         /\ Shop!CanDebit(w, g, x) <=> CanDebit(w, g, x)
         /\ Shop!CanCredit(x) <=> CanCredit(x)
  BY DEF Shop!Debit, Debit, Shop!Credit, Credit, Shop!CanDebit, CanDebit, Shop!CanCredit, CanCredit,
         Shop!Recorded, Recorded, Shop!Wrap, Wrap, Shop!EnsurePositive, EnsurePositive,
         Shop!EnsureSufficientAvailable, EnsureSufficientAvailable,
         Shop!AvailableBalance, AvailableBalance

(* The constants of the fixed-price flow. *)
LEMMA ShopConstants ==
  /\ MaxItems \in Nat /\ Shop!Goods = 1 .. MaxItems /\ DOMAIN SeedGoods \subseteq Shop!Goods
  /\ \A i \in DOMAIN SeedGoods :
       /\ SeedGoods[i] \in Shop!GoodRow /\ SeedGoods[i].owner \in Guilds
       /\ SeedGoods[i].tier # "legendary" /\ SeedGoods[i].status = "available"
  /\ NewTiers \subseteq Shop!Tiers \ {"legendary"} /\ Stocks \subseteq Int /\ Prices \subseteq Int
  /\ Null \notin Guilds \cup Shop!Goods \cup Products
  /\ Items \cap Shop!Goods = {} /\ \A i \in Items : Tier[i] = "legendary"
  BY MarketAssumption, HalfAssumption DEF Shop!ListingAssumption, Shop!Goods

LEMMA SeedKeeps ==
  ASSUME ShopInv, Shop!Seed
  PROVE  ShopInv'
<1>1. /\ good' = [i \in Shop!Goods |-> IF i \in DOMAIN SeedGoods /\ good[i].status = "absent"
                                       THEN SeedGoods[i] ELSE good[i]]
      /\ seq' = seq /\ listing' = listing
  BY DEF Shop!Seed
<1>2. ShopTypes'
  BY <1>1, ShopConstants DEF ShopInv, ShopTypes
<1>3. GoodsConsistent'
  BY <1>1, ShopConstants DEF ShopInv, GoodsConsistent
<1>4. ListingsConsistent'
  BY <1>1, ShopConstants DEF ShopInv, ListingsConsistent
<1> QED BY <1>2, <1>3, <1>4 DEF ShopInv

(* A row that is inserted at the next id. *)
LEMMA NewGoodFits ==
  ASSUME NEW p \in Products \cup {Null}, NEW tier \in Shop!Tiers \cup {Null}, NEW g \in Guilds, NEW n \in Int
  PROVE  LET row == Shop!NewGood(p, tier, g, n)
         IN  row \in Shop!GoodRow /\ row.owner = g /\ row.tier = tier /\ row.status = "available"
  BY DEF Shop!NewGood, Shop!GoodRow

LEMMA CreateItemKeeps ==
  ASSUME ShopInv, NEW g \in Guilds, NEW p \in Products, NEW tier \in NewTiers, NEW n \in Int,
         Shop!CreateItem(g, p, tier, n)
  PROVE  ShopInv'
<1> DEFINE row == Shop!NewGood(p, tier, g, n)
           next == seq + 1
<1>1. /\ seq \in 0 .. MaxItems /\ seq < MaxItems /\ seq' = next /\ listing' = listing
      /\ \/ good[next].status = "absent" /\ good' = [good EXCEPT ![next] = row]
         \/ good' = good
  BY ShopConstants DEF ShopInv, ShopTypes, Shop!CreateItem, Shop!TakesId, Shop!NextId, Shop!CanInsert
<1>2. /\ row \in Shop!GoodRow /\ row.owner = g /\ row.tier = tier /\ row.status = "available"
      /\ next \in Shop!Goods /\ next \in 0 .. MaxItems /\ tier # "legendary"
  BY <1>1, NewGoodFits, ShopConstants
<1> HIDE DEF row
<1>3. ShopTypes'
  BY <1>1, <1>2 DEF ShopInv, ShopTypes
<1>4. GoodsConsistent'
  BY <1>1, <1>2, ShopConstants DEF ShopInv, ShopTypes, GoodsConsistent
<1>5. ListingsConsistent'
  BY <1>1, <1>2 DEF ShopInv, ShopTypes, ListingsConsistent
<1> QED BY <1>3, <1>4, <1>5 DEF ShopInv

LEMMA CreateListingKeeps ==
  ASSUME ShopInv, NEW g \in Guilds, NEW i \in Shop!Goods, NEW p \in Int, NEW l \in ListingIds,
         Shop!CreateListing(g, i, p, l)
  PROVE  ShopInv'
<1> DEFINE row == [item |-> i, seller |-> g, price |-> p, status |-> "open", buyer |-> Null,
                   soldAt |-> 0]
<1>1. /\ listing' = [listing EXCEPT ![l] = row] /\ good' = good /\ seq' = seq /\ good[i].owner = g
  BY DEF Shop!CreateListing
<1>2. /\ row \in Shop!ListingRow /\ row.item = i /\ row.seller = g
      /\ good[i].status # "absent"
  BY <1>1, ShopConstants DEF Shop!ListingRow, ShopInv, GoodsConsistent
<1> HIDE DEF row
<1>3. ShopTypes'
  BY <1>1, <1>2 DEF ShopInv, ShopTypes
<1>4. GoodsConsistent' /\ ListingsConsistent'
  BY <1>1, <1>2 DEF ShopInv, ShopTypes, GoodsConsistent, ListingsConsistent
<1> QED BY <1>3, <1>4 DEF ShopInv

(* What a purchase finds. *)
LEMMA BuyFinds ==
  ASSUME ShopInv, NEW g \in Guilds, NEW l \in ListingIds, NEW t, NEW u, NEW s,
         Shop!Buy(g, l, t, u, s)
  PROVE  LET row == listing[l]
         IN  /\ row.item \in Shop!Goods /\ row.seller \in Guilds /\ row.seller # g
             /\ row.price \in Int /\ CanDebit(wallets, g, row.price) /\ CanCredit(row.price)
             /\ good[row.item] \in Shop!GoodRow /\ good[row.item].status # "absent"
             /\ good[row.item].owner \in Guilds /\ good[row.item].tier # "legendary"
<1>1. listing[l].status = "open" /\ listing[l] \in Shop!ListingRow
  BY DEF Shop!Buy, ShopInv, ShopTypes
<1>2. /\ listing[l].item \in Shop!Goods /\ listing[l].seller \in Guilds /\ listing[l].price \in Int
      /\ good[listing[l].item].status # "absent"
  BY <1>1 DEF ShopInv, ListingsConsistent, Shop!ListingRow
<1>3. /\ listing[l].seller # g /\ Shop!CanDebit(wallets, g, listing[l].price)
      /\ Shop!CanCredit(listing[l].price)
  BY DEF Shop!Buy
<1> QED BY <1>2, <1>3, SameMovements DEF ShopInv, ShopTypes, GoodsConsistent

(* A sale changes neither the owner nor the tier of the seller's item. *)
LEMMA UnitTaken ==
  ASSUME NEW i, good[i] \in Shop!GoodRow
  PROVE  /\ Shop!TakeUnit(i) \in Shop!GoodRow
         /\ Shop!TakeUnit(i).owner = good[i].owner /\ Shop!TakeUnit(i).tier = good[i].tier
         /\ good[i].status # "absent" => Shop!TakeUnit(i).status # "absent"
<1> DEFINE x == good[i]
           left == IF x.stock = 1 THEN "sold" ELSE x.status
           y == [x EXCEPT !.stock = x.stock - 1]
           z == [y EXCEPT !.status = left]
<1>1. x \in Shop!GoodRow /\ Shop!TakeUnit(i) = [x EXCEPT !.stock = x.stock - 1, !.status = left]
  BY DEF Shop!TakeUnit
<1> HIDE DEF x
<1>2. left \in {"absent", "available", "sold"} /\ (x.status # "absent" => left # "absent")
  BY <1>1 DEF Shop!GoodRow
<1> HIDE DEF left
<1>3. Shop!TakeUnit(i) = z
  BY <1>1 DEF Shop!GoodRow
<1>4. y \in Shop!GoodRow /\ y.tier = x.tier /\ y.owner = x.owner
  BY <1>1 DEF Shop!GoodRow
<1> HIDE DEF y
<1>5. z \in Shop!GoodRow /\ z.tier = x.tier /\ z.owner = x.owner /\ z.status = left
  BY <1>2, <1>4 DEF Shop!GoodRow
<1> QED BY <1>2, <1>3, <1>5 DEF x

LEMMA BuyKeeps ==
  ASSUME ShopInv, NEW g \in Guilds, NEW l \in ListingIds,
         NEW t \in 0 .. now, NEW u \in 0 .. now, NEW s \in 0 .. now, now \in Nat,
         Shop!Buy(g, l, t, u, s)
  PROVE  ShopInv'
<1> DEFINE i == listing[l].item
           old == good[i]
           next == seq + 1
           row == Shop!NewGood(old.product, old.tier, g, 1)
           left == Shop!TakeUnit(i)
<1>1. /\ i \in Shop!Goods /\ old \in Shop!GoodRow /\ old.status # "absent"
      /\ old.owner \in Guilds /\ old.tier # "legendary"
  BY BuyFinds
<1>2. /\ seq \in 0 .. MaxItems /\ seq < MaxItems /\ seq' = next
      /\ \/ /\ good[next].status = "absent"
            /\ good' = [good EXCEPT ![i] = left, ![next] = row]
            /\ listing' = Shop!MarkSold(l, g, s)
         \/ good' = good /\ listing' = listing
  BY ShopConstants DEF ShopInv, ShopTypes, Shop!Buy, Shop!TakesId, Shop!NextId, Shop!CanInsert
<1>3. next \in Shop!Goods /\ next \in 0 .. MaxItems
  BY <1>2, ShopConstants
<1>4. row \in Shop!GoodRow /\ row.owner = g /\ row.tier = old.tier /\ row.status = "available"
  <2>1. old.product \in Products \cup {Null} /\ old.tier \in Shop!Tiers \cup {Null}
    BY <1>1 DEF Shop!GoodRow
  <2> QED BY <2>1, NewGoodFits
<1>5. /\ left \in Shop!GoodRow /\ left.owner = old.owner /\ left.tier = old.tier
      /\ left.status # "absent"
  BY <1>1, UnitTaken
<1>6. CASE good' = good /\ listing' = listing
  <2>1. ShopTypes' /\ ListingsConsistent'
    BY <1>2, <1>3, <1>6 DEF ShopInv, ShopTypes, ListingsConsistent
  <2>2. GoodsConsistent'
    BY <1>2, <1>3, <1>6, ShopConstants DEF ShopInv, GoodsConsistent
  <2> QED BY <2>1, <2>2 DEF ShopInv
<1>7. CASE /\ good[next].status = "absent"
           /\ good' = [good EXCEPT ![i] = left, ![next] = row]
           /\ listing' = Shop!MarkSold(l, g, s)
  <2>1. s \in Nat /\ good \in [Shop!Goods -> Shop!GoodRow]
        /\ listing \in [ListingIds -> Shop!ListingRow]
    BY DEF ShopInv, ShopTypes
  <2> HIDE DEF row, left, next
  <2>2. /\ good' \in [Shop!Goods -> Shop!GoodRow]
        /\ \A j \in Shop!Goods : good'[j] = IF j = next THEN row ELSE IF j = i THEN left ELSE good[j]
    BY <1>1, <1>3, <1>4, <1>5, <1>7, <2>1
  <2>3. /\ listing'[l] = [listing[l] EXCEPT !.status = "sold", !.buyer = g, !.soldAt = s]
        /\ DOMAIN listing' = ListingIds /\ listing' = [k \in ListingIds |-> listing'[k]]
        /\ \A k \in ListingIds : k # l => listing'[k] = listing[k]
    BY <1>7, <2>1 DEF Shop!MarkSold, Shop!ListingRow
  <2>4. /\ listing'[l] \in Shop!ListingRow /\ listing'[l].item = i
        /\ listing'[l].seller = listing[l].seller
    <3> DEFINE r == listing[l]
    <3>1. r \in Shop!ListingRow /\ i = r.item /\ listing'[l] = [r EXCEPT !.status = "sold", !.buyer = g, !.soldAt = s]
      BY <2>1, <2>3
    <3> HIDE DEF r, i
    <3>2. listing'[l] = [item |-> r.item, seller |-> r.seller, price |-> r.price,
                         status |-> "sold", buyer |-> g, soldAt |-> s]
      BY <3>1 DEF Shop!ListingRow
    <3>3. listing'[l] \in Shop!ListingRow
      BY <2>1, <3>1, <3>2 DEF Shop!ListingRow
    <3> QED BY <3>1, <3>2, <3>3 DEF r
  <2>5. ShopTypes'
    BY <1>2, <1>3, <2>1, <2>2, <2>3, <2>4 DEF ShopTypes, next
  <2>6. GoodsConsistent'
    <3>1. seq' = next /\ seq <= next /\ next <= next /\ seq \in Int /\ next \in Int
      BY <1>2, <1>3 DEF next
    <3>2. ASSUME NEW j \in Shop!Goods
          PROVE  /\ good'[j].status = "absent" => good'[j].owner = Null
                 /\ good'[j].status # "absent" =>
                      /\ good'[j].owner \in Guilds /\ good'[j].tier # "legendary"
                      /\ j <= seq' \/ j \in DOMAIN SeedGoods
      <4>1. CASE j = next
        BY <1>1, <1>4, <2>2, <3>1, <4>1
      <4>2. CASE j # next
        <5>1. j \in Int
          BY ShopConstants
        <5>2. CASE j = i
          <6>1. good'[j] = left
            BY <2>2, <4>2, <5>2
          <6>2. j <= seq \/ j \in DOMAIN SeedGoods
            BY <1>1, <5>2 DEF ShopInv, GoodsConsistent
          <6> QED BY <1>1, <1>2, <1>3, <1>5, <3>1, <5>1, <6>1, <6>2
        <5>3. CASE j # i
          <6>1. good'[j] = good[j]
            BY <2>2, <4>2, <5>3
          <6> QED BY <1>2, <3>1, <5>1, <6>1 DEF ShopInv, GoodsConsistent
        <5> QED BY <5>2, <5>3
      <4> QED BY <4>1, <4>2
    <3> QED BY <3>2 DEF GoodsConsistent
  <2>7. ListingsConsistent'
    <3>1. ASSUME NEW k \in ListingIds, listing'[k].status # "absent"
          PROVE  /\ listing'[k].item \in Shop!Goods /\ listing'[k].seller \in Guilds
                 /\ good'[listing'[k].item].status # "absent"
      <4>1. /\ listing'[k].item = listing[k].item /\ listing'[k].seller = listing[k].seller
            /\ listing[k].status # "absent"
        BY <2>3, <2>4, <3>1 DEF Shop!Buy
      <4>2. /\ listing[k].item \in Shop!Goods /\ listing[k].seller \in Guilds
            /\ good[listing[k].item].status # "absent"
        BY <4>1 DEF ShopInv, ListingsConsistent
      <4> QED BY <1>4, <1>5, <2>2, <4>1, <4>2
    <3> QED BY <3>1 DEF ListingsConsistent
  <2> QED BY <2>5, <2>6, <2>7 DEF ShopInv
<1> QED BY <1>2, <1>6, <1>7

(* The fixed-price flow keeps its tables consistent. *)
LEMMA TradeKeeps ==
  ASSUME ShopInv, now \in Nat, Shop!Trade
  PROVE  ShopInv'
<1>1. CASE Shop!Seed
  BY <1>1, SeedKeeps
<1>2. ASSUME NEW g \in Guilds, NEW p \in Products, NEW tier \in NewTiers, NEW n \in Stocks,
             Shop!CreateItem(g, p, tier, n)
      PROVE  ShopInv'
  BY <1>2, CreateItemKeeps, ShopConstants
<1>3. ASSUME NEW g \in Guilds, NEW i \in Shop!Goods, NEW p \in Prices, NEW l \in ListingIds,
             Shop!CreateListing(g, i, p, l)
      PROVE  ShopInv'
  BY <1>3, CreateListingKeeps, ShopConstants
<1>4. ASSUME NEW g \in Guilds, NEW l \in ListingIds, NEW t \in 0 .. now, NEW u \in 0 .. now,
             NEW s \in 0 .. now, Shop!Buy(g, l, t, u, s)
      PROVE  ShopInv'
  BY <1>4, BuyKeeps
<1> QED BY <1>1, <1>2, <1>3, <1>4 DEF Shop!Trade
-----------------------------------------------------------------------------
(* What a purchase of price p by guild g does to the wallets. *)
Sale(g, seller, p) ==
  /\ p \in Int /\ p > 0 /\ g \in Guilds /\ seller \in Guilds /\ seller # g
  /\ wallets.reserved[g] + p <= wallets.total[g]
  /\ wallets' \in WalletsType
  /\ \A h \in Guilds :
       /\ wallets'.reserved[h] = wallets.reserved[h]
       /\ wallets'.total[h] = IF h = g THEN wallets.total[h] - p
                              ELSE IF h = seller THEN wallets.total[h] + p
                              ELSE wallets.total[h]
  /\ \A h \in Guilds, k \in LedgerKinds :
       wallets'.ledger[h][k] = wallets.ledger[h][k] +
         (IF (h = g /\ k = "debit_listing") \/ (h = seller /\ k = "credit_listing") THEN p ELSE 0)

(* No purchase wraps around, whatever its buyer has reserved for bids. *)
LEMMA BuySells ==
  ASSUME CoreInv, ShopInv, NEW g \in Guilds, NEW l \in ListingIds, NEW t, NEW u, NEW s,
         Shop!Buy(g, l, t, u, s)
  PROVE  wallets' = wallets \/ Sale(g, listing[l].seller, listing[l].price)
<1> DEFINE p == listing[l].price
           seller == listing[l].seller
           paid == Debit(wallets, g, p, "debit_listing")
           moved == Credit(paid, seller, p, "credit_listing")
<1>1. /\ seller \in Guilds /\ seller # g /\ p \in Int
      /\ CanDebit(wallets, g, p) /\ CanCredit(p) /\ wallets \in WalletsType
  BY BuyFinds DEF CoreInv, TypeOK
<1>2. wallets' = wallets \/ wallets' = moved
  BY SameMovements DEF Shop!Buy
<1> SUFFICES ASSUME wallets' = moved PROVE Sale(g, seller, p)
  BY <1>2
<1>3. /\ RowSound(wallets, g) /\ wallets.total[g] \in Nat /\ wallets.total[seller] \in Nat
      /\ wallets.reserved[g] \in Nat
  BY <1>1, WalletBound DEF CoreInv
<1>4. wallets.total[g] + wallets.total[seller] < Half
  <2>1. wallets.total[g] + wallets.total[seller] <= Money
    BY <1>1, TwoBalances
  <2> QED BY <1>3, <2>1, MoneyNat, HalfAssumption
<1>k. "debit_listing" \in LedgerKinds /\ "credit_listing" \in LedgerKinds
  BY DEF LedgerKinds
<1>5. /\ paid \in WalletsType
      /\ paid.total = [wallets.total EXCEPT ![g] = wallets.total[g] - p]
      /\ paid.reserved = wallets.reserved
      /\ paid.ledger = Recorded(wallets, g, "debit_listing", p)
      /\ p > 0 /\ wallets.reserved[g] + p <= wallets.total[g]
  BY <1>1, <1>3, <1>k, DebitExact
<1>6. paid.total[seller] = wallets.total[seller]
  BY <1>1, <1>5 DEF WalletsType
<1>a. p \in Nat /\ p <= wallets.total[g]
  BY <1>1, <1>3, <1>5
<1> HIDE DEF paid, p, seller
<1>7. /\ moved \in WalletsType
      /\ moved.total = [paid.total EXCEPT ![seller] = paid.total[seller] + p]
      /\ moved.reserved = paid.reserved
      /\ moved.ledger = Recorded(paid, seller, "credit_listing", p)
  <2>1. 0 <= paid.total[seller] /\ paid.total[seller] + p < Half
    BY <1>3, <1>4, <1>6, <1>a, HalfAssumption
  <2>3. paid \in WalletsType /\ seller \in Guilds /\ p \in Int /\ CanCredit(p)
    BY <1>1, <1>5
  <2> QED BY <1>k, <2>1, <2>3, CreditExact
<1> HIDE DEF moved
<1>8. ASSUME NEW h \in Guilds
      PROVE  /\ moved.reserved[h] = wallets.reserved[h]
             /\ moved.total[h] = IF h = g THEN wallets.total[h] - p
                             ELSE IF h = seller THEN wallets.total[h] + p
                             ELSE wallets.total[h]
  BY <1>1, <1>5, <1>6, <1>7 DEF WalletsType
<1>9. ASSUME NEW h \in Guilds, NEW j \in LedgerKinds
      PROVE  moved.ledger[h][j] = wallets.ledger[h][j] +
               (IF (h = g /\ j = "debit_listing") \/ (h = seller /\ j = "credit_listing") THEN p ELSE 0)
  <2>1. wallets.ledger[h][j] \in Nat
    BY <1>1 DEF WalletsType
  <2>2. paid.ledger[h][j] =
          IF h = g /\ j = "debit_listing" THEN wallets.ledger[h][j] + p ELSE wallets.ledger[h][j]
    BY <1>1, <1>5, <1>a, <1>k, LedgerAfter
  <2>3. moved.ledger[h][j] =
          IF h = seller /\ j = "credit_listing" THEN paid.ledger[h][j] + p ELSE paid.ledger[h][j]
    BY <1>1, <1>5, <1>7, <1>a, <1>k, LedgerAfter
  <2>4. CASE j = "debit_listing"
    <3>1. j # "credit_listing"
      BY <2>4
    <3>2. moved.ledger[h][j] = IF h = g THEN wallets.ledger[h][j] + p ELSE wallets.ledger[h][j]
      BY <2>2, <2>3, <2>4, <3>1
    <3>3. ((h = g /\ j = "debit_listing") \/ (h = seller /\ j = "credit_listing")) <=> h = g
      BY <2>4, <3>1
    <3>4. CASE h = g
      BY <3>2, <3>3, <3>4
    <3>5. CASE h # g
      <4>1. moved.ledger[h][j] = wallets.ledger[h][j] + 0
        BY <2>1, <3>2, <3>5
      <4> QED BY <3>3, <3>5, <4>1
    <3> QED BY <3>4, <3>5
  <2>5. CASE j # "debit_listing"
    <3>1. moved.ledger[h][j] = IF h = seller /\ j = "credit_listing" THEN wallets.ledger[h][j] + p
                               ELSE wallets.ledger[h][j]
      BY <2>2, <2>3, <2>5
    <3> QED BY <1>a, <2>1, <2>5, <3>1
  <2> QED BY <2>4, <2>5
<1> QED BY <1>1, <1>5, <1>7, <1>8, <1>9 DEF Sale

(* A purchase leaves every reservation covered and no money is lost. *)
LEMMA SaleKeepsMarket ==
  ASSUME MarketInv, NEW g, NEW seller, NEW p, Sale(g, seller, p), UNCHANGED <<now, item, auction, bid>>
  PROVE  MarketInv'
<1>1. /\ CoreInv /\ OneOpen /\ HighestIsMax /\ NeverSettledEarly
      /\ TypeOK /\ RowsConsistent /\ ReservedBacked /\ WalletSound /\ MoneyConserved
  BY DEF MarketInv, CoreInv
<1>2. TypeOK' /\ RowsConsistent'
  BY <1>1 DEF TypeOK, RowsConsistent, Sale
<1>3. ReservedBacked'
  BY <1>1 DEF ReservedBacked, HeldBy, Sale
<1>4. \A h \in Guilds : wallets.total[h] \in Int /\ wallets.reserved[h] \in Int
                        /\ wallets'.total[h] \in Int
  BY <1>1, <1>2 DEF TypeOK, WalletsType
<1>5. WalletSound'
  BY <1>1, <1>4 DEF WalletSound, Sale
<1>6. MoneyConserved'
  <2> DEFINE f == wallets.total
             m == wallets'.total
  <2>1. /\ \A h \in Guilds : f[h] \in Int /\ m[h] \in Int
        /\ g \in Guilds /\ seller \in Guilds /\ g # seller /\ p \in Int
        /\ \A h \in Guilds \ {g, seller} : m[h] = f[h]
        /\ m[g] = f[g] - p /\ m[seller] = f[seller] + p
    BY <1>4 DEF Sale
  <2>2. IsFiniteSet(Guilds) /\ SumFunctionOnSet(f, Guilds) = Money
    BY <1>1, AuctionAssumption DEF MoneyConserved, Money
  <2> HIDE DEF f, m
  <2>3. SumFunctionOnSet(m, Guilds) = SumFunctionOnSet(f, Guilds) - f[g] - f[seller] + m[g] + m[seller]
    BY <2>1, <2>2, SumChangeTwo
  <2>4. f[g] \in Int /\ f[seller] \in Int /\ Money \in Int
    BY <2>1, MoneyNat
  <2>5. SumFunctionOnSet(m, Guilds) = Money
    BY <2>1, <2>2, <2>3, <2>4
  <2> QED BY <2>5 DEF MoneyConserved, Money, m
<1>7. OneOpen' /\ HighestIsMax' /\ NeverSettledEarly'
  BY <1>1 DEF OneOpen, HighestIsMax, NeverSettledEarly
<1> QED BY <1>2, <1>3, <1>5, <1>6, <1>7 DEF MarketInv, CoreInv

(* It is explained by its two ledger rows. *)
LEMMA SaleReconciles ==
  ASSUME TypeOK, MarketReconciles, NEW g, NEW seller, NEW p, Sale(g, seller, p)
  PROVE  MarketReconciles'
<1> SUFFICES ASSUME NEW h \in Guilds
             PROVE  LET l == wallets'.ledger[h]
                    IN  /\ wallets'.total[h] = InitTotal[h] + l["credit_auction"] - l["debit_auction"]
                                               + l["credit_listing"] - l["debit_listing"]
                        /\ wallets'.reserved[h] =
                             l["reserve_bid"] - l["release_bid"] - l["debit_auction"]
  BY DEF MarketReconciles
<1>1. /\ "reserve_bid" \in LedgerKinds /\ "release_bid" \in LedgerKinds
      /\ "debit_auction" \in LedgerKinds /\ "credit_auction" \in LedgerKinds
      /\ "debit_listing" \in LedgerKinds /\ "credit_listing" \in LedgerKinds
  BY DEF LedgerKinds
<1>2. /\ \A k \in LedgerKinds : wallets.ledger[h][k] \in Int
      /\ wallets.total[h] \in Int /\ wallets.reserved[h] \in Int /\ InitTotal[h] \in Int
  BY GuildsAssumption DEF TypeOK, WalletsType
<1>3. LET l == wallets.ledger[h]
          m == wallets'.ledger[h]
      IN  /\ m["credit_auction"] = l["credit_auction"] /\ m["debit_auction"] = l["debit_auction"]
          /\ m["reserve_bid"] = l["reserve_bid"] /\ m["release_bid"] = l["release_bid"]
          /\ m["debit_listing"] = l["debit_listing"] + (IF h = g THEN p ELSE 0)
          /\ m["credit_listing"] = l["credit_listing"] + (IF h = seller THEN p ELSE 0)
  <2>1. p \in Int /\ \A k \in LedgerKinds :
          wallets'.ledger[h][k] = wallets.ledger[h][k] +
            (IF (h = g /\ k = "debit_listing") \/ (h = seller /\ k = "credit_listing") THEN p ELSE 0)
    BY DEF Sale
  <2>2. ASSUME NEW k \in LedgerKinds, k \notin {"debit_listing", "credit_listing"}
        PROVE  wallets'.ledger[h][k] = wallets.ledger[h][k]
    <3>1. wallets'.ledger[h][k] = wallets.ledger[h][k] + 0
      BY <2>1, <2>2
    <3> QED BY <1>2, <3>1
  <2>3. wallets'.ledger[h]["debit_listing"] =
          wallets.ledger[h]["debit_listing"] + (IF h = g THEN p ELSE 0)
    BY <1>1, <2>1
  <2>4. wallets'.ledger[h]["credit_listing"] =
          wallets.ledger[h]["credit_listing"] + (IF h = seller THEN p ELSE 0)
    <3>1. wallets'.ledger[h]["credit_listing"] = wallets.ledger[h]["credit_listing"] +
            (IF (h = g /\ "credit_listing" = "debit_listing")
                \/ (h = seller /\ "credit_listing" = "credit_listing") THEN p ELSE 0)
      BY <1>1, <2>1
    <3>2. "credit_listing" # "debit_listing"
      OBVIOUS
    <3> QED BY <3>1, <3>2
  <2>5. /\ wallets'.ledger[h]["credit_auction"] = wallets.ledger[h]["credit_auction"]
        /\ wallets'.ledger[h]["debit_auction"] = wallets.ledger[h]["debit_auction"]
        /\ wallets'.ledger[h]["reserve_bid"] = wallets.ledger[h]["reserve_bid"]
        /\ wallets'.ledger[h]["release_bid"] = wallets.ledger[h]["release_bid"]
    BY <1>1, <2>2
  <2> QED BY <2>3, <2>4, <2>5
<1> QED BY <1>1, <1>2, <1>3 DEF MarketReconciles, Sale
-----------------------------------------------------------------------------
(* A step of the market is one of the auction flow, which leaves the tables *)
(* of the fixed-price flow alone, or one of the latter.                     *)
LEMMA TwoFlows ==
  ASSUME [MarketNext]_marketvars
  PROVE  \/ [Next]_vars /\ UNCHANGED shopTables
         \/ Shop!Trade /\ UNCHANGED houseTables
  BY DEF MarketNext, marketvars, Deal, Next, vars, shopTables

(* What a step of the fixed-price flow does to the tables both flows share. *)
LEMMA TradeSells ==
  ASSUME CoreInv, ShopInv, Shop!Trade
  PROVE  /\ now' = now
         /\ wallets' = wallets \/ \E g, seller, p : Sale(g, seller, p)
<1>1. CASE Shop!Seed
  BY <1>1 DEF Shop!Seed
<1>2. ASSUME NEW g \in Guilds, NEW p \in Products, NEW tier \in NewTiers, NEW n \in Stocks,
             Shop!CreateItem(g, p, tier, n)
      PROVE  now' = now /\ wallets' = wallets
  BY <1>2 DEF Shop!CreateItem
<1>3. ASSUME NEW g \in Guilds, NEW i \in Shop!Goods, NEW p \in Prices, NEW l \in ListingIds,
             Shop!CreateListing(g, i, p, l)
      PROVE  now' = now /\ wallets' = wallets
  BY <1>3 DEF Shop!CreateListing
<1>4. ASSUME NEW g \in Guilds, NEW l \in ListingIds, NEW t \in 0 .. now, NEW u \in 0 .. now,
             NEW s \in 0 .. now, Shop!Buy(g, l, t, u, s)
      PROVE  /\ now' = now
             /\ wallets' = wallets \/ \E h, seller, p : Sale(h, seller, p)
  <2>1. wallets' = wallets \/ Sale(g, listing[l].seller, listing[l].price)
    BY <1>4, BuySells
  <2>2. now' = now
    BY <1>4 DEF Shop!Buy
  <2> QED BY <2>1, <2>2
<1> QED BY <1>1, <1>2, <1>3, <1>4 DEF Shop!Trade

(* A trade that moves money is a sale of the listing it closes. *)
LEMMA MoneySells ==
  ASSUME CoreInv, ShopInv, Shop!Trade, wallets' # wallets
  PROVE  \E l \in ListingIds, g \in Guilds :
           Shop!Sells(l, listing[l].seller, g) /\ Sale(g, listing[l].seller, listing[l].price)
<1>1. PICK g \in Guilds, l \in ListingIds, t \in 0 .. now, u \in 0 .. now, s \in 0 .. now :
        Shop!Buy(g, l, t, u, s)
  BY DEF Shop!Trade, Shop!Seed, Shop!CreateItem, Shop!CreateListing
<1>2. Sale(g, listing[l].seller, listing[l].price)
  BY <1>1, BuySells
<1>3. listing[l].status = "open" /\ listing' = Shop!MarkSold(l, g, s)
  BY <1>1 DEF Shop!Buy
<1>4. listing \in [ListingIds -> Shop!ListingRow]
  BY DEF ShopInv, ShopTypes
<1>5. listing'[l].status = "sold" /\ listing'[l].buyer = g
  BY <1>3, <1>4 DEF Shop!MarkSold, Shop!ListingRow
<1> QED BY <1>2, <1>3, <1>5 DEF Shop!Sells

(* A settled auction names its leader as the winner. *)
WinnersLead ==
  \A a \in Auctions : auction[a].status = "settled" /\ auction[a].highest # Null =>
    auction[a].winner = bid[auction[a].highest].bidder

WholeInv == MarketInv /\ MarketReconciles /\ WinnersLead /\ ShopInv

(* Auctions and bids are never deleted, and a bid stays the bid of the same *)
(* guild on the same auction for the same amount.                           *)
RowsRemain ==
  /\ \A a \in Auctions : auction[a].status # "absent" => auction'[a].status # "absent"
  /\ \A b \in Bids : bid[b].status # "absent" =>
       /\ bid'[b].status # "absent"
       /\ bid'[b].auction = bid[b].auction /\ bid'[b].bidder = bid[b].bidder
       /\ bid'[b].amount = bid[b].amount

LEMMA HouseRemembers ==
  ASSUME CoreInv, [Next]_vars
  PROVE  RowsRemain
<1>0. /\ auction \in [Auctions -> AuctionRow] /\ bid \in [Bids -> BidRow] /\ RowsConsistent
      /\ Null \notin Bids
  BY AuctionAssumption DEF CoreInv, TypeOK
<1>1. ASSUME NEW g \in Guilds, NEW i \in Items, NEW a \in Auctions, NEW t \in 0 .. now,
             CreateAuction(g, i, a, t)
      PROVE  RowsRemain
  BY <1>0, <1>1 DEF CreateAuction, RowsRemain
<1>2. ASSUME NEW a \in Auctions, NEW g \in Guilds, NEW x \in Amounts, NEW b \in Bids,
             NEW t \in 0 .. now, PlaceBid(a, g, x, b, t)
      PROVE  RowsRemain
  <2>1. PlaceBidTables(a, g, x, b, t)
    BY <1>2, PlaceBidRows
  <2>2. auction[a].highest # Null => bid[auction[a].highest].auction = a
    BY <1>0 DEF RowsConsistent
  <2>3. \A c \in Auctions : auction[c].status # "absent" => auction'[c].status # "absent"
    BY <2>1 DEF PlaceBidTables
  <2>4. ASSUME NEW d \in Bids, bid[d].status # "absent"
        PROVE  /\ bid'[d].status # "absent"
               /\ bid'[d].auction = bid[d].auction /\ bid'[d].bidder = bid[d].bidder
               /\ bid'[d].amount = bid[d].amount
    <3>1. d # b
      BY <2>1, <2>4 DEF PlaceBidTables
    <3>2. CASE d = auction[a].highest
      BY <1>0, <2>1, <2>2, <3>2 DEF PlaceBidTables
    <3>3. CASE d # auction[a].highest
      BY <2>1, <2>4, <3>1, <3>3 DEF PlaceBidTables
    <3> QED BY <3>2, <3>3
  <2> QED BY <2>3, <2>4 DEF RowsRemain
<1>3. ASSUME NEW a \in Auctions, NEW b \in Bids, NEW g \in Guilds, CancelBid(a, b, g)
      PROVE  RowsRemain
  <2>1. /\ auction' = auction /\ bid' = [bid EXCEPT ![b].status = "cancelled"]
    BY <1>3, CancelBidEffect
  <2>2. /\ bid'[b] = [auction |-> bid[b].auction, bidder |-> bid[b].bidder,
                      amount |-> bid[b].amount, status |-> "cancelled"]
        /\ \A d \in Bids : d # b => bid'[d] = bid[d]
    BY <1>0, <2>1 DEF BidRow
  <2> QED BY <2>1, <2>2 DEF RowsRemain
<1>4. ASSUME NEW a \in Auctions, NEW t \in 0 .. now, SettleAuction(a, t)
      PROVE  RowsRemain
  <2>1. SettleTables(a, t)
    BY <1>4, SettleRows
  <2>2. auction[a].highest # Null => bid[auction[a].highest].auction = a
    BY <1>0 DEF RowsConsistent
  <2>3. \A c \in Auctions : auction[c].status # "absent" => auction'[c].status # "absent"
    BY <2>1 DEF SettleTables
  <2>4. ASSUME NEW d \in Bids, bid[d].status # "absent"
        PROVE  /\ bid'[d].status # "absent"
               /\ bid'[d].auction = bid[d].auction /\ bid'[d].bidder = bid[d].bidder
               /\ bid'[d].amount = bid[d].amount
    <3>1. CASE d = auction[a].highest
      BY <1>0, <2>1, <2>2, <3>1 DEF SettleTables
    <3>2. CASE d # auction[a].highest
      BY <2>1, <2>4, <3>2 DEF SettleTables
    <3> QED BY <3>1, <3>2
  <2> QED BY <2>3, <2>4 DEF RowsRemain
<1>5. CASE Tick \/ UNCHANGED vars
  BY <1>5 DEF Tick, vars, RowsRemain
<1> QED BY <1>1, <1>2, <1>3, <1>4, <1>5 DEF Next

(* Winners stay the leaders of their auctions. *)
LEMMA WinnersStep ==
  ASSUME CoreInv, WinnersLead, [Next]_vars
  PROVE  WinnersLead'
<1> SUFFICES ASSUME NEW c \in Auctions, auction'[c].status = "settled", auction'[c].highest # Null
             PROVE  auction'[c].winner = bid'[auction'[c].highest].bidder
  BY DEF WinnersLead
<1>0. /\ auction \in [Auctions -> AuctionRow] /\ bid \in [Bids -> BidRow] /\ RowsConsistent
      /\ Null \notin Auctions
  BY AuctionAssumption DEF CoreInv, TypeOK
<1>1. CASE auction[c].status = "settled"
  <2>1. auction'[c] = auction[c] /\ \A d \in Bids : bid[d].auction = c => bid'[d] = bid[d]
    BY <1>1, SettledFinal
  <2>2. auction[c].highest \in Bids /\ bid[auction[c].highest].auction = c
    BY <1>0, <2>1 DEF AuctionRow, RowsConsistent
  <2> QED BY <1>1, <2>1, <2>2 DEF WinnersLead
<1>2. CASE auction[c].status # "settled"
  <2>1. ASSUME NEW g \in Guilds, NEW i \in Items, NEW a \in Auctions, NEW t \in 0 .. now,
               CreateAuction(g, i, a, t)
        PROVE  FALSE
    BY <1>0, <1>2, <2>1 DEF CreateAuction
  <2>2. ASSUME NEW a \in Auctions, NEW g \in Guilds, NEW x \in Amounts, NEW b \in Bids,
               NEW t \in 0 .. now, PlaceBid(a, g, x, b, t)
        PROVE  FALSE
    <3>1. PlaceBidTables(a, g, x, b, t)
      BY <2>2, PlaceBidRows
    <3> QED BY <1>2, <3>1 DEF PlaceBidTables
  <2>3. ASSUME NEW a \in Auctions, NEW b \in Bids, NEW g \in Guilds, CancelBid(a, b, g)
        PROVE  FALSE
    BY <1>2, <2>3 DEF CancelBid
  <2>4. ASSUME NEW a \in Auctions, NEW t \in 0 .. now, SettleAuction(a, t)
        PROVE  auction'[c].winner = bid'[auction'[c].highest].bidder
    <3>1. SettleTables(a, t)
      BY <2>4, SettleRows
    <3>2. c = a
      BY <1>2, <3>1 DEF SettleTables
    <3> QED BY <3>1, <3>2 DEF SettleTables
  <2>5. CASE Tick \/ UNCHANGED vars
    BY <1>2, <2>5 DEF Tick, vars
  <2> QED BY <2>1, <2>2, <2>3, <2>4, <2>5 DEF Next
<1> QED BY <1>1, <1>2

(* The auction flow adds the ledger rows that explain what it moves. *)
LEMMA HouseReconciles ==
  ASSUME CoreInv, MarketReconciles, [Next]_vars
  PROVE  MarketReconciles'
<1>1. wallets \in WalletsType /\ wallets' \in WalletsType
  BY NextCore DEF CoreInv, TypeOK
<1>2. /\ "reserve_bid" \in LedgerKinds /\ "release_bid" \in LedgerKinds
      /\ "debit_auction" \in LedgerKinds /\ "credit_auction" \in LedgerKinds
      /\ "debit_listing" \in LedgerKinds /\ "credit_listing" \in LedgerKinds
  BY DEF LedgerKinds
<1> SUFFICES ASSUME NEW h \in Guilds
             PROVE  LET l == wallets'.ledger[h]
                    IN  /\ wallets'.total[h] = InitTotal[h] + l["credit_auction"] - l["debit_auction"]
                                               + l["credit_listing"] - l["debit_listing"]
                        /\ wallets'.reserved[h] =
                             l["reserve_bid"] - l["release_bid"] - l["debit_auction"]
  BY DEF MarketReconciles
<1>3. \A k \in LedgerKinds : wallets.ledger[h][k] \in Int /\ wallets'.ledger[h][k] \in Int
  BY <1>1 DEF WalletsType
<1>4. LedgerExplains(h) /\ InitTotal[h] \in Int
  BY LedgerMoves, GuildsAssumption
<1> QED BY <1>2, <1>3, <1>4 DEF MarketReconciles, LedgerExplains

(* Every step of the market keeps the whole of it consistent. *)
LEMMA MarketStep ==
  ASSUME WholeInv, [MarketNext]_marketvars
  PROVE  WholeInv' /\ RowsRemain
<1>0. MarketInv /\ CoreInv /\ MarketReconciles /\ WinnersLead /\ ShopInv /\ TypeOK /\ now \in Nat
  BY DEF WholeInv, MarketInv, CoreInv, TypeOK, Time
<1>1. CASE [Next]_vars /\ UNCHANGED shopTables
  <2>1. MarketInv' /\ MarketReconciles' /\ WinnersLead' /\ RowsRemain
    BY <1>0, <1>1, HouseStep, HouseReconciles, WinnersStep, HouseRemembers
  <2>2. ShopInv'
    BY <1>0, <1>1 DEF shopTables, ShopInv, ShopTypes, GoodsConsistent, ListingsConsistent
  <2> QED BY <2>1, <2>2 DEF WholeInv
<1>2. CASE Shop!Trade /\ UNCHANGED houseTables
  <2>1. ShopInv' /\ now' = now /\ item' = item /\ auction' = auction /\ bid' = bid
    BY <1>0, <1>2, TradeKeeps, TradeSells DEF houseTables
  <2>2. WinnersLead' /\ RowsRemain
    BY <1>0, <2>1 DEF WinnersLead, RowsRemain
  <2>3. CASE wallets' = wallets
    <3>1. [Next]_vars
      BY <2>1, <2>3 DEF vars
    <3> QED BY <1>0, <2>1, <2>2, <3>1, HouseStep, HouseReconciles DEF WholeInv
  <2>4. ASSUME NEW g, NEW seller, NEW p, Sale(g, seller, p)
        PROVE  MarketInv' /\ MarketReconciles'
    BY <1>0, <2>1, <2>4, SaleKeepsMarket, SaleReconciles
  <2> QED BY <1>0, <1>2, <2>1, <2>2, <2>3, <2>4, TradeSells DEF WholeInv
<1> QED BY <1>1, <1>2, TwoFlows

LEMMA MarketInitial == MarketInit => WholeInv
<1> SUFFICES ASSUME MarketInit PROVE WholeInv
  OBVIOUS
<1>1. Init /\ Shop!ListingsInit
  BY DEF MarketInit
<1>2. MarketInv
  BY <1>1, HouseInitial
<1>3. MarketReconciles
  BY <1>1, GuildsAssumption DEF Init, WalletsInit, MarketReconciles, LedgerKinds
<1>4. WinnersLead
  BY <1>1 DEF Init, NoAuction, WinnersLead
<1>5. ShopTypes
  <2>1. Shop!NoGood \in Shop!GoodRow /\ Shop!NoListing \in Shop!ListingRow
    BY DEF Shop!NoGood, Shop!GoodRow, Shop!NoListing, Shop!ListingRow
  <2>2. 0 \in 0 .. MaxItems
    BY ShopConstants
  <2> QED BY <1>1, <2>1, <2>2 DEF Shop!ListingsInit, ShopTypes
<1>6. GoodsConsistent /\ ListingsConsistent
  BY <1>1 DEF Shop!ListingsInit, Shop!NoGood, Shop!NoListing, GoodsConsistent, ListingsConsistent
<1> QED BY <1>2, <1>3, <1>4, <1>5, <1>6 DEF WholeInv, ShopInv

(* The invariants of the auction flow and the fixed-price flow hold of the *)
(* market that runs both over the same wallets.                            *)
THEOREM WholeInvariant == MarketSpec => []WholeInv
<1>1. WholeInv /\ [MarketNext]_marketvars => WholeInv'
  BY MarketStep
<1> QED BY <1>1, MarketInitial, PTL DEF MarketSpec

(* In every reachable state of the market the ledger explains every wallet: *)
(* purchases and auctions never lose each other's change to a row.          *)
THEOREM MarketAlwaysReconciles == MarketSpec => []MarketReconciles
<1>1. WholeInv => MarketReconciles
  BY DEF WholeInv
<1> QED BY <1>1, WholeInvariant, PTL

(* Whose balance a step of the market moves, and by how much. *)
LEMMA BalanceStep ==
  ASSUME WholeInv, [MarketNext]_marketvars, NEW g \in Guilds,
         wallets'.total[g] - wallets.total[g] # 0
  PROVE  \/ \E a \in Auctions :
              LET paid == bid[auction[a].highest].amount
              IN  /\ auction[a].status = "active" /\ auction'[a].status = "settled"
                  /\ \/ g = auction'[a].winner /\ wallets'.total[g] - wallets.total[g] = -paid
                     \/ g = auction[a].seller /\ wallets'.total[g] - wallets.total[g] = paid
         \/ \E l \in ListingIds, seller, buyer \in Guilds :
              LET price == listing[l].price
              IN  /\ Shop!Sells(l, seller, buyer)
                  /\ \/ g = buyer /\ wallets'.total[g] - wallets.total[g] = -price
                     \/ g = seller /\ wallets'.total[g] - wallets.total[g] = price
<1>1. CoreInv /\ ShopInv /\ CoreInv'
  BY MarketStep DEF WholeInv, MarketInv
<1>2. wallets.total[g] \in Int /\ wallets'.total[g] \in Int
  BY <1>1 DEF CoreInv, TypeOK, WalletsType
<1>3. wallets'.total[g] # wallets.total[g]
  BY <1>2
<1>4. CASE [Next]_vars
  <2>1. PICK a \in Auctions :
          LET paid == bid[auction[a].highest].amount
          IN  /\ auction[a].status = "active" /\ auction'[a].status = "settled"
              /\ auction'[a].seller = auction[a].seller /\ paid \in Int
              /\ \/ g = auction'[a].winner /\ wallets'.total[g] = wallets.total[g] - paid
                 \/ g = auction[a].seller /\ wallets'.total[g] = wallets.total[g] + paid
    BY <1>1, <1>3, <1>4, PayStep
  <2> QED BY <1>2, <2>1
<1>5. CASE Shop!Trade
  <2>1. PICK l \in ListingIds, h \in Guilds :
          Shop!Sells(l, listing[l].seller, h) /\ Sale(h, listing[l].seller, listing[l].price)
    BY <1>1, <1>3, <1>5, MoneySells
  <2> DEFINE price == listing[l].price
  <2>2. /\ listing[l].seller \in Guilds /\ price \in Int
        /\ wallets'.total[g] = IF g = h THEN wallets.total[g] - price
                               ELSE IF g = listing[l].seller THEN wallets.total[g] + price
                               ELSE wallets.total[g]
    BY <2>1 DEF Sale
  <2> HIDE DEF price
  <2>3. \/ g = h /\ wallets'.total[g] - wallets.total[g] = -price
        \/ g = listing[l].seller /\ wallets'.total[g] - wallets.total[g] = price
    BY <1>2, <1>3, <2>2
  <2> QED BY <2>1, <2>2, <2>3 DEF price
<1> QED BY <1>4, <1>5, TwoFlows

(* A balance changes only as one side of one settlement or one sale, by its *)
(* price, whatever auctions and purchases the guild is a party to.          *)
THEOREM MoneyAlwaysTraded == MarketSpec => MoneyMovesByTrade
<1> DEFINE Traded ==
      \A g \in Guilds :
        LET gained == wallets'.total[g] - wallets.total[g]
            Trades(buyer, seller, price) ==
              \/ g = buyer /\ gained = -price
              \/ g = seller /\ gained = price
        IN  gained # 0 =>
              \/ \E a \in Auctions :
                   /\ auction[a].status = "active" /\ auction'[a].status = "settled"
                   /\ Trades(auction'[a].winner, auction[a].seller, bid[auction[a].highest].amount)
              \/ \E l \in ListingIds, seller, buyer \in Guilds :
                   /\ Shop!Sells(l, seller, buyer)
                   /\ Trades(buyer, seller, listing[l].price)
<1>1. ASSUME WholeInv, [MarketNext]_marketvars PROVE Traded
  BY <1>1, BalanceStep
<1>2. WholeInv /\ [MarketNext]_marketvars => [Traded]_marketvars
  BY <1>1
<1> QED BY <1>2, WholeInvariant, PTL DEF MarketSpec, MoneyMovesByTrade

(* A step of the fixed-price flow is none of an auction, so that the rules  *)
(* of the auctions hold in the market: raises of 5%, no sniping, and an     *)
(* item given only against the money.                                       *)
THEOREM MarketKeepsRules ==
  MarketSpec => RaisedByFivePercent /\ AntiSnipe /\ TransferWithPayment
<1> DEFINE Raised ==
      \A a \in Auctions :
        LET old == auction[a].highest
            new == auction'[a].highest
        IN  new # old /\ old # Null => 100 * bid'[new].amount >= 105 * bid[old].amount
    Timed ==
      \A a \in Auctions : auction[a].status = "active" =>
        LET t == auction'[a].updatedAt
        IN  /\ auction'[a].highest # auction[a].highest =>
                  /\ t < auction[a].endsAt
                  /\ auction'[a].endsAt >= t + Extension
            /\ auction'[a].endsAt # auction[a].endsAt =>
                  /\ auction'[a].highest # auction[a].highest
                  /\ auction'[a].endsAt > auction[a].endsAt
                  /\ auction'[a].endsAt = t + Extension
    Transferred ==
      \A i \in Items : item'[i].owner # item[i].owner =>
        \E a \in Auctions :
          LET win == bid[auction[a].highest]
          IN  /\ auction[a].item = i
              /\ auction[a].status = "active" /\ auction'[a].status = "settled"
              /\ item'[i].owner = win.bidder
              /\ wallets'.total[win.bidder] = wallets.total[win.bidder] - win.amount
              /\ wallets'.total[item[i].owner] = wallets.total[item[i].owner] + win.amount
<1>1. ASSUME WholeInv, [MarketNext]_marketvars PROVE Raised /\ Timed /\ Transferred
  <2>1. MarketInv /\ CoreInv
    BY <1>1 DEF WholeInv, MarketInv
  <2>2. CASE [Next]_vars
    <3>1. Raised
      BY <2>1, <2>2, RaiseStep
    <3>2. Timed
      BY <2>1, <2>2, EndStep
    <3>3. Transferred
      BY <2>1, <2>2, TransferStep
    <3> QED BY <3>1, <3>2, <3>3
  <2>3. CASE UNCHANGED houseTables
    BY <2>3 DEF houseTables
  <2> QED BY <1>1, <2>2, <2>3, TwoFlows
<1>2. WholeInv /\ [MarketNext]_marketvars => [Raised]_vars /\ [Timed]_vars /\ [Transferred]_vars
  BY <1>1
<1> QED BY <1>2, WholeInvariant, PTL
        DEF MarketSpec, RaisedByFivePercent, AntiSnipe, TransferWithPayment
-----------------------------------------------------------------------------
(* What holds of a call k while the tables are A (auctions) and B (bids)   *)
(* and q ids have been taken from the items' sequence.                     *)
Fields == {"op", "step", "guild", "id", "value", "found", "body", "status", "fault"}

IsCall(k) == k = [f \in Fields |-> k[f]]

(* What the transaction of a call may rely on. *)
Resolved(k, A) ==
  /\ k.guild \in Guilds \cup Strangers \cup {TooBig}
  /\ k.op = "BuyItem" => k.found \in ListingIds
  /\ k.op \in {"PlaceBid", "CancelBid"} => k.found \in Auctions /\ A[k.found].status # "absent"
  /\ k.op = "PlaceBid" => k.value \in Amounts
  /\ k.op = "CancelBid" => k.value \in Bids \cup {TooBig}

(* StatusesExplained, of the answer a step gives. *)
Explained(k) ==
  \/ k.status \in Declared(k.op)
  \/ k.status = 400 /\ k.op \in Reads /\ k.fault = "request"
  \/ k.status = 409 /\ k.op \in Writes /\ k.fault = "key"
  \/ k.status = 409 /\ k.op = "CancelBid" /\ auction[k.found].status = "settled"
  \/ k.status = 500 /\ (k.fault = "database" \/ Unfit(k))
  \/ k.status = 500 /\ k.op \in {"BuyItem", "PlaceBid"} /\ k.guild \in Strangers
  \/ /\ k.status = 500 /\ k.op \in {"BuyItem", "CreateItem"}
     /\ seq' # seq /\ seq' \in DOMAIN SeedGoods
  \/ k.status = 500 /\ k.op = "BuyItem" /\ k.guild \in Guilds /\ ~AddsUp(k)

(* The row of an auction that has been read: its leader is still one of    *)
(* the auction's bids, and if it was settled it still is what it was.      *)
Seen(row, A, B) ==
  /\ row.id \in Auctions /\ A[row.id].status # "absent"
  /\ row.highest # Null =>
       /\ row.highest \in Bids /\ B[row.highest].status # "absent"
       /\ B[row.highest].auction = row.id
  /\ row.status = "settled" =>
       /\ A[row.id].status = "settled"
       /\ row.highest = A[row.id].highest /\ row.winner = A[row.id].winner

(* The leader read after that row. *)
Ahead(b, row, B) ==
  /\ b \in Bids /\ B[b].status # "absent" /\ B[b].auction = row.id
  /\ row.highest # Null => B[b].amount >= B[row.highest].amount
  /\ row.status = "settled" => b = row.highest

(* LeaderNotOlder, of one answer. *)
LeaderFits(row, leader, B, fault) ==
  /\ leader = Null => (row.highest = Null \/ fault = "database")
  /\ leader # Null =>
       /\ leader.auction = row.id
       /\ row.highest # Null => leader.amount >= B[row.highest].amount
       /\ row.status = "settled" => (leader.id = row.highest /\ leader.bidder = row.winner)

Reading(k, A, B) ==
  /\ k.step \in {"row", "bid"} =>
       /\ DOMAIN k.body = {"auction"} /\ k.body.auction.id = k.id
       /\ Seen(k.body.auction, A, B)
  /\ k.step = "bid" => Ahead(k.found, k.body.auction, B)
  /\ k.step = "done" /\ k.status = 200 =>
       /\ Seen(k.body.auction, A, B)
       /\ LeaderFits(k.body.auction, k.body.leader, B, k.fault)

CallSound(k, A, B) ==
  /\ IsCall(k)
  /\ k.step = "commit" => Resolved(k, A)
  /\ k.op = "GetAuction" => Reading(k, A, B)

CallInv ==
  /\ call = [c \in Clients |-> call[c]]
  /\ \A c \in Clients : CallSound(call[c], auction, bid)
-----------------------------------------------------------------------------
(* What a step of the market leaves true of what has been read before it. *)
Remembers ==
  /\ RowsRemain
  /\ \A a \in Auctions : auction[a].status = "settled" => auction'[a] = auction[a]

LEMMA MarketRemembers ==
  ASSUME WholeInv, [MarketNext]_marketvars
  PROVE  Remembers
<1>1. CoreInv /\ ShopInv /\ RowsRemain
  BY MarketStep DEF WholeInv, MarketInv
<1>2. CASE [Next]_vars /\ UNCHANGED shopTables
  BY <1>1, <1>2, SettledFinal DEF Remembers
<1>3. CASE Shop!Trade /\ UNCHANGED houseTables
  BY <1>1, <1>3 DEF houseTables, Remembers
<1> QED BY <1>2, <1>3, TwoFlows

(* So whatever the market does, a call keeps what it has. *)
LEMMA CallKept ==
  ASSUME Remembers, NEW k, CallSound(k, auction, bid)
  PROVE  CallSound(k, auction', bid')
<1>1. k.step = "commit" => Resolved(k, auction')
  BY DEF CallSound, Resolved, Remembers, RowsRemain
<1>3. ASSUME NEW row, Seen(row, auction, bid)
      PROVE  /\ Seen(row, auction', bid')
             /\ \A b : Ahead(b, row, bid) => Ahead(b, row, bid')
             /\ \A leader, f : LeaderFits(row, leader, bid, f) => LeaderFits(row, leader, bid', f)
  <2>1. Seen(row, auction', bid')
    BY <1>3 DEF Seen, Remembers, RowsRemain
  <2>2. row.highest # Null => bid'[row.highest].amount = bid[row.highest].amount
    BY <1>3 DEF Seen, Remembers, RowsRemain
  <2>3. ASSUME NEW b, Ahead(b, row, bid) PROVE Ahead(b, row, bid')
    BY <2>2, <2>3 DEF Ahead, Remembers, RowsRemain
  <2>4. ASSUME NEW leader, NEW f, LeaderFits(row, leader, bid, f)
        PROVE  LeaderFits(row, leader, bid', f)
    BY <2>2, <2>4 DEF LeaderFits
  <2> QED BY <2>1, <2>3, <2>4
<1>4. k.op = "GetAuction" => Reading(k, auction', bid')
  BY <1>3 DEF CallSound, Reading
<1> QED BY <1>1, <1>4 DEF CallSound

(* The call of client c becomes m, a sound one and an explained answer if it *)
(* is one.                                                                   *)
Becomes(c, m) ==
  /\ call' = [call EXCEPT ![c] = m]
  /\ CallSound(m, auction', bid')
  /\ m.step = "done" => Explained(m)

(* A step of client c: one the market allows. *)
Goes(c) ==
  /\ [MarketNext]_marketvars
  /\ \E m : Becomes(c, m)

(* StatusesExplained, of one step. *)
AnswersExplained ==
  \A c \in Clients : call[c].step # "done" /\ call'[c].step = "done" => Explained(call'[c])

LEMMA GoesKeeps ==
  ASSUME WholeInv, CallInv, NEW c \in Clients, Goes(c)
  PROVE  CallInv' /\ AnswersExplained
<1>1. PICK m : Becomes(c, m)
  BY DEF Goes
<1>2. call'[c] = m /\ \A d \in Clients : d # c => call'[d] = call[d]
  BY <1>1 DEF CallInv, Becomes
<1>3. \A d \in Clients : CallSound(call[d], auction', bid')
  BY MarketRemembers, CallKept DEF CallInv, Goes
<1>4. \A d \in Clients : CallSound(call'[d], auction', bid')
  BY <1>1, <1>2, <1>3 DEF Becomes
<1>5. call' = [d \in Clients |-> call'[d]]
  BY <1>1 DEF CallInv, Becomes
<1>6. AnswersExplained
  BY <1>1, <1>2 DEF AnswersExplained, Becomes
<1> QED BY <1>4, <1>5, <1>6 DEF CallInv
-----------------------------------------------------------------------------
(* The call as a client makes it, and as it is answered. *)
LEMMA Asking ==
  ASSUME NEW op, NEW g, NEW id, NEW value
  PROVE  LET k == Asks(op, g, id, value)
         IN  /\ IsCall(k) /\ k.op = op /\ k.step = "idle" /\ k.guild = g /\ k.id = id
             /\ k.value = value /\ k.found = Null /\ k.body = Null /\ k.status = 0
                 /\ k.fault = "none"
<1> DEFINE k == Asks(op, g, id, value)
<1>1. /\ k.op = op /\ k.step = "idle" /\ k.guild = g /\ k.id = id
      /\ k.value = value /\ k.found = Null /\ k.body = Null /\ k.status = 0 /\ k.fault = "none"
  BY DEF Asks, Idle
<1>2. IsCall(k)
  BY DEF Asks, Idle, IsCall, Fields
<1> QED BY <1>1, <1>2

Answered(k, s, b) == [Kept(k, s) EXCEPT !.step = "done", !.status = s, !.body = b]

LEMMA AnswerExact ==
  ASSUME NEW k, IsCall(k), NEW s, NEW b
  PROVE  LET m == Answered(k, s, b)
         IN  /\ IsCall(m) /\ m.op = k.op /\ m.step = "done" /\ m.id = k.id
             /\ m.found = k.found /\ m.body = b /\ m.status = s /\ m.fault = k.fault
             /\ s = 500 => m.guild = k.guild /\ m.value = k.value
<1> DEFINE n == Kept(k, s)
           m == Answered(k, s, b)
<1>1. /\ IsCall(n) /\ n.op = k.op /\ n.id = k.id /\ n.found = k.found /\ n.fault = k.fault
      /\ s = 500 => n.guild = k.guild /\ n.value = k.value
  BY DEF Kept, IsCall, Fields
<1> HIDE DEF n
<1>2. m = [n EXCEPT !.step = "done", !.status = s, !.body = b]
  BY DEF Answered, n
<1> HIDE DEF m
<1>3. /\ m.op = n.op /\ m.step = "done" /\ m.guild = n.guild /\ m.id = n.id
      /\ m.value = n.value /\ m.found = n.found /\ m.body = b /\ m.status = s
      /\ m.fault = n.fault
  BY <1>1, <1>2 DEF IsCall, Fields
<1>4. IsCall(m)
  BY <1>1, <1>2 DEF IsCall
<1> QED BY <1>1, <1>3, <1>4 DEF m

(* An answer that is explained, and shows no leader of an auction. *)
LEMMA PlainAnswer ==
  ASSUME NEW c, NEW k, NEW s, NEW b, IsCall(k), Answers(c, k, s, b), [MarketNext]_marketvars,
         k.op # "GetAuction" \/ s # 200, Explained(Answered(k, s, b))
  PROVE  Goes(c)
<1> DEFINE m == Answered(k, s, b)
<1>1. call' = [call EXCEPT ![c] = m]
  BY DEF Answers, Answered
<1>2. m.step = "done" /\ m.op = k.op /\ m.status = s /\ IsCall(m)
  BY AnswerExact
<1> HIDE DEF m
<1>3. CallSound(m, auction', bid') /\ Explained(m)
  BY <1>2 DEF CallSound, Reading, m
<1> QED BY <1>1, <1>3 DEF Goes, Becomes

(* An answer with a declared status. *)
LEMMA DeclaredAnswer ==
  ASSUME NEW c, NEW k, NEW s, NEW b, IsCall(k), Answers(c, k, s, b), [MarketNext]_marketvars,
         k.op # "GetAuction" \/ s # 200, s \in Declared(k.op)
  PROVE  Goes(c)
<1>1. Answered(k, s, b).status = s /\ Answered(k, s, b).op = k.op
  BY AnswerExact
<1>2. Explained(Answered(k, s, b))
  BY <1>1 DEF Explained
<1> QED BY <1>2, PlainAnswer

(* The statuses of the errors, and those the operations declare. *)
LEMMA ErrorStatuses ==
  /\ StatusForError("NotFound") = 404 /\ StatusForError("internal") = 500
  /\ \A e \in {"InsufficientFunds", "DailyCapExceeded"} : StatusForError(e) = 402
  /\ \A e \in {"ListingNotOpen", "OutOfStock", "ActiveAuctionExists", "ItemNotAvailable",
               "AuctionNotActive", "AuctionEnded"} : StatusForError(e) = 409
  /\ \A e \in {"InvalidAmount", "NameRequired", "InvalidTier", "InvalidStock", "SelfPurchase",
               "SelfBid", "ItemNotOwned", "LegendaryNeedsAuction", "NotLegendary", "BidTooLow",
               "CancelHighestBid", "InsufficientReserved"} : StatusForError(e) = 400
  BY DEF StatusForError

LEMMA DeclaredStatuses ==
  /\ Declared("CreateItem") = {201, 400, 404}
  /\ Declared("ListItemForSale") = {201, 400, 404, 409}
  /\ Declared("OpenAuction") = {201, 400, 404, 409}
  /\ Declared("BuyItem") = {200, 400, 402, 404, 409}
  /\ Declared("PlaceBid") = {201, 400, 402, 404, 409}
  /\ Declared("CancelBid") = {200, 400, 404}
  /\ Declared("GetItem") = {200, 404} /\ Declared("GetAuction") = {200, 404}
  /\ Declared("GetWallet") = {200, 404}
  /\ Declared("ListItems") = {200} /\ Declared("ListAuctions") = {200}
  BY DEF Declared

LEMMA MarketStays ==
  ASSUME UNCHANGED marketvars
  PROVE  /\ [MarketNext]_marketvars
         /\ auction' = auction /\ bid' = bid
  BY DEF marketvars, vars, shopTables

(* A call that is refused with a declared status, one that shows something, *)
(* and one that goes on.                                                    *)
LEMMA Refusal ==
  ASSUME NEW c, NEW k, NEW e, IsCall(k), Refuses(c, k, e),
         StatusForError(e) \in Declared(k.op), StatusForError(e) # 200
  PROVE  Goes(c)
  BY MarketStays, DeclaredAnswer DEF Refuses

LEMMA Shown ==
  ASSUME NEW c, NEW k, NEW b, IsCall(k), Shows(c, k, b), k.op # "GetAuction", 200 \in Declared(k.op)
  PROVE  Goes(c)
  BY MarketStays, DeclaredAnswer DEF Shows

LEMMA GoneOn ==
  ASSUME NEW c, NEW m, Continues(c, m), CallSound(m, auction, bid), m.step # "done"
  PROVE  Goes(c)
  BY MarketStays DEF Continues, Goes, Becomes

(* A call that a fault has cut off: its key or its form was refused, or a  *)
(* statement of it failed.                                                 *)
LEMMA CutOffGoes ==
  ASSUME NEW c, NEW op, NEW fault, NEW status, CutOff(c, op, fault, status),
         [MarketNext]_marketvars,
         \/ fault = "database" /\ status = 500
         \/ fault = "key" /\ status = 409 /\ op \in Writes
         \/ fault = "request" /\ status = 400 /\ op \in Reads \cup Writes
  PROVE  Goes(c)
<1> DEFINE k == [Idle EXCEPT !.op = op, !.fault = fault]
           m == Answered(k, status, Null)
<1>1. IsCall(k) /\ k.op = op /\ k.fault = fault
  BY DEF Idle, IsCall, Fields
<1>2. Answers(c, k, status, Null)
  BY DEF CutOff
<1> HIDE DEF k
<1>3. m.status = status /\ m.op = op /\ m.fault = fault
  BY <1>1, AnswerExact
<1> HIDE DEF m
<1>4. op \in Writes => 400 \in Declared(op)
  BY DeclaredStatuses DEF Writes
<1>5. Explained(m)
  <2>1. CASE fault = "database" /\ status = 500
    BY <1>3, <2>1 DEF Explained
  <2>2. CASE fault = "key" /\ status = 409 /\ op \in Writes
    BY <1>3, <2>2 DEF Explained
  <2>3. CASE fault = "request" /\ status = 400 /\ op \in Reads \cup Writes
    BY <1>3, <1>4, <2>3 DEF Explained
  <2> QED BY <2>1, <2>2, <2>3
<1> QED BY <1>1, <1>2, <1>5, PlainAnswer DEF m

LEMMA FailureGoes ==
  ASSUME NEW c, NEW k, Fails(c, k), [MarketNext]_marketvars
  PROVE  Goes(c)
  BY CutOffGoes DEF Fails

LEMMA FailedRead ==
  ASSUME NEW c, NEW k, Fails(c, k), UNCHANGED marketvars
  PROVE  Goes(c)
  BY MarketStays, FailureGoes

LEMMA Malformed ==
  ASSUME NEW c, NEW op \in Reads \cup Writes, NEW g, NEW id, NEW value,
         CutOff(c, Asks(op, g, id, value).op, "request", 400), UNCHANGED marketvars
  PROVE  Goes(c)
  BY MarketStays, CutOffGoes, Asking

LEMMA TurnsAwayGoes ==
  ASSUME NEW c \in Clients, NEW op \in Writes, TurnsAway(c, op)
  PROVE  Goes(c)
  BY MarketStays, CutOffGoes DEF TurnsAway

(* An internal error that is owed to the arguments. *)
LEMMA UnfitGoes ==
  ASSUME NEW c, NEW k, IsCall(k), Unfit(k), Answers(c, k, 500, Null), [MarketNext]_marketvars
  PROVE  Goes(c)
<1> DEFINE m == Answered(k, 500, Null)
<1>1. /\ m.status = 500 /\ m.op = k.op /\ m.guild = k.guild /\ m.id = k.id
      /\ m.value = k.value
  BY AnswerExact
<1> HIDE DEF m
<1>2. Explained(m)
  BY <1>1 DEF Explained, Unfit
<1> QED BY <1>2, PlainAnswer DEF m

LEMMA UnfitRefused ==
  ASSUME NEW c, NEW k, IsCall(k), Unfit(k), Refuses(c, k, "internal")
  PROVE  Goes(c)
  BY ErrorStatuses, MarketStays, UnfitGoes DEF Refuses

(* A transaction that commits, with a status that is declared. *)
LEMMA CommitGoes ==
  ASSUME NEW c, NEW k, NEW s, IsCall(k), Acknowledges(c, k, s), [MarketNext]_marketvars,
         s \in Declared(k.op), k.op # "GetAuction"
  PROVE  Goes(c)
  BY FailureGoes, DeclaredAnswer DEF Acknowledges

LEMMA MoneyAndTime ==
  ASSUME WholeInv
  PROVE  CoreInv /\ ShopInv /\ TypeOK /\ RowsConsistent /\ now \in 0 .. now
  BY DEF WholeInv, MarketInv, CoreInv, TypeOK, Time

(* An id that is taken is one of the seed. *)
LEMMA SeedBlocks ==
  ASSUME WholeInv, Shop!TakesId, ~Shop!CanInsert
  PROVE  seq' # seq /\ seq' \in DOMAIN SeedGoods
<1>1. seq' = seq + 1 /\ seq \in 0 .. MaxItems /\ seq < MaxItems /\ MaxItems \in Nat
      /\ good[seq + 1].status # "absent"
  BY MoneyAndTime, ShopConstants
  DEF Shop!TakesId, Shop!NextId, Shop!CanInsert, ShopInv, ShopTypes
<1>2. seq + 1 \in Shop!Goods /\ ~(seq + 1 <= seq)
  BY <1>1, ShopConstants
<1>3. seq + 1 \in DOMAIN SeedGoods
  BY <1>1, <1>2, MoneyAndTime DEF ShopInv, GoodsConsistent
<1> QED BY <1>1, <1>2, <1>3
-----------------------------------------------------------------------------
(* POST /items. *)
LEMMA CreateItemGoes ==
  ASSUME WholeInv, NEW c \in Clients, NEW g \in Senders,
         NEW name \in Products \cup {Blank, BadName, Null},
         NEW tier \in NewTiers \cup {"unknown"}, NEW stock \in Stocks \cup {0, IntMax + 1},
         CreateItem(c, g, name, tier, stock)
  PROVE  Goes(c)
<1> DEFINE k == Asks("CreateItem", g, name, stock)
           f == FormError(name, tier, stock)
           e == CreateError(g, name, tier, stock)
<1>1. /\ IsCall(k) /\ k.op = "CreateItem" /\ k.guild = g /\ k.id = name /\ k.value = stock
  BY Asking
<1>2. CASE CutOff(c, k.op, "request", 400) /\ UNCHANGED marketvars
  BY <1>2, Malformed DEF Writes
<1>3. CASE f # "none" /\ Refuses(c, k, f)
  <2>1. f \in {"NameRequired", "InvalidTier", "InvalidStock"}
    BY <1>3 DEF FormError
  <2> HIDE DEF k, f
  <2>2. StatusForError(f) \in Declared(k.op) /\ StatusForError(f) # 200
    BY <1>1, <2>1, ErrorStatuses, DeclaredStatuses
  <2> QED BY <1>1, <1>3, <2>2, Refusal
<1>4. CASE Fails(c, k) /\ UNCHANGED marketvars
  BY <1>4, FailedRead
<1>5. e = "internal" => Unfit(k)
  <2>1. e = "internal" => TooBig = k.guild \/ k.id = BadName \/ k.value > IntMax
    BY <1>1 DEF CreateError
  <2> HIDE DEF k
  <2> QED BY <1>1, <2>1 DEF Unfit
<1>6. CASE e # "none" /\ Refuses(c, k, e)
  <2>1. e \in {"NotFound", "internal"}
    BY <1>6 DEF CreateError
  <2> HIDE DEF k, e
  <2>2. CASE e = "NotFound"
    BY <1>1, <1>6, <2>2, ErrorStatuses, DeclaredStatuses, Refusal
  <2>3. CASE e = "internal"
    BY <1>1, <1>5, <1>6, <2>3, UnfitRefused
  <2> QED BY <2>1, <2>2, <2>3
<1>7. ASSUME f = "none"
      PROVE  /\ name # Blank /\ tier \in NewTiers /\ stock >= 1 /\ tier # "legendary"
  <2>1. name # Blank /\ tier \in Shop!Tiers /\ ~(tier # "legendary" /\ stock < 1)
    BY <1>7 DEF FormError
  <2>2. tier # "unknown"
    BY <2>1 DEF Shop!Tiers
  <2>3. tier # "legendary"
    BY <2>2, MarketAssumption
  <2>4. stock \in Int
    BY ShopConstants, ApiAssumption
  <2> QED BY <2>1, <2>2, <2>3, <2>4
<1>8. CASE /\ f = "none" /\ Null \notin {g, name} /\ e = "none"
           /\ Shop!CreateItem(g, name, tier, stock) /\ UNCHANGED houseTables
           /\ \/ good' # good /\ Acknowledges(c, k, 201)
              \/ ~Shop!CanInsert /\ Answers(c, k, 500, Null)
  <2>1. g \in Guilds /\ name \in Products /\ tier \in NewTiers /\ stock \in Stocks
    <3>1. g \in Guilds /\ name # BadName /\ ~(tier # "legendary" /\ stock > IntMax)
      BY <1>8, ApiAssumption DEF CreateError
    <3>2. name \in Products
      BY <1>7, <1>8, <3>1
    <3>3. stock \in Stocks
      BY <1>7, <1>8, <3>1, ApiAssumption
    <3> QED BY <1>7, <1>8, <3>1, <3>2, <3>3
  <2>2. [MarketNext]_marketvars
    BY <1>8, <2>1 DEF MarketNext, Shop!Trade
  <2> HIDE DEF k
  <2>3. CASE Acknowledges(c, k, 201)
    BY <1>1, <2>2, <2>3, DeclaredStatuses, CommitGoes
  <2>4. CASE ~Shop!CanInsert /\ Answers(c, k, 500, Null)
    <3>1. Shop!TakesId
      BY <1>8 DEF Shop!CreateItem
    <3>2. seq' # seq /\ seq' \in DOMAIN SeedGoods
      BY <2>4, <3>1, SeedBlocks
    <3>3. Explained(Answered(k, 500, Null))
      BY <1>1, <3>2, AnswerExact DEF Explained
    <3> QED BY <1>1, <2>2, <2>4, <3>3, PlainAnswer
  <2> QED BY <1>8, <2>3, <2>4
<1>9. CASE f = "none" /\ DrawsInVain(g, tier)
           /\ (Fails(c, k) \/ (e = "internal" /\ Answers(c, k, 500, Null)))
  <2>1. PICK p \in Products, n \in Stocks : Shop!CreateItem(g, p, tier, n)
    BY <1>9 DEF DrawsInVain
  <2>2. [MarketNext]_marketvars
    BY <1>7, <1>9, <2>1 DEF DrawsInVain, MarketNext, Shop!Trade
  <2> HIDE DEF k, e
  <2> QED BY <1>1, <1>5, <1>9, <2>2, FailureGoes, UnfitGoes
<1> QED BY <1>2, <1>3, <1>4, <1>6, <1>8, <1>9 DEF CreateItem, Asked, Passes, Runs

(* POST /items/{id}/listings: the seller owns the item and it is no legendary. *)
LEMMA ListItemGoes ==
  ASSUME WholeInv, NEW c \in Clients, NEW g \in Senders, NEW i \in Targets,
         NEW p \in Prices \cup {0}, ListItemForSale(c, g, i, p)
  PROVE  Goes(c)
<1> DEFINE k == Asks("ListItemForSale", g, i, p)
           e == ListError(g, i)
<1>1. IsCall(k) /\ k.op = "ListItemForSale" /\ k.id = i
  BY Asking
<1>2. CASE CutOff(c, k.op, "request", 400) /\ UNCHANGED marketvars
  BY <1>2, Malformed DEF Writes
<1>3. CASE Refuses(c, k, "InvalidAmount")
  <2> HIDE DEF k
  <2> QED BY <1>1, <1>3, ErrorStatuses, DeclaredStatuses, Refusal
<1>4. CASE e # "none" /\ Refuses(c, k, e)
  <2>1. CASE e = "internal"
    <3>1. Unfit(k)
      BY <1>1, <2>1 DEF ListError, Unfit
    <3> HIDE DEF k, e
    <3> QED BY <1>1, <1>4, <2>1, <3>1, UnfitRefused
  <2>2. CASE e # "internal"
    <3>1. e \in {"NotFound", "ItemNotOwned", "LegendaryNeedsAuction", "OutOfStock"}
      BY <1>4, <2>2 DEF ListError
    <3> HIDE DEF k, e
    <3>2. StatusForError(e) \in Declared(k.op) /\ StatusForError(e) # 200
      BY <1>1, <3>1, ErrorStatuses, DeclaredStatuses
    <3> QED BY <1>1, <1>4, <3>2, Refusal
  <2> QED BY <2>1, <2>2
<1>5. CASE Fails(c, k) /\ UNCHANGED marketvars
  BY <1>5, FailedRead
<1>6. CASE /\ ~(Null \in {g, i} \/ p = 0) /\ e = "none"
           /\ \E l \in ListingIds : Shop!CreateListing(g, i, p, l)
           /\ UNCHANGED houseTables /\ Acknowledges(c, k, 201)
  <2>1. i \in KnownItems /\ Row(i).owner = g /\ Row(i).tier # "legendary"
    BY <1>6 DEF ListError
  <2>2. i \in Shop!Goods /\ i \notin Items /\ good[i].status # "absent"
    BY <2>1, MarketAssumption DEF KnownItems, Row
  <2>3. g \in Guilds
    BY <2>1, <2>2, MoneyAndTime DEF Row, ShopInv, GoodsConsistent
  <2>4. p \in Prices
    BY <1>6
  <2>5. [MarketNext]_marketvars
    BY <1>6, <2>2, <2>3, <2>4 DEF MarketNext, Shop!Trade
  <2> HIDE DEF k
  <2> QED BY <1>1, <1>6, <2>5, DeclaredStatuses, CommitGoes
<1> QED BY <1>2, <1>3, <1>4, <1>5, <1>6 DEF ListItemForSale, Asked, Passes, Runs

(* POST /items/{id}/auctions. *)
LEMMA OpenAuctionGoes ==
  ASSUME WholeInv, NEW c \in Clients, NEW g \in Senders, NEW i \in Targets, OpenAuction(c, g, i)
  PROVE  Goes(c)
<1> DEFINE k == Asks("OpenAuction", g, i, Null)
           e == OpenError(g, i)
<1>1. IsCall(k) /\ k.op = "OpenAuction" /\ k.id = i
  BY Asking
<1>2. CASE CutOff(c, k.op, "request", 400) /\ UNCHANGED marketvars
  BY <1>2, Malformed DEF Writes
<1>3. CASE e # "none" /\ Refuses(c, k, e)
  <2>1. CASE e = "internal"
    <3>1. Unfit(k)
      BY <1>1, <2>1 DEF OpenError, Unfit
    <3> HIDE DEF k, e
    <3> QED BY <1>1, <1>3, <2>1, <3>1, UnfitRefused
  <2>2. CASE e # "internal"
    <3>1. e \in {"NotFound", "ItemNotOwned", "NotLegendary", "ActiveAuctionExists",
                 "ItemNotAvailable"}
      BY <1>3, <2>2 DEF OpenError
    <3> HIDE DEF k, e
    <3>2. StatusForError(e) \in Declared(k.op) /\ StatusForError(e) # 200
      BY <1>1, <3>1, ErrorStatuses, DeclaredStatuses
    <3> QED BY <1>1, <1>3, <3>2, Refusal
  <2> QED BY <2>1, <2>2
<1>4. CASE Fails(c, k) /\ UNCHANGED marketvars
  BY <1>4, FailedRead
<1>5. CASE /\ e = "none" /\ \E a \in Auctions : CreateAuction(g, i, a, now)
           /\ UNCHANGED shopTables /\ Acknowledges(c, k, 201)
  <2>1. i \in KnownItems /\ Row(i).owner = g /\ Row(i).tier = "legendary"
    BY <1>5 DEF OpenError
  <2>2. i \in Items
    BY <2>1, MoneyAndTime DEF KnownItems, Row, ShopInv, GoodsConsistent
  <2>3. g \in Guilds
    BY <2>1, <2>2, MoneyAndTime DEF Row, TypeOK, ItemRow
  <2>4. [MarketNext]_marketvars
    BY <1>5, <2>2, <2>3, MoneyAndTime DEF MarketNext, Deal
  <2> HIDE DEF k
  <2> QED BY <1>1, <1>5, <2>4, DeclaredStatuses, CommitGoes
<1> QED BY <1>2, <1>3, <1>4, <1>5 DEF OpenAuction, Asked, Passes, Runs
-----------------------------------------------------------------------------
(* The offers a call may find. *)
LEMMA AuctionFound ==
  ASSUME NEW i, ActiveAuctionByItem(i) # Null
  PROVE  ActiveAuctionByItem(i) \in Auctions /\ auction[ActiveAuctionByItem(i)].status = "active"
<1> DEFINE active == {a \in ActiveAuctions : auction[a].item = i}
<1>1. active # {} /\ ActiveAuctionByItem(i) = Chosen(active)
  BY DEF ActiveAuctionByItem, Chosen
<1>2. Chosen(active) \in active
  BY <1>1, ChosenIn
<1> QED BY <1>1, <1>2 DEF ActiveAuctions

(* Of some listings one has the greatest id. *)
LEMMA LatestExists ==
  ASSUME NEW S, S \subseteq ListingIds, S # {}
  PROVE  \E l \in S : \A m \in S : m <= l
<1>0. IsFiniteSet(ListingIds) /\ ListingIds \subseteq Nat
  BY MarketAssumption, ApiAssumption DEF Shop!ListingAssumption, Shop!IsFiniteSet, IsFiniteSet
<1> DEFINE B == {T \in SUBSET ListingIds : T # {} /\ ~\E l \in T : \A m \in T : m <= l}
<1> SUFFICES ASSUME B # {} PROVE FALSE
  OBVIOUS
<1>b. B # {} /\ B \subseteq SUBSET ListingIds
  OBVIOUS
<1> HIDE DEF B
<1>f. IsFiniteSet(ListingIds)
  BY <1>0
<1>c. \E T \in B : \A U \in B : U \subseteq T => U = T
  BY <1>f, <1>b, MinimalSubset
<1>1. PICK T \in B : \A U \in B : U \subseteq T => U = T
  BY <1>c
<1>2. T \subseteq ListingIds /\ T # {} /\ ~\E l \in T : \A m \in T : m <= l
  BY <1>1 DEF B
<1>3. PICK x \in T : TRUE
  BY <1>2
<1> DEFINE U == T \ {x}
<1>4. U \notin B /\ U \in SUBSET ListingIds
  BY <1>1, <1>2, <1>3
<1>5. U = {} \/ \E l \in U : \A m \in U : m <= l
  BY <1>4 DEF B
<1>6. CASE U = {}
  <2>1. \A m \in T : m = x
    BY <1>6
  <2> QED BY <1>0, <1>2, <1>3, <2>1
<1>7. ASSUME NEW l \in U, \A m \in U : m <= l PROVE FALSE
  <2>1. x \in Nat /\ l \in Nat /\ l \in T /\ \A m \in T : m \in Nat
    BY <1>0, <1>2, <1>3
  <2>2. CASE x <= l
    <3>1. \A m \in T : m <= l
      BY <1>7, <2>2
    <3> QED BY <1>2, <2>1, <3>1
  <2>3. CASE ~(x <= l)
    <3>1. \A m \in T : m <= x
      BY <1>7, <2>1, <2>3
    <3> QED BY <1>2, <1>3, <3>1
  <2> QED BY <2>2, <2>3
<1> QED BY <1>5, <1>6, <1>7

LEMMA ListingFound ==
  ASSUME NEW i, OpenListingByItem(i) # Null
  PROVE  OpenListingByItem(i) \in ListingIds
<1> DEFINE open == {l \in ListingIds : listing[l].status = "open" /\ listing[l].item = i}
<1>1. open # {} /\ OpenListingByItem(i) = CHOOSE l \in open : \A m \in open : m <= l
  BY DEF OpenListingByItem
<1>2. \E l \in open : \A m \in open : m <= l
  BY <1>1, LatestExists
<1> HIDE DEF open
<1>3. OpenListingByItem(i) \in open
  BY <1>1, <1>2, Zenon
<1> QED BY <1>3 DEF open

(* A call whose offer has been resolved. *)
LEMMA ResolvesGoes ==
  ASSUME NEW c, NEW op \in {"BuyItem", "PlaceBid", "CancelBid"},
         NEW g \in Guilds \cup Strangers \cup {TooBig}, NEW i, NEW value, NEW found,
         Resolves(c, Asks(op, g, i, value), found),
         op = "BuyItem" => (found = Null \/ found \in ListingIds),
         op # "BuyItem" =>
           (found = Null \/ (found \in Auctions /\ auction[found].status # "absent")),
         op = "PlaceBid" => value \in Amounts,
         op = "CancelBid" => value \in Bids \cup {TooBig}
  PROVE  Goes(c)
<1> DEFINE k == Asks(op, g, i, value)
           m == [k EXCEPT !.step = "commit", !.found = found]
<1>1. IsCall(k) /\ k.op = op /\ k.guild = g /\ k.id = i /\ k.value = value
  BY Asking
<1> HIDE DEF k
<1>2. CASE Refuses(c, k, "NotFound")
  <2>1. StatusForError("NotFound") \in Declared(k.op) /\ StatusForError("NotFound") # 200
    BY <1>1, ErrorStatuses, DeclaredStatuses
  <2> QED BY <1>1, <1>2, <2>1, Refusal
<1>3. CASE k.id = TooBig /\ Refuses(c, k, "internal")
  <2>1. Unfit(k)
    BY <1>3 DEF Unfit
  <2> QED BY <1>1, <1>3, <2>1, UnfitRefused
<1>4. CASE Fails(c, k) /\ UNCHANGED marketvars
  BY <1>4, FailedRead
<1>5. CASE found # Null /\ Continues(c, m)
  <2>1. /\ IsCall(m) /\ m.op = op /\ m.step = "commit" /\ m.guild = g /\ m.value = value
        /\ m.found = found
    BY <1>1 DEF IsCall, Fields
  <2> HIDE DEF m
  <2>2. Resolved(m, auction)
    BY <1>5, <2>1 DEF Resolved
  <2>3. CallSound(m, auction, bid)
    BY <2>1, <2>2 DEF CallSound
  <2> QED BY <1>5, <2>1, <2>3, GoneOn
<1> QED BY <1>2, <1>3, <1>4, <1>5 DEF Resolves, Runs, Passes, k

LEMMA BuyItemGoes ==
  ASSUME NEW c \in Clients, NEW g \in Senders, NEW i \in Targets, BuyItem(c, g, i)
  PROVE  Goes(c)
<1> DEFINE k == Asks("BuyItem", g, i, Null)
<1>1. CASE CutOff(c, k.op, "request", 400) /\ UNCHANGED marketvars
  BY <1>1, Malformed DEF Writes
<1>2. CASE Null \notin {g, i} /\ Resolves(c, k, OpenListingByItem(i))
  BY <1>2, ListingFound, ResolvesGoes DEF Senders
<1> QED BY <1>1, <1>2 DEF BuyItem, Asked

LEMMA PlaceBidOnItemGoes ==
  ASSUME NEW c \in Clients, NEW g \in Senders, NEW i \in Targets, NEW x \in Amounts \cup {0},
         PlaceBidOnItem(c, g, i, x)
  PROVE  Goes(c)
<1> DEFINE k == Asks("PlaceBid", g, i, x)
<1>1. CASE CutOff(c, k.op, "request", 400) /\ UNCHANGED marketvars
  BY <1>1, Malformed DEF Writes
<1>2. CASE Null \notin {g, i} /\ x # 0 /\ Resolves(c, k, ActiveAuctionByItem(i))
  BY <1>2, AuctionFound, ResolvesGoes DEF Senders
<1> QED BY <1>1, <1>2 DEF PlaceBidOnItem, Asked

LEMMA CancelBidOnItemGoes ==
  ASSUME NEW c \in Clients, NEW g \in Senders, NEW i \in Targets,
         NEW b \in Bids \cup {TooBig, Null}, CancelBidOnItem(c, g, i, b)
  PROVE  Goes(c)
<1> DEFINE k == Asks("CancelBid", g, i, b)
<1>1. CASE CutOff(c, k.op, "request", 400) /\ UNCHANGED marketvars
  BY <1>1, Malformed DEF Writes
<1>2. CASE Null \notin {g, i, b} /\ Resolves(c, k, ActiveAuctionByItem(i))
  BY <1>2, AuctionFound, ResolvesGoes DEF Senders
<1> QED BY <1>1, <1>2 DEF CancelBidOnItem, Asked
-----------------------------------------------------------------------------
(* The call of a client that is in its transaction. *)
LEMMA InTransaction ==
  ASSUME CallInv, NEW c \in Clients, call[c].step = "commit"
  PROVE  IsCall(call[c]) /\ Resolved(call[c], auction)
  BY DEF CallInv, CallSound

LEMMA StrangerRefused ==
  ASSUME NEW c, NEW k, IsCall(k), k.op \in {"BuyItem", "PlaceBid"}, k.guild \in Strangers,
         Refuses(c, k, "internal")
  PROVE  Goes(c)
<1>1. Answers(c, k, 500, Null) /\ UNCHANGED marketvars
  BY ErrorStatuses DEF Refuses
<1>2. Explained(Answered(k, 500, Null))
  BY AnswerExact DEF Explained
<1> QED BY <1>1, <1>2, MarketStays, PlainAnswer

(* POST /items/{id}/buy. *)
LEMMA BuyGoes ==
  ASSUME WholeInv, CallInv, NEW c \in Clients, Buy(c)
  PROVE  Goes(c)
<1> DEFINE k == call[c]
           e == BuyError(k.guild, k.found)
<1>1. /\ IsCall(k) /\ k.op = "BuyItem" /\ k.found \in ListingIds
      /\ k.guild \in Guilds \cup Strangers \cup {TooBig}
  BY InTransaction DEF Buy, At, Resolved
<1>2. CASE e # "none" /\ Refuses(c, k, e)
  <2>1. CASE e = "internal"
    <3>1. k.guild \in Strangers \/ Unfit(k)
      BY <1>1, <2>1 DEF BuyError, Unfit
    <3> HIDE DEF k, e
    <3> QED BY <1>1, <1>2, <2>1, <3>1, StrangerRefused, UnfitRefused
  <2>2. CASE e # "internal"
    <3>1. e \in {"ListingNotOpen", "SelfPurchase", "OutOfStock", "DailyCapExceeded", "InsufficientFunds"}
      BY <1>2, <2>2 DEF BuyError
    <3> HIDE DEF k, e
    <3>2. StatusForError(e) \in Declared(k.op) /\ StatusForError(e) # 200
      BY <1>1, <3>1, ErrorStatuses, DeclaredStatuses
    <3> QED BY <1>1, <1>2, <3>2, Refusal
  <2> QED BY <2>1, <2>2
<1>3. CASE Fails(c, k) /\ UNCHANGED marketvars
  BY <1>3, FailedRead
<1>4. CASE /\ e = "none" /\ Shop!Buy(k.guild, k.found, now, now, now) /\ UNCHANGED houseTables
           /\ \/ Acknowledges(c, k, 200)
              \/ Fails(c, k)
              \/ ~Shop!CanInsert /\ Answers(c, k, 500, Null)
              \/ ~AddsUp(k) /\ Answers(c, k, 500, Null)
  <2>1. k.guild \in Guilds
    BY <1>4 DEF BuyError
  <2>2. [MarketNext]_marketvars
    BY <1>1, <1>4, <2>1, MoneyAndTime DEF MarketNext, Shop!Trade
  <2>3. Shop!TakesId
    BY <1>4 DEF Shop!Buy
  <2> HIDE DEF k
  <2>4. CASE Acknowledges(c, k, 200) \/ Fails(c, k)
    BY <1>1, <2>2, <2>4, DeclaredStatuses, CommitGoes, FailureGoes
  <2>5. CASE ~Shop!CanInsert /\ Answers(c, k, 500, Null)
    <3>1. seq' # seq /\ seq' \in DOMAIN SeedGoods
      BY <2>3, <2>5, SeedBlocks
    <3>2. Explained(Answered(k, 500, Null))
      BY <1>1, <3>1, AnswerExact DEF Explained
    <3> QED BY <1>1, <2>2, <2>5, <3>2, PlainAnswer
  <2>6. CASE ~AddsUp(k) /\ Answers(c, k, 500, Null)
    <3>1. Explained(Answered(k, 500, Null))
      BY <1>1, <2>1, <2>6, AnswerExact DEF Explained, AddsUp
    <3> QED BY <1>1, <2>2, <2>6, <3>1, PlainAnswer
  <2> QED BY <1>4, <2>4, <2>5, <2>6
<1> QED BY <1>2, <1>3, <1>4 DEF Buy, Runs, Passes

(* POST /items/{id}/bids. *)
LEMMA BidGoes ==
  ASSUME WholeInv, CallInv, NEW c \in Clients, Bid(c)
  PROVE  Goes(c)
<1> DEFINE k == call[c]
           e == BidError(k.found, k.guild, k.value)
<1>1. /\ IsCall(k) /\ k.op = "PlaceBid" /\ k.guild \in Guilds \cup Strangers \cup {TooBig}
      /\ k.found \in Auctions /\ k.value \in Amounts
  BY InTransaction DEF Bid, At, Resolved
<1>2. CASE e # "none" /\ Refuses(c, k, e)
  <2>1. CASE e = "internal"
    <3>1. k.guild \in Strangers \/ Unfit(k)
      BY <1>1, <2>1 DEF BidError, Unfit
    <3> HIDE DEF k, e
    <3> QED BY <1>1, <1>2, <2>1, <3>1, StrangerRefused, UnfitRefused
  <2>2. CASE e # "internal"
    <3>1. e \in {"AuctionNotActive", "AuctionEnded", "SelfBid", "InvalidAmount", "BidTooLow",
                 "InsufficientFunds", "InsufficientReserved"}
      BY <1>2, <2>2 DEF BidError
    <3> HIDE DEF k, e
    <3>2. StatusForError(e) \in Declared(k.op) /\ StatusForError(e) # 200
      BY <1>1, <3>1, ErrorStatuses, DeclaredStatuses
    <3> QED BY <1>1, <1>2, <3>2, Refusal
  <2> QED BY <2>1, <2>2
<1>3. CASE Fails(c, k) /\ UNCHANGED marketvars
  BY <1>3, FailedRead
<1>4. CASE /\ e = "none" /\ \E b \in Bids : PlaceBid(k.found, k.guild, k.value, b, now)
           /\ UNCHANGED shopTables /\ Acknowledges(c, k, 201)
  <2>1. k.guild \in Guilds
    BY <1>4 DEF BidError
  <2>2. [MarketNext]_marketvars
    BY <1>1, <1>4, <2>1, MoneyAndTime DEF MarketNext, Deal
  <2> HIDE DEF k
  <2> QED BY <1>1, <1>4, <2>2, DeclaredStatuses, CommitGoes
<1> QED BY <1>2, <1>3, <1>4 DEF Bid, Runs, Passes

(* DELETE /items/{id}/bids/{bidID}: a conflict is answered only if the     *)
(* auction that was found has been settled meanwhile.                      *)
LEMMA CancelGoes ==
  ASSUME WholeInv, CallInv, NEW c \in Clients, Cancel(c)
  PROVE  Goes(c)
<1> DEFINE k == call[c]
           e == CancelError(k.found, k.value, k.guild)
<1>1. /\ IsCall(k) /\ k.op = "CancelBid" /\ k.found \in Auctions
      /\ k.value \in Bids \cup {TooBig} /\ auction[k.found].status # "absent"
  BY InTransaction DEF Cancel, At, Resolved
<1>2. CASE e # "none" /\ Refuses(c, k, e)
  <2>1. CASE e = "AuctionNotActive"
    <3>1. auction[k.found].status = "settled"
      <4>1. auction[k.found].status # "active"
        BY <2>1 DEF CancelError
      <4> QED BY <1>1, <4>1, MoneyAndTime DEF TypeOK, AuctionRow
    <3> HIDE DEF k, e
    <3>2. Answers(c, k, 409, Null) /\ UNCHANGED marketvars
      BY <1>2, <2>1, ErrorStatuses DEF Refuses
    <3>3. Explained(Answered(k, 409, Null))
      BY <1>1, <3>1, <3>2, AnswerExact, MarketStays DEF Explained
    <3> QED BY <1>1, <3>2, <3>3, MarketStays, PlainAnswer
  <2>2. CASE e = "internal"
    <3>1. Unfit(k)
      BY <2>2 DEF CancelError, Unfit
    <3> HIDE DEF k, e
    <3> QED BY <1>1, <1>2, <2>2, <3>1, UnfitRefused
  <2>3. CASE e \notin {"AuctionNotActive", "internal"}
    <3>1. e \in {"NotFound", "CancelHighestBid", "InsufficientReserved"}
      BY <1>2, <2>3 DEF CancelError
    <3> HIDE DEF k, e
    <3>2. StatusForError(e) \in Declared(k.op) /\ StatusForError(e) # 200
      BY <1>1, <3>1, ErrorStatuses, DeclaredStatuses
    <3> QED BY <1>1, <1>2, <3>2, Refusal
  <2> QED BY <2>1, <2>2, <2>3
<1>3. CASE Fails(c, k) /\ UNCHANGED marketvars
  BY <1>3, FailedRead
<1>4. CASE /\ e = "none" /\ CancelBid(k.found, k.value, k.guild)
           /\ UNCHANGED shopTables /\ Acknowledges(c, k, 200)
  <2>0. k.value \in Bids
    BY <1>1, <1>4 DEF CancelError
  <2>1. bid[k.value].auction = k.found /\ bid[k.value].bidder = k.guild
    BY <1>4 DEF CancelBid
  <2>2. bid[k.value].status # "absent"
    BY <1>1, <2>0, <2>1, MoneyAndTime, AuctionAssumption DEF RowsConsistent
  <2>3. k.guild \in Guilds
    BY <1>1, <2>0, <2>1, <2>2, MoneyAndTime DEF RowsConsistent
  <2>4. [MarketNext]_marketvars
    BY <1>1, <1>4, <2>0, <2>3 DEF MarketNext, Deal
  <2> HIDE DEF k
  <2> QED BY <1>1, <1>4, <2>4, DeclaredStatuses, CommitGoes
<1> QED BY <1>2, <1>3, <1>4 DEF Cancel, Runs, Passes
-----------------------------------------------------------------------------
(* GET /items/{id}: three statements that only read. *)
LEMMA ReadRefused ==
  ASSUME NEW c, NEW op \in {"GetItem", "GetAuction", "GetWallet"}, NEW id, NEW known,
         Refuses(c, Asks(op, Null, id, Null), ReadError(id, known)), ReadError(id, known) # "none"
  PROVE  Goes(c)
<1> DEFINE k == Asks(op, Null, id, Null)
<1>1. IsCall(k) /\ k.op = op /\ k.id = id
  BY Asking
<1> HIDE DEF k
<1>2. CASE ReadError(id, known) = "NotFound"
  BY <1>1, <1>2, ErrorStatuses, DeclaredStatuses, Refusal DEF k
<1>3. CASE id = TooBig /\ ReadError(id, known) = "internal"
  <2>1. Unfit(k)
    BY <1>1, <1>3 DEF Unfit
  <2> QED BY <1>1, <1>3, <2>1, UnfitRefused DEF k
<1> QED BY <1>2, <1>3 DEF ReadError

LEMMA GetItemGoes ==
  ASSUME NEW c \in Clients, NEW i, GetItem(c, i)
  PROVE  Goes(c)
<1> DEFINE k == Asks("GetItem", Null, i, Null)
           m == [k EXCEPT !.step = "listing", !.body = [item |-> ItemView(i)]]
<1>1. IsCall(k) /\ k.op = "GetItem"
  BY Asking
<1>2. CASE CutOff(c, k.op, "request", 400) /\ UNCHANGED marketvars
  BY <1>2, Malformed DEF Reads
<1>3. CASE ReadError(i, KnownItems) # "none" /\ Refuses(c, k, ReadError(i, KnownItems))
  BY <1>3, ReadRefused
<1>4. CASE Fails(c, k) /\ UNCHANGED marketvars
  BY <1>4, FailedRead
<1>5. CASE Continues(c, m)
  <2> HIDE DEF k
  <2>1. IsCall(m) /\ m.op = "GetItem" /\ m.step = "listing"
    BY <1>1 DEF IsCall, Fields
  <2> HIDE DEF m
  <2> QED BY <1>5, <2>1, GoneOn DEF CallSound
<1> QED BY <1>2, <1>3, <1>4, <1>5 DEF GetItem, Asked, Runs, Passes

LEMMA GetItemListingGoes ==
  ASSUME CallInv, NEW c \in Clients, GetItemListing(c)
  PROVE  Goes(c)
<1> DEFINE k == call[c]
           m(y) == [k EXCEPT !.step = "auction", !.body = y]
           n(y) == [k EXCEPT !.step = "auction", !.fault = "database", !.body = y]
<1>1. IsCall(k) /\ k.op = "GetItem"
  BY DEF CallInv, CallSound, GetItemListing, At
<1>2. \E y : Continues(c, m(y)) \/ Continues(c, n(y))
  BY DEF GetItemListing
<1> HIDE DEF k
<1>3. \A y : /\ IsCall(m(y)) /\ m(y).op = "GetItem" /\ m(y).step = "auction"
            /\ IsCall(n(y)) /\ n(y).op = "GetItem" /\ n(y).step = "auction"
  BY <1>1 DEF IsCall, Fields
<1> HIDE DEF m, n
<1> QED BY <1>2, <1>3, GoneOn DEF CallSound

LEMMA GetItemAuctionGoes ==
  ASSUME CallInv, NEW c \in Clients, GetItemAuction(c)
  PROVE  Goes(c)
<1> DEFINE k == call[c]
           n == [k EXCEPT !.fault = "database"]
<1>1. IsCall(k) /\ k.op = "GetItem"
  BY DEF CallInv, CallSound, GetItemAuction, At
<1>2. \E y : Shows(c, k, y) \/ Shows(c, n, y)
  BY DEF GetItemAuction, ShowsWithout
<1> HIDE DEF k
<1>3. IsCall(n) /\ n.op = "GetItem"
  BY <1>1 DEF IsCall, Fields
<1> HIDE DEF n
<1> QED BY <1>1, <1>2, <1>3, DeclaredStatuses, Shown

(* GET /auctions/{id}: the row as it is read. *)
LEMMA RowSeen ==
  ASSUME CoreInv, NEW a \in Auctions, auction[a].status # "absent"
  PROVE  AuctionView(a).id = a /\ Seen(AuctionView(a), auction, bid)
<1> DEFINE row == AuctionView(a)
<1>1. /\ row.id = a /\ row.status = auction[a].status /\ row.highest = auction[a].highest
      /\ row.winner = auction[a].winner
  BY DEF AuctionView
<1> HIDE DEF row
<1>2. auction[a].highest # Null =>
        /\ auction[a].highest \in Bids /\ bid[auction[a].highest].auction = a
        /\ bid[auction[a].highest].status # "absent"
  BY AuctionAssumption DEF CoreInv, TypeOK, RowsConsistent, AuctionRow
<1>3. Seen(row, auction, bid)
  BY <1>1, <1>2 DEF Seen
<1> QED BY <1>1, <1>3 DEF row

(* What leads an auction that has been seen. *)
LEMMA LeaderAhead ==
  ASSUME WholeInv, NEW row, Seen(row, auction, bid)
  PROVE  LET b == auction[row.id].highest
         IN  /\ b = Null => row.highest = Null
             /\ b # Null => Ahead(b, row, bid)
<1> DEFINE b == auction[row.id].highest
<1>0. CoreInv /\ RowsConsistent /\ HighestIsMax /\ auction \in [Auctions -> AuctionRow]
  BY DEF WholeInv, MarketInv, CoreInv, TypeOK
<1>1. row.id \in Auctions
  BY DEF Seen
<1>2. row.highest # Null => b # Null /\ bid[row.highest].amount <= bid[b].amount
  BY <1>0, <1>1 DEF Seen, HighestIsMax
<1>3. b # Null => /\ b \in Bids /\ bid[b].auction = row.id /\ bid[b].status # "absent"
  BY <1>0, <1>1, AuctionAssumption DEF RowsConsistent, AuctionRow
<1>4. row.status = "settled" => row.highest = b
  BY DEF Seen
<1>5. row.highest # Null => bid[b].amount >= bid[row.highest].amount
  <2>1. row.highest # Null => bid[b].amount \in Int /\ bid[row.highest].amount \in Int
    BY <1>0, <1>2, <1>3 DEF Seen, CoreInv, TypeOK, BidRow
  <2> QED BY <1>2, <2>1
<1> HIDE DEF b
<1>6. b # Null => Ahead(b, row, bid)
  BY <1>3, <1>4, <1>5 DEF Ahead
<1> QED BY <1>2, <1>6 DEF b

LEMMA GetAuctionGoes ==
  ASSUME WholeInv, NEW c \in Clients, NEW a, GetAuction(c, a)
  PROVE  Goes(c)
<1> DEFINE k == Asks("GetAuction", Null, a, Null)
           known == {x \in Auctions : auction[x].status # "absent"}
           view == AuctionView(a)
           m == [k EXCEPT !.step = "row", !.body = [auction |-> view]]
<1>1. IsCall(k) /\ k.op = "GetAuction" /\ k.id = a
  BY Asking
<1>2. CASE CutOff(c, k.op, "request", 400) /\ UNCHANGED marketvars
  BY <1>2, Malformed DEF Reads
<1>3. CASE ReadError(a, known) # "none" /\ Refuses(c, k, ReadError(a, known))
  BY <1>3, ReadRefused
<1>4. CASE Fails(c, k) /\ UNCHANGED marketvars
  BY <1>4, FailedRead
<1>5. CASE ReadError(a, known) = "none" /\ Continues(c, m)
  <2>0. a \in Auctions /\ auction[a].status # "absent"
    BY <1>5 DEF ReadError
  <2>1. view.id = a /\ Seen(view, auction, bid)
    BY <2>0, MoneyAndTime, RowSeen
  <2> HIDE DEF k, view
  <2>2. /\ IsCall(m) /\ m.op = "GetAuction" /\ m.step = "row" /\ m.id = a
        /\ m.body = [auction |-> view]
    BY <1>1 DEF IsCall, Fields
  <2>3. DOMAIN [auction |-> view] = {"auction"} /\ [auction |-> view].auction = view
    OBVIOUS
  <2> HIDE DEF m
  <2>4. Reading(m, auction, bid)
    BY <2>1, <2>2, <2>3 DEF Reading
  <2> QED BY <1>5, <2>2, <2>4, GoneOn DEF CallSound
<1> QED BY <1>2, <1>3, <1>4, <1>5 DEF GetAuction, Asked, Runs, Passes

(* The leader is added to an answer that holds the row. *)
LEMMA LeaderAdded ==
  ASSUME NEW y, DOMAIN y = {"auction"}, NEW v
  PROVE  LET z == With(y, "leader", v) IN z.auction = y.auction /\ z.leader = v
  BY DEF With

(* An answer that shows a leader that fits the row. *)
LEMMA LeaderShown ==
  ASSUME NEW c, NEW k, NEW v, IsCall(k), k.op = "GetAuction", DOMAIN k.body = {"auction"},
         Shows(c, k, With(k.body, "leader", v)), Seen(k.body.auction, auction, bid),
         LeaderFits(k.body.auction, v, bid, k.fault)
  PROVE  Goes(c)
<1> DEFINE y == With(k.body, "leader", v)
           m == Answered(k, 200, y)
<1>1. y.auction = k.body.auction /\ y.leader = v
  BY LeaderAdded
<1>2. call' = [call EXCEPT ![c] = m] /\ UNCHANGED marketvars
  BY DEF Shows, Answers, Answered
<1> HIDE DEF y
<1>3. IsCall(m) /\ m.op = "GetAuction" /\ m.step = "done" /\ m.status = 200 /\ m.body = y
      /\ m.fault = k.fault
  BY AnswerExact
<1> HIDE DEF m
<1>4. Reading(m, auction, bid)
  BY <1>1, <1>3 DEF Reading
<1>5. Explained(m)
  BY <1>3, DeclaredStatuses DEF Explained
<1>6. CallSound(m, auction, bid)
  BY <1>3, <1>4 DEF CallSound
<1> QED BY <1>2, <1>5, <1>6, MarketStays DEF Goes, Becomes

(* The read of the leader fails, and none is shown. *)
LEMMA LeaderMissing ==
  ASSUME CallInv, NEW c \in Clients, call[c].op = "GetAuction",
         call[c].step \in {"row", "bid"}, ShowsWithout(c, "leader")
  PROVE  Goes(c)
<1> DEFINE k == call[c]
           n == [k EXCEPT !.fault = "database"]
<1>1. /\ IsCall(k) /\ k.op = "GetAuction" /\ DOMAIN k.body = {"auction"}
      /\ Seen(k.body.auction, auction, bid)
  BY DEF CallInv, CallSound, Reading
<1>2. Shows(c, n, With(k.body, "leader", Null))
  BY DEF ShowsWithout
<1> HIDE DEF k
<1>3. IsCall(n) /\ n.op = "GetAuction" /\ n.fault = "database" /\ n.body = k.body
  BY <1>1 DEF IsCall, Fields
<1> HIDE DEF n
<1>4. LeaderFits(n.body.auction, Null, bid, n.fault)
  BY <1>3 DEF LeaderFits
<1> QED BY <1>1, <1>2, <1>3, <1>4, LeaderShown

(* The auction is read again for its leader ... *)
LEMMA HighestBidIdGoes ==
  ASSUME WholeInv, CallInv, NEW c \in Clients, HighestBidId(c)
  PROVE  Goes(c)
<1> DEFINE k == call[c]
           b == auction[k.id].highest
           row == k.body.auction
           m == [k EXCEPT !.step = "bid", !.found = b]
<1>1. /\ IsCall(k) /\ k.op = "GetAuction" /\ DOMAIN k.body = {"auction"} /\ row.id = k.id
      /\ Seen(row, auction, bid)
  BY DEF CallInv, CallSound, Reading, HighestBidId, At
<1>2. (b = Null => row.highest = Null) /\ (b # Null => Ahead(b, row, bid))
  BY <1>1, LeaderAhead
<1>3. CASE b = Null /\ Shows(c, k, With(k.body, "leader", Null))
  <2>1. LeaderFits(row, Null, bid, k.fault)
    BY <1>2, <1>3 DEF LeaderFits
  <2> HIDE DEF k, b
  <2> QED BY <1>1, <1>3, <2>1, LeaderShown
<1>4. CASE b # Null /\ Continues(c, m)
  <2> HIDE DEF k, b
  <2>1. /\ IsCall(m) /\ m.op = "GetAuction" /\ m.step = "bid" /\ m.id = k.id /\ m.found = b
        /\ m.body = k.body
    BY <1>1 DEF IsCall, Fields
  <2> HIDE DEF m
  <2>2. Reading(m, auction, bid)
    BY <1>1, <1>2, <1>4, <2>1 DEF Reading
  <2> QED BY <1>4, <2>1, <2>2, GoneOn DEF CallSound
<1>5. CASE ShowsWithout(c, "leader")
  BY <1>5, LeaderMissing DEF HighestBidId, At
<1> QED BY <1>3, <1>4, <1>5 DEF HighestBidId

(* ... and then that bid. *)
LEMMA HighestBidGoes ==
  ASSUME WholeInv, CallInv, NEW c \in Clients, HighestBid(c)
  PROVE  Goes(c)
<1> DEFINE k == call[c]
           b == k.found
           row == k.body.auction
           leader == BidView(b)
<1>1. /\ IsCall(k) /\ k.op = "GetAuction" /\ DOMAIN k.body = {"auction"}
      /\ Seen(row, auction, bid) /\ Ahead(b, row, bid)
  BY DEF CallInv, CallSound, Reading, HighestBid, At
<1>2. SUFFICES ASSUME Shows(c, k, With(k.body, "leader", leader)) PROVE Goes(c)
  BY LeaderMissing DEF HighestBid, At
<1>3. b \in Bids /\ bid[b].status # "absent" /\ bid[b].auction = row.id /\ row.id \in Auctions
  BY <1>1 DEF Ahead, Seen
<1>4. /\ leader.id = b /\ leader.auction = bid[b].auction /\ leader.bidder = bid[b].bidder
      /\ leader.amount = bid[b].amount
  BY DEF BidView
<1>5. leader # Null
  <2>1. bid[b] \in BidRow /\ bid[b].auction \in Auctions /\ bid[b].bidder \in Guilds
    BY <1>3, MoneyAndTime DEF TypeOK, RowsConsistent
  <2>2. /\ bid[b].amount \in Int
        /\ bid[b].status \in {"active", "released", "cancelled", "won"}
    BY <1>3, <2>1 DEF BidRow
  <2> HIDE DEF b
  <2>3. BidView(b) \in BidViews
    BY <1>3, <2>1, <2>2 DEF BidView, BidViews
  <2> QED BY <2>3, NullIsNoView
<1>6. row.status = "settled" => row.highest = b /\ row.winner = bid[b].bidder
  <2>1. row.status = "settled" =>
          /\ auction[row.id].status = "settled" /\ row.highest = b
          /\ row.highest = auction[row.id].highest /\ row.winner = auction[row.id].winner
    BY <1>1 DEF Seen, Ahead
  <2>2. b # Null
    BY <1>3, AuctionAssumption
  <2> QED BY <1>3, <2>1, <2>2 DEF WholeInv, WinnersLead
<1>7. row.highest # Null => bid[b].amount >= bid[row.highest].amount
  BY <1>1 DEF Ahead
<1>8. b # Null
  BY <1>3, AuctionAssumption
<1> HIDE DEF k, b, row, leader
<1>9. LeaderFits(row, leader, bid, k.fault)
  BY <1>3, <1>4, <1>5, <1>6, <1>7, <1>8 DEF LeaderFits
<1> QED BY <1>1, <1>2, <1>9, LeaderShown DEF row

(* GET /wallets/{id}, GET /items and GET /auctions. *)
LEMMA GetWalletGoes ==
  ASSUME NEW c \in Clients, NEW g, GetWallet(c, g)
  PROVE  Goes(c)
<1> DEFINE k == Asks("GetWallet", Null, g, Null)
<1>1. IsCall(k) /\ k.op = "GetWallet"
  BY Asking
<1>2. CASE CutOff(c, k.op, "request", 400) /\ UNCHANGED marketvars
  BY <1>2, Malformed DEF Reads
<1>3. CASE ReadError(g, Guilds) # "none" /\ Refuses(c, k, ReadError(g, Guilds))
  BY <1>3, ReadRefused
<1>4. CASE Fails(c, k) /\ UNCHANGED marketvars
  BY <1>4, FailedRead
<1>5. CASE Shows(c, k, Balance(g))
  <2> HIDE DEF k
  <2> QED BY <1>1, <1>5, DeclaredStatuses, Shown
<1> QED BY <1>2, <1>3, <1>4, <1>5 DEF GetWallet, Asked, Runs, Passes

LEMMA ListsGo ==
  ASSUME NEW c \in Clients, ListItems(c) \/ ListAuctions(c)
  PROVE  Goes(c)
<1>1. PICK op, y : /\ op \in {"ListItems", "ListAuctions"}
                   /\ \/ Shows(c, Asks(op, Null, Null, Null), y)
                      \/ Fails(c, Asks(op, Null, Null, Null)) /\ UNCHANGED marketvars
  BY DEF ListItems, ListAuctions, Asked, Runs, Passes
<1> DEFINE k == Asks(op, Null, Null, Null)
<1>2. IsCall(k) /\ k.op = op /\ op \in {"ListItems", "ListAuctions"}
  BY <1>1, Asking
<1>3. Shows(c, k, y) \/ (Fails(c, k) /\ UNCHANGED marketvars)
  BY <1>1
<1> HIDE DEF k
<1> QED BY <1>2, <1>3, DeclaredStatuses, Shown, FailedRead

LEMMA ReturnsGoes ==
  ASSUME NEW c \in Clients, Returns(c)
  PROVE  Goes(c)
<1>1. IsCall(Idle) /\ Idle.op = "none" /\ Idle.step = "idle"
  BY DEF Idle, IsCall, Fields
<1>2. CallSound(Idle, auction, bid)
  BY <1>1 DEF CallSound
<1> QED BY <1>1, <1>2, GoneOn DEF Returns
-----------------------------------------------------------------------------
(* Whatever a client does is a step the market allows. *)
LEMMA ClientGoes ==
  ASSUME WholeInv, CallInv, NEW c \in Clients,
         \/ Register(c) \/ Write(c) \/ Read(c) \/ Continue(c) \/ Returns(c)
         \/ \E op \in Writes : TurnsAway(c, op)
  PROVE  Goes(c)
<1>1. CASE Register(c)
  BY <1>1, CreateItemGoes DEF Register
<1>2. CASE Write(c)
  BY <1>2, ListItemGoes, OpenAuctionGoes, BuyItemGoes, PlaceBidOnItemGoes, CancelBidOnItemGoes
  DEF Write
<1>3. CASE Read(c)
  BY <1>3, GetItemGoes, GetAuctionGoes, GetWalletGoes, ListsGo DEF Read
<1>4. CASE Continue(c)
  BY <1>4, BuyGoes, BidGoes, CancelGoes, GetItemListingGoes, GetItemAuctionGoes,
     HighestBidIdGoes, HighestBidGoes DEF Continue
<1> QED BY <1>1, <1>2, <1>3, <1>4, ReturnsGoes, TurnsAwayGoes

LEMMA ApiStep ==
  ASSUME WholeInv, CallInv, [ApiNext]_apivars
  PROVE  CallInv' /\ AnswersExplained /\ [MarketNext]_marketvars
<1>1. ASSUME NEW c \in Clients,
             \/ Register(c) \/ Write(c) \/ Read(c) \/ Continue(c) \/ Returns(c)
             \/ \E op \in Writes : TurnsAway(c, op)
      PROVE  CallInv' /\ AnswersExplained /\ [MarketNext]_marketvars
  <2>1. Goes(c)
    BY <1>1, ClientGoes
  <2> QED BY <2>1, GoesKeeps DEF Goes
<1>2. CASE [MarketNext]_marketvars /\ call' = call
  <2>1. \A c \in Clients : CallSound(call[c], auction', bid')
    BY <1>2, MarketRemembers, CallKept DEF CallInv
  <2> QED BY <1>2, <2>1 DEF CallInv, AnswersExplained
<1>3. CASE UNCHANGED apivars
  BY <1>2, <1>3 DEF apivars
<1> QED BY <1>1, <1>2, <1>3 DEF ApiNext, Others

LEMMA ApiInitial == ApiInit => MarketInit /\ CallInv
<1> SUFFICES ASSUME ApiInit PROVE CallInv
  BY DEF ApiInit
<1>1. IsCall(Idle) /\ Idle.op = "none" /\ Idle.step = "idle"
  BY DEF Idle, IsCall, Fields
<1>2. CallSound(Idle, auction, bid)
  BY <1>1 DEF CallSound
<1> QED BY <1>2 DEF ApiInit, CallInv

(* The API is an implementation of the market: whatever mixture of calls   *)
(* the handlers serve, the tables move only as the services let them.      *)
THEOREM ApiImplementsMarket == ApiSpec => MarketSpec
<1>1. WholeInv /\ CallInv /\ [ApiNext]_apivars => WholeInv' /\ CallInv' /\ [MarketNext]_marketvars
  BY ApiStep, MarketStep
<1> QED BY <1>1, ApiInitial, MarketInitial, PTL DEF ApiSpec, MarketSpec

THEOREM CallInvariant == ApiSpec => [](WholeInv /\ CallInv)
<1>1. WholeInv /\ CallInv /\ [ApiNext]_apivars => WholeInv' /\ CallInv'
  BY ApiStep, MarketStep
<1> QED BY <1>1, ApiInitial, MarketInitial, PTL DEF ApiSpec

(* So the whole market stays sound under the calls of any number of clients: *)
(* no wallet is over-committed, every leader of an open auction is funded,   *)
(* no money appears or vanishes, and the ledger explains every balance.      *)
THEOREM ApiKeepsMarket ==
  ApiSpec => [](WalletSound /\ LeaderFunded /\ MarketReconciles /\ MoneyConserved
                /\ ReservedBacked /\ ItemInOneAuction /\ HighestIsMax /\ NeverSettledEarly)
<1>1. WholeInv => /\ WalletSound /\ LeaderFunded /\ MarketReconciles /\ MoneyConserved
                  /\ ReservedBacked /\ ItemInOneAuction /\ HighestIsMax /\ NeverSettledEarly
  BY LeaderAlwaysFunded, OneOpenIsItemInOneAuction DEF WholeInv, MarketInv, CoreInv
<1> QED BY <1>1, CallInvariant, PTL

(* And its rules are kept, whatever arguments the calls carry: handlers have *)
(* no way to move money or items but the market's trades.                    *)
THEOREM ApiKeepsRules ==
  ApiSpec => MoneyMovesByTrade /\ RaisedByFivePercent /\ AntiSnipe /\ TransferWithPayment
BY ApiImplementsMarket, MoneyAlwaysTraded, MarketKeepsRules

(* Every answer is one its route declares or one of the exceptions that    *)
(* StatusesExplained names, whatever fails, whatever its arguments are and *)
(* whatever the other clients and the worker do while the call runs.       *)
THEOREM StatusesAlwaysExplained == ApiSpec => StatusesExplained
<1>1. ASSUME WholeInv, CallInv, [ApiNext]_apivars
      PROVE  \A c \in Clients : call[c].step # "done" /\ call'[c].step = "done" =>
               LET k == call'[c]
               IN  \/ k.status \in Declared(k.op)
                   \/ k.status = 400 /\ k.op \in Reads /\ k.fault = "request"
                   \/ k.status = 409 /\ k.op \in Writes /\ k.fault = "key"
                   \/ k.status = 409 /\ k.op = "CancelBid" /\ auction[k.found].status = "settled"
                   \/ k.status = 500 /\ (k.fault = "database" \/ Unfit(k))
                   \/ k.status = 500 /\ k.op \in {"BuyItem", "PlaceBid"} /\ k.guild \in Strangers
                   \/ /\ k.status = 500 /\ k.op \in {"BuyItem", "CreateItem"}
                      /\ seq' # seq /\ seq' \in DOMAIN SeedGoods
                   \/ k.status = 500 /\ k.op = "BuyItem" /\ k.guild \in Guilds /\ ~AddsUp(k)
  BY <1>1, ApiStep DEF AnswersExplained, Explained
<1>2. WholeInv /\ CallInv /\ [ApiNext]_apivars =>
        [\A c \in Clients : call[c].step # "done" /\ call'[c].step = "done" =>
           LET k == call'[c]
           IN  \/ k.status \in Declared(k.op)
               \/ k.status = 400 /\ k.op \in Reads /\ k.fault = "request"
               \/ k.status = 409 /\ k.op \in Writes /\ k.fault = "key"
               \/ k.status = 409 /\ k.op = "CancelBid" /\ auction[k.found].status = "settled"
               \/ k.status = 500 /\ (k.fault = "database" \/ Unfit(k))
               \/ k.status = 500 /\ k.op \in {"BuyItem", "PlaceBid"} /\ k.guild \in Strangers
               \/ /\ k.status = 500 /\ k.op \in {"BuyItem", "CreateItem"}
                  /\ seq' # seq /\ seq' \in DOMAIN SeedGoods
               \/ k.status = 500 /\ k.op = "BuyItem" /\ k.guild \in Guilds /\ ~AddsUp(k)]_apivars
  BY <1>1
<1> QED BY <1>2, CallInvariant, PTL DEF ApiSpec, StatusesExplained

(* The leader an auction is shown with is never behind the row it is shown *)
(* with, although the two are read by different statements, and is missing *)
(* only if the row names none or the later statement failed.               *)
THEOREM LeaderNeverOlder == ApiSpec => []LeaderNotOlder
<1>1. CallInv => LeaderNotOlder
  BY DEF CallInv, CallSound, Reading, LeaderFits, LeaderNotOlder
<1> QED BY <1>1, CallInvariant, PTL
=============================================================================
