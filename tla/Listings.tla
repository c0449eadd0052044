------------------------------ MODULE Listings ------------------------------
(***************************************************************************)
(* Items and fixed-price listings (internal/service/item.go, listing.go,   *)
(* the seed of model/seed.go) as their transactions commit: registering an *)
(* item, listing it, buying one unit of it within the buyer's balance and  *)
(* daily cap.  A rejected operation rolls back and is a stuttering step.   *)
(*                                                                         *)
(* items.id is a BIGSERIAL: a new row takes the next value of a sequence,  *)
(* which a rollback does not give back and an explicit id does not move.   *)
(*                                                                         *)
(* Buy reads the clock three times: for the day whose spending it checks,  *)
(* for the day it charges, and for sold_at.  Midnight may fall in between. *)
(***************************************************************************)
EXTENDS Wallets, Functions, FiniteSets

CONSTANTS
  MaxItems,    \* bound on items.id
  SeedGoods,   \* the rows the seed inserts, at the ids it gives them
  Products,    \* names of items
  NewTiers,    \* tiers and stocks a request to register an item may carry
  Stocks,
  ListingIds,  \* ids of the listings table
  Prices,      \* prices a request may carry
  Cap,         \* daily_purchase_cap of each guild; 0 means unlimited
  Day,         \* UTC date of each instant of the clock
  Days,        \* the dates the clock reaches
  MaxTime,     \* bound on the clock
  Null         \* SQL NULL

Goods == 1 .. MaxItems

Tiers == {"common", "rare", "legendary"}

GoodRow == [product : Products \cup {Null}, tier : Tiers \cup {Null},
            owner : Guilds \cup {Null}, stock : Int,
            status : {"absent", "available", "sold"}]

ASSUME ListingAssumption ==
  /\ MaxItems \in Nat
  /\ DOMAIN SeedGoods \subseteq Goods
  /\ \A i \in DOMAIN SeedGoods :
       /\ SeedGoods[i] \in GoodRow
       /\ SeedGoods[i].product \in Products /\ SeedGoods[i].owner \in Guilds
       /\ SeedGoods[i].stock \in Nat \ {0}
       /\ SeedGoods[i].status = "available"
  /\ NewTiers \subseteq Tiers /\ Stocks \subseteq Int
  /\ Prices \subseteq -Half .. Half - 1
  /\ Cap \in [Guilds -> 0 .. Half - 1]
  /\ MaxTime \in Nat
  /\ Days \subseteq Nat /\ Day \in [0 .. MaxTime -> Days]
  /\ \A s, t \in 0 .. MaxTime : s <= t => Day[s] <= Day[t]
  /\ Null \notin Guilds \cup Goods \cup Products
  /\ IsFiniteSet(Guilds) /\ IsFiniteSet(ListingIds) /\ IsFiniteSet(Days)

(* All the money in the market fits an int64. *)
ASSUME BalancesFit == SumFunctionOnSet(InitTotal, Guilds) < Half

VARIABLES
  now,         \* the wall clock
  good,        \* items table
  seq,         \* items_id_seq: the last id it handed out
  listing,     \* listings table
  spent        \* daily_purchase_totals: spent[g][d], 0 without a row

lvars == <<now, wallets, good, seq, listing, spent>>

ListingRow == [item : Goods \cup {Null}, seller : Guilds \cup {Null}, price : Int,
               status : {"absent", "open", "sold"},
               buyer : Guilds \cup {Null}, soldAt : Nat]

NoGood == [product |-> Null, tier |-> Null, owner |-> Null, stock |-> 0, status |-> "absent"]

NoListing == [item |-> Null, seller |-> Null, price |-> 0, status |-> "absent",
              buyer |-> Null, soldAt |-> 0]

ListingsTypeOK ==
  /\ now \in 0 .. MaxTime
  /\ wallets \in WalletsType
  /\ good \in [Goods -> GoodRow]
  /\ seq \in 0 .. MaxItems
  /\ listing \in [ListingIds -> ListingRow]
  /\ spent \in [Guilds -> [Days -> Int]]

ListingsInit ==
  /\ now = 0
  /\ WalletsInit
  /\ good = [i \in Goods |-> NoGood]
  /\ seq = 0
  /\ listing = [l \in ListingIds |-> NoListing]
  /\ spent = [g \in Guilds |-> [d \in Days |-> 0]]
-----------------------------------------------------------------------------
NewGood(p, tier, g, n) ==
  [product |-> p, tier |-> tier, owner |-> g, stock |-> n, status |-> "available"]

(* An insert takes the next id, which must not be there yet. *)
NextId == seq + 1

TakesId == seq < MaxItems /\ seq' = NextId

CanInsert == good[NextId].status = "absent"

(* Fault: the seed updates the rows it finds. *)
SeedAgain ==
  /\ good' = [i \in Goods |-> IF i \in DOMAIN SeedGoods THEN SeedGoods[i] ELSE good[i]]
  /\ UNCHANGED <<now, wallets, seq, listing, spent>>

(* The seed skips the ids it finds, and leaves the sequence alone.  Its    *)
(* guilds and wallets are those of WalletsInit.                            *)
Seed ==
  /\ good' = [i \in Goods |-> IF i \in DOMAIN SeedGoods /\ good[i].status = "absent"
                             THEN SeedGoods[i] ELSE good[i]]
  /\ UNCHANGED <<now, wallets, seq, listing, spent>>

(* Nothing looks for another item of the same name. *)
CreateItem(g, p, tier, n) ==
  /\ tier # "legendary" => n >= 1
  /\ TakesId
  /\ \/ /\ CanInsert
        /\ good' = [good EXCEPT ![NextId] =
                      NewGood(p, tier, g, IF tier = "legendary" THEN 1 ELSE n)]
     \/ UNCHANGED good                                    \* rolled back
  /\ UNCHANGED <<now, wallets, listing, spent>>

(* Fault: anyone may list the item. *)
CreateListingOfAnyone(g, i, p, l) ==
  /\ EnsurePositive(p)
  /\ good[i].tier # "legendary"
  /\ good[i].stock >= 1
  /\ listing[l].status = "absent"
  /\ listing' = [listing EXCEPT ![l] =
       [item |-> i, seller |-> g, price |-> p, status |-> "open", buyer |-> Null, soldAt |-> 0]]
  /\ UNCHANGED <<now, wallets, good, seq, spent>>

(* Listing an item neither reserves a unit nor marks the item, so one unit *)
(* may be listed several times.                                            *)
CreateListing(g, i, p, l) ==
  /\ EnsurePositive(p)
  /\ good[i].owner = g
  /\ good[i].tier # "legendary"
  /\ good[i].stock >= 1
  /\ listing[l].status = "absent"
  /\ listing' = [listing EXCEPT ![l] =
       [item |-> i, seller |-> g, price |-> p, status |-> "open", buyer |-> Null, soldAt |-> 0]]
  /\ UNCHANGED <<now, wallets, good, seq, spent>>

(* The buyer's wallet is locked before the clock is read, and its previous *)
(* purchase held that lock until it committed.                             *)
ReadAfterLastPurchase(g, t) ==
  \A l \in ListingIds : listing[l].buyer = g => listing[l].soldAt <= t

(* Fault: the sum is trusted to fit.                                      *)
CanAlwaysAddDailySpent(g, d, p) == TRUE

(* addDailySpent: the upsert, which PostgreSQL refuses when the BIGINT     *)
(* would overflow.                                                         *)
CanAddDailySpent(g, d, p) == spent[g][d] + p \in -Half .. Half - 1

(* Fault: the upsert replaces the day's total.                             *)
ReplaceDailySpent(g, d, p) == [spent EXCEPT ![g] = [spent[g] EXCEPT ![d] = p]]

AddDailySpent(g, d, p) == [spent EXCEPT ![g] = [spent[g] EXCEPT ![d] = spent[g][d] + p]]

(* Fault: the last unit does not mark the item sold. *)
TakeUnitUnmarked(i) == [good[i] EXCEPT !.stock = @ - 1]

(* Fault: the seller keeps the unit. *)
TakeNoUnit(i) == good[i]

TakeUnit(i) ==
  [good[i] EXCEPT !.stock = @ - 1, !.status = IF good[i].stock = 1 THEN "sold" ELSE @]

(* Fault: the listing stays open after the sale. *)
MarkBuyer(l, g, s) == [listing EXCEPT ![l].buyer = g, ![l].soldAt = s]

MarkSold(l, g, s) == [listing EXCEPT ![l].status = "sold", ![l].buyer = g, ![l].soldAt = s]

(* t, u, s: the three readings of the clock, in this order.                *)
Buy(g, l, t, u, s) ==
  LET i == listing[l].item
      price == listing[l].price
      seller == listing[l].seller
  IN  /\ listing[l].status = "open"
      /\ seller # g
      /\ good[i].stock >= 1
      /\ t <= u /\ u <= s /\ ReadAfterLastPurchase(g, t)
      /\ EnsureWithinDailyCap(Cap[g], spent[g][Day[t]], price)
      /\ CanDebit(wallets, g, price)
      /\ CanCredit(price)
      /\ TakesId
      /\ \/ /\ CanInsert
            /\ CanAddDailySpent(g, Day[u], price)
            /\ wallets' = Credit(Debit(wallets, g, price, "debit_listing"),
                                 seller, price, "credit_listing")
            /\ good' = [good EXCEPT ![i] = TakeUnit(i),
                                    ![NextId] = NewGood(good[i].product, good[i].tier, g, 1)]
            /\ spent' = AddDailySpent(g, Day[u], price)
            /\ listing' = MarkSold(l, g, s)
         \/ UNCHANGED <<wallets, good, spent, listing>>   \* rolled back
      /\ UNCHANGED now

ClockTick ==
  /\ now < MaxTime
  /\ now' = now + 1
  /\ UNCHANGED <<wallets, good, seq, listing, spent>>

Trade ==
  \/ Seed
  \/ \E g \in Guilds, p \in Products, tier \in NewTiers, n \in Stocks : CreateItem(g, p, tier, n)
  \/ \E g \in Guilds, i \in Goods, p \in Prices, l \in ListingIds : CreateListing(g, i, p, l)
  \/ \E g \in Guilds, l \in ListingIds, t, u, s \in 0 .. now : Buy(g, l, t, u, s)

ListingsNext == Trade \/ ClockTick

ListingsSpec == ListingsInit /\ [][ListingsNext]_lvars
-----------------------------------------------------------------------------
(* listing.go: "buyers never over-commit or exceed their daily cap".       *)
CapNeverExceeded ==
  \A g \in Guilds, d \in Days : Cap[g] # 0 => spent[g][d] <= Cap[g]

(* The one way past a cap: spent + price wraps around in                   *)
(* EnsureWithinDailyCap, so that the check passes, and midnight falls      *)
(* before the charge, so that the sum is not refused by its column.        *)
WrappedAtMidnight(g, d) ==
  \E l \in ListingIds, checked \in Days :
    /\ listing[l].status = "sold" /\ listing[l].buyer = g
    /\ listing[l].price = spent[g][d]
    /\ checked < d /\ spent[g][checked] + listing[l].price >= Half

(* No guild is charged more than its cap on any day, but for that purchase, *)
(* which is then the only one of its day: not by purchases of the same     *)
(* buyer that race, not by one that crosses midnight with a sum that fits. *)
DailyCapRespected ==
  \A g \in Guilds, d \in Days :
    Cap[g] # 0 => spent[g][d] \in 0 .. Cap[g] \/ WrappedAtMidnight(g, d)

(* What is charged against the caps is what left the wallets, and that is  *)
(* the price of the listings bought; the sellers received the same prices. *)
PaidBy(g) ==
  [l \in ListingIds |-> IF listing[l].status = "sold" /\ listing[l].buyer = g
                        THEN listing[l].price ELSE 0]

PaidTo(g) ==
  [l \in ListingIds |-> IF listing[l].status = "sold" /\ listing[l].seller = g
                        THEN listing[l].price ELSE 0]

SalesReconcile ==
  \A g \in Guilds :
    LET ledger == wallets.ledger[g]
    IN  /\ ledger["debit_listing"] = SumFunctionOnSet(PaidBy(g), ListingIds)
        /\ ledger["debit_listing"] = SumFunctionOnSet(spent[g], Days)
        /\ ledger["credit_listing"] = SumFunctionOnSet(PaidTo(g), ListingIds)
        /\ wallets.total[g] = InitTotal[g] + ledger["credit_listing"] - ledger["debit_listing"]

(* However many open listings one item has, its stock never goes below     *)
(* zero, and it is marked sold exactly when none is left.                  *)
SoldOutAtZero ==
  \A i \in Goods : /\ good[i].stock >= 0
                   /\ good[i].status = "sold" => good[i].stock = 0
                   /\ good[i].status = "available" => good[i].stock > 0

(* A sale hands one unit of one product from the seller to the buyer and   *)
(* the price the other way: units are neither lost nor made.               *)
UnitsHeld(g, p) ==
  SumFunctionOnSet([i \in Goods |-> IF good[i].owner = g /\ good[i].product = p
                                    THEN good[i].stock ELSE 0], Goods)

Sells(l, seller, buyer) ==
  /\ listing[l].status = "open" /\ listing[l].seller = seller
  /\ listing'[l].status = "sold" /\ listing'[l].buyer = buyer

UnitForMoney ==
  [][\A l \in ListingIds, seller, buyer \in Guilds : Sells(l, seller, buyer) =>
       /\ \E p \in Products :
            /\ UnitsHeld(buyer, p)' = UnitsHeld(buyer, p) + 1
            /\ UnitsHeld(seller, p)' = UnitsHeld(seller, p) - 1
       /\ wallets'.total[buyer] = wallets.total[buyer] - listing[l].price
       /\ wallets'.total[seller] = wallets.total[seller] + listing[l].price]_lvars

(* A legendary is never offered or sold at a fixed price, and whoever      *)
(* listed an item still owns it, so that the seller paid is the owner.     *)
ListedByOwner ==
  \A l \in ListingIds : listing[l].status # "absent" =>
    /\ good[listing[l].item].owner = listing[l].seller
    /\ good[listing[l].item].tier # "legendary"
    /\ listing[l].price > 0

(* Seeding again is safe: an item that is there changes only by the sale   *)
(* of one of its units, so a seed never undoes a trade.                    *)
SeedKeepsTrades ==
  [][\A i \in Goods : good[i].status # "absent" /\ good'[i] # good[i] =>
       \E l \in ListingIds, seller, buyer \in Guilds :
         /\ listing[l].item = i
         /\ Sells(l, seller, buyer)]_lvars

(* README.md: POST /items registers a new item.  A valid registration (and *)
(* a purchase, which inserts the buyer's item) always finds its id free.   *)
RegistrationSucceeds == seq < MaxItems => CanInsert
=============================================================================
