-------------------------- MODULE ListingsTheorems --------------------------
(***************************************************************************)
(* Theorems about Listings, for every set of guilds, products and ids,     *)
(* every balance, price, cap and width of the integers, and any number of  *)
(* midnights; and then that BuyTx implements Listings, for every number of *)
(* sessions: what a session has read stays true of the committed tables    *)
(* until its transaction ends, because of the rows it has locked.          *)
(***************************************************************************)
EXTENDS BuyTx, WalletTheorems, TLAPS

Money == SumFunctionOnSet(InitTotal, Guilds)

(* References between the tables, and what the rows of each status carry.  *)
RowsConsistent ==
  /\ \A i \in Goods :
       /\ good[i].status = "absent" => good[i] = NoGood
       /\ good[i].status # "absent" => good[i].owner \in Guilds /\ good[i].product \in Products
  /\ \A l \in ListingIds :
       /\ listing[l].status # "absent" =>
            /\ listing[l].item \in Goods /\ listing[l].seller \in Guilds
            /\ good[listing[l].item].status # "absent"
       /\ listing[l].status = "sold" =>
            /\ listing[l].buyer \in Guilds /\ listing[l].soldAt \in 0 .. now
       /\ listing[l].status # "sold" => listing[l].buyer = Null

(* Nothing is reserved here, and the money stays in the market. *)
BalancesSound ==
  /\ \A g \in Guilds : wallets.total[g] \in Nat /\ wallets.reserved[g] = 0
  /\ SumFunctionOnSet(wallets.total, Guilds) = Money

(* What is charged to a day was bought on it or later: once the clock has  *)
(* passed a guild's last purchase, the days after it are free of charges.  *)
ChargedBySales ==
  \A g \in Guilds, d \in Days :
    /\ spent[g][d] \in 0 .. Half - 1
    /\ spent[g][d] # 0 => \E l \in ListingIds : /\ listing[l].status = "sold"
                                                /\ listing[l].buyer = g
                                                /\ d <= Day[listing[l].soldAt]

TradeInv ==
  /\ ListingsTypeOK
  /\ RowsConsistent
  /\ BalancesSound
  /\ SoldOutAtZero
  /\ ListedByOwner
  /\ ChargedBySales
  /\ DailyCapRespected
  /\ SalesReconcile
-----------------------------------------------------------------------------
LEMMA MoneyFits == Money \in Nat /\ Money < Half
  BY SumNat, GuildsAssumption, ListingAssumption, BalancesFit DEF Money

(* No two wallets together hold more than the money in the market. *)
LEMMA TwoWallets ==
  ASSUME BalancesSound, NEW g \in Guilds, NEW h \in Guilds, g # h
  PROVE  wallets.total[g] + wallets.total[h] <= Money
<1> DEFINE f == wallets.total
<1>1. IsFiniteSet(Guilds) /\ \A x \in Guilds : f[x] \in Nat
  BY ListingAssumption DEF BalancesSound
<1> HIDE DEF f
<1>2. f[g] + f[h] <= SumFunctionOnSet(f, Guilds)
  BY <1>1, SumBoundsTwo
<1> QED BY <1>2 DEF BalancesSound, f

-----------------------------------------------------------------------------
(* Buy.  The money a committed purchase moves, with exact arithmetic. *)
BuyMoney(g, l, t, u, s) ==
  LET p == listing[l].price
      seller == listing[l].seller
  IN  /\ p \in Int /\ p > 0 /\ p < Half /\ p <= wallets.total[g]
      /\ g # seller /\ seller \in Guilds
      /\ wallets' \in WalletsType
      /\ \A h \in Guilds :
           /\ wallets'.reserved[h] = wallets.reserved[h]
           /\ wallets'.total[h] = IF h = g THEN wallets.total[h] - p
                                  ELSE IF h = seller THEN wallets.total[h] + p
                                  ELSE wallets.total[h]
           /\ wallets'.ledger[h]["debit_listing"] =
                wallets.ledger[h]["debit_listing"] + (IF h = g THEN p ELSE 0)
           /\ wallets'.ledger[h]["credit_listing"] =
                wallets.ledger[h]["credit_listing"] + (IF h = seller THEN p ELSE 0)

(* The rows it writes. *)
BuyRows(g, l, t, u, s) ==
  LET i == listing[l].item
  IN  /\ listing[l].status = "open"
      /\ i \in Goods /\ NextId \in Goods /\ i # NextId
      /\ good[i].status = "available" /\ good[i].owner = listing[l].seller
      /\ good[i].tier # "legendary" /\ good[i].stock >= 1 /\ good[i].product \in Products
      /\ good[NextId] = NoGood
      /\ good' \in [Goods -> GoodRow]
      /\ good'[i] = TakeUnit(i)
      /\ good'[NextId] = NewGood(good[i].product, good[i].tier, g, 1)
      /\ \A j \in Goods \ {i, NextId} : good'[j] = good[j]
      /\ listing' \in [ListingIds -> ListingRow]
      /\ listing'[l] = [item |-> i, seller |-> listing[l].seller, price |-> listing[l].price,
                        status |-> "sold", buyer |-> g, soldAt |-> s]
      /\ \A k \in ListingIds \ {l} : listing'[k] = listing[k]
      /\ spent' \in [Guilds -> [Days -> Int]]
      /\ \A h \in Guilds, d \in Days :
           spent'[h][d] = spent[h][d] + (IF h = g /\ d = Day[u] THEN listing[l].price ELSE 0)
      /\ seq' \in 0 .. MaxItems

(* DebitTx and CreditTx of a purchase do not wrap around. *)
LEMMA BuyMoneyExact ==
  ASSUME TradeInv, NEW g \in Guilds, NEW l \in ListingIds,
         NEW t \in 0 .. now, NEW u \in 0 .. now, NEW s \in 0 .. now,
         Buy(g, l, t, u, s),
         wallets' = Credit(Debit(wallets, g, listing[l].price, "debit_listing"),
                           listing[l].seller, listing[l].price, "credit_listing")
  PROVE  BuyMoney(g, l, t, u, s)
<1> DEFINE p == listing[l].price
           seller == listing[l].seller
           paid == Debit(wallets, g, p, "debit_listing")
           moved == Credit(paid, seller, p, "credit_listing")
<1>1. /\ listing[l].status = "open" /\ seller # g
      /\ CanDebit(wallets, g, p) /\ CanCredit(p)
  BY DEF Buy
<1>2. seller \in Guilds /\ p \in Int /\ wallets \in WalletsType
  BY <1>1 DEF TradeInv, RowsConsistent, ListingsTypeOK, ListingRow
<1>3. \A h \in Guilds : wallets.total[h] \in Nat /\ wallets.reserved[h] = 0
  BY DEF TradeInv, BalancesSound
<1>4. wallets.total[g] + wallets.total[seller] < Half /\ RowSound(wallets, g)
  <2>1. wallets.total[g] + wallets.total[seller] <= Money
    BY <1>1, <1>2, TwoWallets DEF TradeInv
  <2>2. /\ wallets.total[g] \in Nat /\ wallets.total[seller] \in Nat
        /\ wallets.reserved[g] = 0
    BY <1>2, <1>3
  <2> QED BY <2>1, <2>2, MoneyFits, HalfAssumption DEF RowSound
<1>5. /\ paid \in WalletsType
      /\ paid.total = [wallets.total EXCEPT ![g] = wallets.total[g] - p]
      /\ paid.reserved = wallets.reserved
      /\ paid.ledger = Recorded(wallets, g, "debit_listing", p)
      /\ p > 0 /\ wallets.reserved[g] + p <= wallets.total[g]
  BY <1>1, <1>2, <1>4, DebitExact DEF LedgerKinds
<1>6. paid.total[seller] = wallets.total[seller]
  BY <1>1, <1>2, <1>5 DEF WalletsType
<1>a. p \in Nat /\ p <= wallets.total[g] /\ wallets.total[g] \in Nat /\ wallets.total[seller] \in Nat
  BY <1>2, <1>3, <1>5
<1> HIDE DEF paid, p, seller
<1>7. /\ moved \in WalletsType
      /\ moved.total = [paid.total EXCEPT ![seller] = paid.total[seller] + p]
      /\ moved.reserved = paid.reserved
      /\ moved.ledger = Recorded(paid, seller, "credit_listing", p)
  <2>1. 0 <= paid.total[seller] /\ paid.total[seller] + p < Half
    BY <1>4, <1>6, <1>a, HalfAssumption
  <2>2. "credit_listing" \in LedgerKinds
    BY DEF LedgerKinds
  <2>3. paid \in WalletsType /\ seller \in Guilds /\ p \in Int /\ CanCredit(p)
    BY <1>1, <1>2, <1>5
  <2> QED BY <2>1, <2>2, <2>3, CreditExact
<1> HIDE DEF moved
<1>8. ASSUME NEW h \in Guilds
      PROVE  /\ moved.reserved[h] = wallets.reserved[h]
             /\ moved.total[h] = IF h = g THEN wallets.total[h] - p
                             ELSE IF h = seller THEN wallets.total[h] + p
                             ELSE wallets.total[h]
  BY <1>1, <1>2, <1>5, <1>6, <1>7 DEF WalletsType
<1>9. ASSUME NEW h \in Guilds
      PROVE  /\ moved.ledger[h]["debit_listing"] =
                  wallets.ledger[h]["debit_listing"] + (IF h = g THEN p ELSE 0)
             /\ moved.ledger[h]["credit_listing"] =
                  wallets.ledger[h]["credit_listing"] + (IF h = seller THEN p ELSE 0)
  <2>1. \A j \in LedgerKinds :
          /\ wallets.ledger[h][j] \in Nat
          /\ paid.ledger[h][j] =
               IF h = g /\ j = "debit_listing" THEN wallets.ledger[h][j] + p ELSE wallets.ledger[h][j]
    <3>1. \A j \in LedgerKinds : wallets.ledger[h][j] \in Nat
      BY <1>2 DEF WalletsType
    <3>2. "debit_listing" \in LedgerKinds
      BY DEF LedgerKinds
    <3> QED BY <1>2, <1>5, <1>a, <3>1, <3>2, LedgerAfter
  <2>2. \A j \in LedgerKinds :
          moved.ledger[h][j] =
            IF h = seller /\ j = "credit_listing" THEN paid.ledger[h][j] + p ELSE paid.ledger[h][j]
    <3>1. "credit_listing" \in LedgerKinds
      BY DEF LedgerKinds
    <3> QED BY <1>2, <1>5, <1>7, <1>a, <3>1, LedgerAfter
  <2> QED BY <1>2, <2>1, <2>2 DEF LedgerKinds
<1>10. p < Half /\ p <= wallets.total[g]
  BY <1>4, <1>a, HalfAssumption
<1> QED
  BY <1>1, <1>2, <1>5, <1>7, <1>8, <1>9, <1>10 DEF BuyMoney, paid, moved, p, seller

(* A unit taken off a row of the items table. *)
LEMMA TakeUnitRow ==
  ASSUME NEW i, good[i] \in GoodRow
  PROVE  /\ TakeUnit(i) \in GoodRow
         /\ TakeUnit(i).product = good[i].product /\ TakeUnit(i).tier = good[i].tier
         /\ TakeUnit(i).owner = good[i].owner /\ TakeUnit(i).stock = good[i].stock - 1
         /\ TakeUnit(i).status = IF good[i].stock = 1 THEN "sold" ELSE good[i].status
<1> DEFINE x == good[i]
           left == IF x.stock = 1 THEN "sold" ELSE x.status
           y == [x EXCEPT !.stock = x.stock - 1]
<1>1. x \in GoodRow
  OBVIOUS
<1>2. TakeUnit(i) = [x EXCEPT !.stock = x.stock - 1, !.status = left]
  BY DEF TakeUnit
<1> HIDE DEF x
<1>3. left \in {"absent", "available", "sold"}
  BY <1>1 DEF GoodRow
<1> HIDE DEF left
<1>4. TakeUnit(i) = [y EXCEPT !.status = left]
  BY <1>1, <1>2 DEF GoodRow
<1>5. /\ y \in GoodRow /\ y.product = x.product /\ y.tier = x.tier /\ y.owner = x.owner
      /\ y.stock = x.stock - 1
  BY <1>1 DEF GoodRow
<1> HIDE DEF y
<1>6. /\ TakeUnit(i) \in GoodRow
      /\ TakeUnit(i).product = y.product /\ TakeUnit(i).tier = y.tier
      /\ TakeUnit(i).owner = y.owner /\ TakeUnit(i).stock = y.stock
      /\ TakeUnit(i).status = left
  BY <1>3, <1>4, <1>5 DEF GoodRow
<1> QED BY <1>5, <1>6 DEF x, left

(* The rows of a purchase that commits. *)
LEMMA BuyRowsExact ==
  ASSUME TradeInv, NEW g \in Guilds, NEW l \in ListingIds,
         NEW t \in 0 .. now, NEW u \in 0 .. now, NEW s \in 0 .. now,
         Buy(g, l, t, u, s), CanInsert,
         good' = [good EXCEPT ![listing[l].item] = TakeUnit(listing[l].item),
                              ![NextId] = NewGood(good[listing[l].item].product,
                                                  good[listing[l].item].tier, g, 1)],
         spent' = AddDailySpent(g, Day[u], listing[l].price),
         listing' = MarkSold(l, g, s)
  PROVE  BuyRows(g, l, t, u, s)
<1> DEFINE i == listing[l].item
           row == NewGood(good[i].product, good[i].tier, g, 1)
<1>1. /\ good \in [Goods -> GoodRow] /\ listing \in [ListingIds -> ListingRow]
      /\ spent \in [Guilds -> [Days -> Int]] /\ seq \in 0 .. MaxItems /\ now \in 0 .. MaxTime
  BY DEF TradeInv, ListingsTypeOK
<1>2. listing[l].status = "open" /\ good[i].stock >= 1 /\ seq < MaxItems /\ seq' = NextId
  BY DEF Buy, TakesId
<1>3. /\ i \in Goods /\ good[i].status # "absent" /\ good[i].product \in Products
      /\ good[i].owner = listing[l].seller /\ good[i].tier # "legendary"
  BY <1>2 DEF TradeInv, RowsConsistent, ListedByOwner
<1>4. NextId \in Goods /\ seq' \in 0 .. MaxItems
  BY <1>1, <1>2, ListingAssumption DEF NextId, Goods
<1>5. good[NextId] = NoGood /\ i # NextId
  BY <1>3, <1>4 DEF TradeInv, RowsConsistent, CanInsert
<1>6. good[i].status = "available"
  BY <1>1, <1>2, <1>3 DEF TradeInv, SoldOutAtZero, GoodRow
<1>7. TakeUnit(i) \in GoodRow /\ row \in GoodRow
  <2>1. good[i] \in GoodRow
    BY <1>1, <1>3
  <2>2. TakeUnit(i) \in GoodRow
    BY <2>1, TakeUnitRow
  <2>3. row \in GoodRow
    BY <2>1 DEF NewGood, GoodRow
  <2> QED BY <2>2, <2>3
<1> HIDE DEF row
<1>8. /\ good' \in [Goods -> GoodRow]
      /\ good'[i] = TakeUnit(i) /\ good'[NextId] = row
      /\ \A j \in Goods \ {i, NextId} : good'[j] = good[j]
  BY <1>1, <1>3, <1>4, <1>5, <1>7 DEF row
<1>9. /\ listing'[l] = [item |-> i, seller |-> listing[l].seller, price |-> listing[l].price,
                        status |-> "sold", buyer |-> g, soldAt |-> s]
      /\ \A k \in ListingIds \ {l} : listing'[k] = listing[k]
      /\ listing' = [k \in ListingIds |-> listing'[k]]
  BY <1>1 DEF MarkSold, ListingRow
<1>10. listing' \in [ListingIds -> ListingRow]
  <2>1. listing[l] \in ListingRow /\ s \in Nat
    BY <1>1
  <2>2. listing'[l] \in ListingRow
    BY <1>9, <2>1 DEF ListingRow
  <2> QED BY <1>1, <1>9, <2>2
<1>11. u \in 0 .. MaxTime /\ Day[u] \in Days /\ listing[l].price \in Int
  BY <1>1, ListingAssumption DEF ListingRow
<1>12. /\ spent' \in [Guilds -> [Days -> Int]]
       /\ \A h \in Guilds, d \in Days :
            spent'[h][d] = spent[h][d] + (IF h = g /\ d = Day[u] THEN listing[l].price ELSE 0)
  BY <1>1, <1>11 DEF AddDailySpent
<1> QED
  BY <1>2, <1>3, <1>4, <1>5, <1>6, <1>8, <1>9, <1>10, <1>12 DEF BuyRows, row

(* What the purchase leaves of the accounting: money moves, none is made. *)
LEMMA BuyBalances ==
  ASSUME TradeInv, NEW g \in Guilds, NEW l \in ListingIds, NEW t, NEW u, NEW s,
         BuyMoney(g, l, t, u, s)
  PROVE  BalancesSound'
<1> DEFINE p == listing[l].price
           seller == listing[l].seller
           before == wallets.total
           after == wallets'.total
<1>1. /\ p \in Nat /\ p <= before[g] /\ g # seller /\ seller \in Guilds
      /\ \A h \in Guilds : after[h] = IF h = g THEN before[h] - p
                                      ELSE IF h = seller THEN before[h] + p ELSE before[h]
  BY DEF BuyMoney
<1>2. \A h \in Guilds : before[h] \in Nat
  BY DEF TradeInv, BalancesSound
<1> HIDE DEF p, seller, before, after
<1>3. \A h \in Guilds : after[h] \in Nat
  BY <1>1, <1>2
<1>4. /\ \A h \in Guilds : before[h] \in Int /\ after[h] \in Int
      /\ \A h \in Guilds \ {g, seller} : after[h] = before[h]
  BY <1>1, <1>2, <1>3
<1>5. SumFunctionOnSet(after, Guilds) =
        SumFunctionOnSet(before, Guilds) - before[g] - before[seller] + after[g] + after[seller]
  <2>1. IsFiniteSet(Guilds)
    BY ListingAssumption
  <2> QED BY <1>1, <1>4, <2>1, SumChangeTwo
<1>6. SumFunctionOnSet(before, Guilds) \in Int
  BY <1>4, ListingAssumption, SumInt
<1>7. SumFunctionOnSet(after, Guilds) = SumFunctionOnSet(before, Guilds)
  BY <1>1, <1>2, <1>5, <1>6
<1> QED
  BY <1>3, <1>7 DEF BuyMoney, TradeInv, BalancesSound, after, before

(* A purchase creates the row of its buyer and changes one other row. *)
LEMMA BuyTables ==
  ASSUME TradeInv, NEW g \in Guilds, NEW l \in ListingIds,
         NEW t \in 0 .. now, NEW u \in 0 .. now, NEW s \in 0 .. now,
         BuyRows(g, l, t, u, s), now' = now
  PROVE  RowsConsistent' /\ SoldOutAtZero' /\ ListedByOwner'
<1> DEFINE i == listing[l].item
<1>1. /\ good \in [Goods -> GoodRow] /\ listing \in [ListingIds -> ListingRow]
      /\ now \in 0 .. MaxTime /\ MaxTime \in Nat
  BY ListingAssumption DEF TradeInv, ListingsTypeOK
<1>2. /\ i \in Goods /\ NextId \in Goods /\ i # NextId
      /\ good[i].status = "available" /\ good[i].owner = listing[l].seller
      /\ good[i].tier # "legendary" /\ good[i].stock >= 1 /\ good[i].product \in Products
      /\ good[NextId] = NoGood
      /\ good'[NextId] = NewGood(good[i].product, good[i].tier, g, 1)
      /\ \A j \in Goods \ {i, NextId} : good'[j] = good[j]
      /\ listing[l].status = "open"
      /\ listing'[l] = [item |-> i, seller |-> listing[l].seller, price |-> listing[l].price,
                        status |-> "sold", buyer |-> g, soldAt |-> s]
      /\ \A k \in ListingIds \ {l} : listing'[k] = listing[k]
  BY DEF BuyRows
<1>3. /\ good[i].stock \in Int
      /\ good'[i].product = good[i].product /\ good'[i].tier = good[i].tier
      /\ good'[i].owner = good[i].owner /\ good'[i].stock = good[i].stock - 1
      /\ good'[i].status = IF good[i].stock = 1 THEN "sold" ELSE "available"
  <2>1. good[i] \in GoodRow /\ good'[i] = TakeUnit(i)
    BY <1>1, <1>2 DEF BuyRows
  <2> QED BY <1>2, <2>1, TakeUnitRow DEF GoodRow
<1>4. s \in 0 .. now' /\ now \in Nat /\ now' = now
  BY <1>1
<1>5. good[i].owner \in Guilds
  BY <1>2 DEF TradeInv, RowsConsistent
<1> HIDE DEF i
<1>6. \A j \in Goods : good[j].status # "absent" =>
        /\ j # NextId /\ good'[j].status # "absent"
        /\ good'[j].owner = good[j].owner /\ good'[j].tier = good[j].tier
        /\ good'[j].product = good[j].product
  <2> TAKE j \in Goods
  <2>1. CASE j = i
    BY <1>2, <1>3, <2>1
  <2>2. CASE j = NextId
    BY <1>2, <2>2 DEF NoGood
  <2>3. CASE j # i /\ j # NextId
    BY <1>2, <2>3
  <2> QED BY <2>1, <2>2, <2>3
<1>7. RowsConsistent'
  <2>1. ASSUME NEW j \in Goods
        PROVE  /\ good'[j].status = "absent" => good'[j] = NoGood
               /\ good'[j].status # "absent" => good'[j].owner \in Guilds /\ good'[j].product \in Products
    <3>1. CASE j = i
      BY <1>2, <1>3, <1>5, <3>1
    <3>2. CASE j = NextId
      BY <1>2, <3>2 DEF NewGood
    <3>3. CASE j # i /\ j # NextId
      BY <1>2, <3>3 DEF TradeInv, RowsConsistent
    <3> QED BY <3>1, <3>2, <3>3
  <2>2. ASSUME NEW k \in ListingIds
        PROVE  /\ listing'[k].status # "absent" =>
                    /\ listing'[k].item \in Goods /\ listing'[k].seller \in Guilds
                    /\ good'[listing'[k].item].status # "absent"
               /\ listing'[k].status = "sold" =>
                    /\ listing'[k].buyer \in Guilds /\ listing'[k].soldAt \in 0 .. now'
               /\ listing'[k].status # "sold" => listing'[k].buyer = Null
    <3>1. CASE k = l
      <4>1. good'[i].status # "absent"
        BY <1>3
      <4> QED BY <1>2, <1>4, <1>5, <3>1, <4>1
    <3>2. CASE k # l
      BY <1>2, <1>6, <3>2 DEF TradeInv, RowsConsistent
    <3> QED BY <3>1, <3>2
  <2> QED BY <2>1, <2>2 DEF RowsConsistent
<1>8. SoldOutAtZero'
  <2> SUFFICES ASSUME NEW j \in Goods
               PROVE  /\ good'[j].stock >= 0
                      /\ good'[j].status = "sold" => good'[j].stock = 0
                      /\ good'[j].status = "available" => good'[j].stock > 0
    BY DEF SoldOutAtZero
  <2>1. CASE j = i
    BY <1>2, <1>3, <2>1
  <2>2. CASE j = NextId
    BY <1>2, <2>2 DEF NewGood
  <2>3. CASE j # i /\ j # NextId
    BY <1>2, <2>3 DEF TradeInv, SoldOutAtZero
  <2> QED BY <2>1, <2>2, <2>3
<1>9. ListedByOwner'
  <2> SUFFICES ASSUME NEW k \in ListingIds, listing'[k].status # "absent"
               PROVE  /\ good'[listing'[k].item].owner = listing'[k].seller
                      /\ good'[listing'[k].item].tier # "legendary"
                      /\ listing'[k].price > 0
    BY DEF ListedByOwner
  <2>1. /\ listing'[k].item = listing[k].item /\ listing'[k].seller = listing[k].seller
        /\ listing'[k].price = listing[k].price /\ listing[k].status # "absent"
    BY <1>2 DEF i
  <2>2. /\ listing[k].item \in Goods /\ good[listing[k].item].status # "absent"
        /\ good[listing[k].item].owner = listing[k].seller
        /\ good[listing[k].item].tier # "legendary" /\ listing[k].price > 0
    BY <2>1 DEF TradeInv, RowsConsistent, ListedByOwner
  <2> QED BY <1>6, <2>1, <2>2
<1> QED BY <1>7, <1>8, <1>9

(* A day the buyer has not reached when he locks his wallet is free. *)
LEMMA LaterDayFree ==
  ASSUME TradeInv, NEW g \in Guilds, NEW t \in 0 .. now, ReadAfterLastPurchase(g, t),
         NEW d \in Days, Day[t] < d
  PROVE  spent[g][d] = 0
<1>1. /\ now \in 0 .. MaxTime /\ MaxTime \in Nat /\ Days \subseteq Nat
      /\ Day \in [0 .. MaxTime -> Days]
      /\ \A a, b \in 0 .. MaxTime : a <= b => Day[a] <= Day[b]
  BY ListingAssumption DEF TradeInv, ListingsTypeOK
<1>2. ASSUME NEW k \in ListingIds, listing[k].status = "sold", listing[k].buyer = g,
             d <= Day[listing[k].soldAt]
      PROVE  FALSE
  <2>1. listing[k].soldAt \in 0 .. MaxTime /\ listing[k].soldAt <= t
    <3>1. listing[k].soldAt \in 0 .. now /\ listing[k].soldAt <= t
      BY <1>2 DEF TradeInv, RowsConsistent, ReadAfterLastPurchase
    <3> QED BY <1>1, <3>1
  <2>2. t \in 0 .. MaxTime
    BY <1>1
  <2>3. Day[listing[k].soldAt] <= Day[t]
    BY <1>1, <2>1, <2>2
  <2>4. Day[listing[k].soldAt] \in Nat /\ Day[t] \in Nat /\ d \in Nat
    BY <1>1, <2>1, <2>2
  <2> QED BY <1>2, <2>3, <2>4
<1> QED
  BY <1>2 DEF TradeInv, ChargedBySales

(* A purchase charges the day of its second reading of the clock. *)
LEMMA BuyCharges ==
  ASSUME TradeInv, NEW g \in Guilds, NEW l \in ListingIds,
         NEW t \in 0 .. now, NEW u \in 0 .. now, NEW s \in 0 .. now,
         t <= u, u <= s, ReadAfterLastPurchase(g, t),
         EnsureWithinDailyCap(Cap[g], spent[g][Day[t]], listing[l].price),
         CanAddDailySpent(g, Day[u], listing[l].price),
         BuyMoney(g, l, t, u, s), BuyRows(g, l, t, u, s)
  PROVE  ChargedBySales' /\ DailyCapRespected'
<1> DEFINE p == listing[l].price
           C == Day[t]
           D == Day[u]
<1>1. p \in Nat /\ p > 0 /\ p < Half /\ Half \in Nat
  BY HalfAssumption DEF BuyMoney
<1>2. /\ now \in 0 .. MaxTime /\ MaxTime \in Nat /\ t \in 0 .. MaxTime /\ u \in 0 .. MaxTime
      /\ s \in 0 .. MaxTime
      /\ Days \subseteq Nat /\ C \in Days /\ D \in Days /\ Day[s] \in Days
      /\ C <= D /\ D <= Day[s]
  BY ListingAssumption DEF TradeInv, ListingsTypeOK
<1>3. \A h \in Guilds, d \in Days : spent[h][d] \in Nat /\ spent[h][d] < Half
  BY <1>1 DEF TradeInv, ChargedBySales
<1>4. /\ \A h \in Guilds, d \in Days :
           spent'[h][d] = IF h = g /\ d = D THEN spent[h][d] + p ELSE spent[h][d]
      /\ spent[g][D] + p < Half
  BY <1>1, <1>2, <1>3 DEF BuyRows, CanAddDailySpent
<1>5. /\ listing[l].status = "open"
      /\ listing'[l].status = "sold" /\ listing'[l].buyer = g /\ listing'[l].price = p
      /\ listing'[l].soldAt = s
      /\ \A k \in ListingIds : listing[k].status = "sold" => k # l /\ listing'[k] = listing[k]
  BY DEF BuyRows
<1>6. Cap[g] \in Nat /\ Cap[g] < Half
  BY <1>1, ListingAssumption
<1>7. C < D => spent[g][D] = 0
  BY <1>2, LaterDayFree
<1>8. Cap[g] # 0 => Wrap(spent[g][C] + p) <= Cap[g]
  BY DEF EnsureWithinDailyCap
<1> HIDE DEF p, C, D
<1>9. ChargedBySales'
  <2> SUFFICES ASSUME NEW h \in Guilds, NEW d \in Days
               PROVE  /\ spent'[h][d] \in 0 .. Half - 1
                      /\ spent'[h][d] # 0 =>
                           \E k \in ListingIds : /\ listing'[k].status = "sold"
                                                 /\ listing'[k].buyer = h
                                                 /\ d <= Day[listing'[k].soldAt]
    BY DEF ChargedBySales
  <2>1. CASE h = g /\ d = D
    BY <1>1, <1>2, <1>3, <1>4, <1>5, <2>1
  <2>2. CASE ~ (h = g /\ d = D)
    <3>1. spent'[h][d] = spent[h][d] /\ spent[h][d] \in 0 .. Half - 1
      BY <1>4, <2>2 DEF TradeInv, ChargedBySales
    <3>2. ASSUME spent[h][d] # 0
          PROVE  \E k \in ListingIds : /\ listing'[k].status = "sold"
                                       /\ listing'[k].buyer = h
                                       /\ d <= Day[listing'[k].soldAt]
      BY <1>5, <3>2 DEF TradeInv, ChargedBySales
    <3> QED BY <3>1, <3>2
  <2> QED BY <2>1, <2>2
<1>10. ASSUME Cap[g] # 0, spent[g][C] + p < Half
       PROVE  spent[g][C] + p <= Cap[g]
  <2>1. Wrap(spent[g][C] + p) = spent[g][C] + p
    BY <1>1, <1>2, <1>3, <1>10, WrapInRange
  <2> QED BY <1>8, <1>10, <2>1
<1>11. DailyCapRespected'
  <2> SUFFICES ASSUME NEW h \in Guilds, NEW d \in Days, Cap[h] # 0
               PROVE  spent'[h][d] \in 0 .. Cap[h] \/ WrappedAtMidnight(h, d)'
    BY DEF DailyCapRespected
  <2>1. CASE h = g /\ d = D /\ spent[g][C] + p < Half
    <3>1. spent[g][C] + p <= Cap[g]
      BY <1>10, <2>1
    <3>2. C = D \/ spent[g][D] = 0
      BY <1>2, <1>7
    <3> QED BY <1>1, <1>2, <1>3, <1>4, <1>6, <2>1, <3>1, <3>2
  <2>2. CASE h = g /\ d = D /\ spent[g][C] + p >= Half
    <3>1. C # D /\ C < D
      BY <1>1, <1>2, <1>3, <1>4, <2>2
    <3>2. spent'[g][D] = p /\ spent'[g][C] = spent[g][C]
      BY <1>1, <1>2, <1>4, <1>7, <3>1
    <3> QED BY <1>2, <1>5, <2>2, <3>1, <3>2 DEF WrappedAtMidnight
  <2>3. CASE ~ (h = g /\ d = D)
    <3>1. spent'[h][d] = spent[h][d]
      BY <1>4, <2>3
    <3>2. CASE WrappedAtMidnight(h, d)
      <4>1. PICK k \in ListingIds, checked \in Days :
              /\ listing[k].status = "sold" /\ listing[k].buyer = h
              /\ listing[k].price = spent[h][d]
              /\ checked < d /\ spent[h][checked] + listing[k].price >= Half
        BY <3>2 DEF WrappedAtMidnight
      <4>2. listing'[k] = listing[k]
        BY <1>5, <4>1
      <4>3. spent'[h][checked] >= spent[h][checked] /\ spent'[h][checked] \in Nat
        BY <1>1, <1>3, <1>4
      <4>4. spent'[h][checked] + listing[k].price >= Half
        BY <1>1, <1>3, <4>1, <4>3
      <4> QED BY <3>1, <4>1, <4>2, <4>4 DEF WrappedAtMidnight
    <3> QED BY <3>1, <3>2 DEF TradeInv, DailyCapRespected
  <2> QED BY <1>1, <1>2, <1>3, <2>1, <2>2, <2>3
<1> QED BY <1>9, <1>11

(* Both columns of the sold listings grow by the price, on the buyer's and *)
(* on the seller's side, and so do the two ledgers and the day's total.    *)
LEMMA BuyReconciles ==
  ASSUME TradeInv, NEW g \in Guilds, NEW l \in ListingIds,
         NEW t \in 0 .. now, NEW u \in 0 .. now, NEW s \in 0 .. now,
         BuyMoney(g, l, t, u, s), BuyRows(g, l, t, u, s)
  PROVE  SalesReconcile'
<1> DEFINE p == listing[l].price
           seller == listing[l].seller
           D == Day[u]
<1> SUFFICES ASSUME NEW h \in Guilds
             PROVE  LET ledger == wallets'.ledger[h]
                    IN  /\ ledger["debit_listing"] = SumFunctionOnSet(PaidBy(h)', ListingIds)
                        /\ ledger["debit_listing"] = SumFunctionOnSet(spent'[h], Days)
                        /\ ledger["credit_listing"] = SumFunctionOnSet(PaidTo(h)', ListingIds)
                        /\ wallets'.total[h] = InitTotal[h] + ledger["credit_listing"] - ledger["debit_listing"]
  BY DEF SalesReconcile
<1> DEFINE was == wallets.ledger[h]
           is == wallets'.ledger[h]
<1>1. /\ was["debit_listing"] = SumFunctionOnSet(PaidBy(h), ListingIds)
      /\ was["debit_listing"] = SumFunctionOnSet(spent[h], Days)
      /\ was["credit_listing"] = SumFunctionOnSet(PaidTo(h), ListingIds)
      /\ wallets.total[h] = InitTotal[h] + was["credit_listing"] - was["debit_listing"]
  BY DEF TradeInv, SalesReconcile
<1>2. /\ is["debit_listing"] = was["debit_listing"] + (IF h = g THEN p ELSE 0)
      /\ is["credit_listing"] = was["credit_listing"] + (IF h = seller THEN p ELSE 0)
      /\ p \in Int /\ g # seller
      /\ wallets'.total[h] = IF h = g THEN wallets.total[h] - p
                             ELSE IF h = seller THEN wallets.total[h] + p
                             ELSE wallets.total[h]
  BY DEF BuyMoney
<1>3. /\ was["debit_listing"] \in Int /\ was["credit_listing"] \in Int
      /\ wallets.total[h] \in Int /\ InitTotal[h] \in Int
  BY GuildsAssumption DEF TradeInv, ListingsTypeOK, WalletsType, LedgerKinds
<1>4. /\ \A k \in ListingIds : listing[k].price \in Int /\ listing'[k].price \in Int
      /\ listing[l].status = "open"
      /\ listing'[l].status = "sold" /\ listing'[l].buyer = g /\ listing'[l].seller = seller
      /\ listing'[l].price = p
      /\ \A k \in ListingIds \ {l} : listing'[k] = listing[k]
  BY DEF TradeInv, ListingsTypeOK, ListingRow, BuyRows
<1>5. IsFiniteSet(ListingIds) /\ IsFiniteSet(Days)
  BY ListingAssumption
<1>6. is["debit_listing"] = SumFunctionOnSet(PaidBy(h)', ListingIds)
  <2> DEFINE e == PaidBy(h)
             f == PaidBy(h)'
  <2>1. /\ \A k \in ListingIds : e[k] \in Int /\ f[k] \in Int
        /\ \A k \in ListingIds \ {l} : f[k] = e[k]
        /\ e[l] = 0 /\ f[l] = IF h = g THEN p ELSE 0
    BY <1>2, <1>4 DEF PaidBy
  <2> HIDE DEF e, f
  <2>2. SumFunctionOnSet(f, ListingIds) = SumFunctionOnSet(e, ListingIds) - e[l] + f[l]
    BY <1>5, <2>1, SumChangeOne
  <2>3. SumFunctionOnSet(e, ListingIds) = was["debit_listing"]
    BY <1>1 DEF e
  <2>4. SumFunctionOnSet(f, ListingIds) = is["debit_listing"]
    BY <1>2, <1>3, <2>1, <2>2, <2>3
  <2> QED BY <2>4 DEF f
<1>7. is["credit_listing"] = SumFunctionOnSet(PaidTo(h)', ListingIds)
  <2> DEFINE e == PaidTo(h)
             f == PaidTo(h)'
  <2>1. /\ \A k \in ListingIds : e[k] \in Int /\ f[k] \in Int
        /\ \A k \in ListingIds \ {l} : f[k] = e[k]
        /\ e[l] = 0 /\ f[l] = IF h = seller THEN p ELSE 0
    BY <1>2, <1>4 DEF PaidTo
  <2> HIDE DEF e, f
  <2>2. SumFunctionOnSet(f, ListingIds) = SumFunctionOnSet(e, ListingIds) - e[l] + f[l]
    BY <1>5, <2>1, SumChangeOne
  <2>3. SumFunctionOnSet(e, ListingIds) = was["credit_listing"]
    BY <1>1 DEF e
  <2>4. SumFunctionOnSet(f, ListingIds) = is["credit_listing"]
    BY <1>2, <1>3, <2>1, <2>2, <2>3
  <2> QED BY <2>4 DEF f
<1>8. is["debit_listing"] = SumFunctionOnSet(spent'[h], Days)
  <2> DEFINE e == spent[h]
             f == spent'[h]
  <2>0. D \in Days
    BY ListingAssumption DEF TradeInv, ListingsTypeOK
  <2>1. /\ \A d \in Days : e[d] \in Int /\ f[d] \in Int
        /\ \A d \in Days \ {D} : f[d] = e[d]
        /\ f[D] = e[D] + (IF h = g THEN p ELSE 0)
    BY <1>2, <2>0 DEF TradeInv, ListingsTypeOK, BuyRows
  <2> HIDE DEF e, f
  <2>2. SumFunctionOnSet(f, Days) = SumFunctionOnSet(e, Days) - e[D] + f[D]
    BY <1>5, <2>0, <2>1, SumChangeOne
  <2>3. SumFunctionOnSet(e, Days) = was["debit_listing"]
    BY <1>1 DEF e
  <2>4. SumFunctionOnSet(f, Days) = is["debit_listing"]
    BY <1>2, <1>3, <2>0, <2>1, <2>2, <2>3
  <2> QED BY <2>4 DEF f
<1>9. wallets'.total[h] = InitTotal[h] + is["credit_listing"] - is["debit_listing"]
  BY <1>1, <1>2, <1>3
<1> QED BY <1>6, <1>7, <1>8, <1>9

(* A purchase keeps the invariant, whether it commits or rolls back. *)
LEMMA BuyKeeps ==
  ASSUME TradeInv, NEW g \in Guilds, NEW l \in ListingIds,
         NEW t \in 0 .. now, NEW u \in 0 .. now, NEW s \in 0 .. now,
         Buy(g, l, t, u, s)
  PROVE  TradeInv'
<1> DEFINE i == listing[l].item
           price == listing[l].price
<1>0. seq < MaxItems /\ seq' = seq + 1 /\ now' = now
  BY DEF Buy, TakesId, NextId
<1>1. CASE /\ CanInsert /\ CanAddDailySpent(g, Day[u], price)
           /\ wallets' = Credit(Debit(wallets, g, price, "debit_listing"),
                                listing[l].seller, price, "credit_listing")
           /\ good' = [good EXCEPT ![i] = TakeUnit(i),
                                   ![NextId] = NewGood(good[i].product, good[i].tier, g, 1)]
           /\ spent' = AddDailySpent(g, Day[u], price)
           /\ listing' = MarkSold(l, g, s)
  <2>1. BuyMoney(g, l, t, u, s)
    BY <1>1, BuyMoneyExact
  <2>2. BuyRows(g, l, t, u, s)
    BY <1>1, BuyRowsExact
  <2>3. ListingsTypeOK'
    BY <1>0, <2>1, <2>2 DEF TradeInv, ListingsTypeOK, BuyMoney, BuyRows
  <2>4. ChargedBySales' /\ DailyCapRespected'
    BY <1>1, <2>1, <2>2, BuyCharges DEF Buy
  <2> QED
    BY <1>0, <2>1, <2>2, <2>3, <2>4, BuyBalances, BuyTables, BuyReconciles DEF TradeInv
<1>2. CASE UNCHANGED <<wallets, good, spent, listing>>
  <2>1. ListingsTypeOK'
    <3>1. seq' \in 0 .. MaxItems
      BY <1>0, ListingAssumption DEF TradeInv, ListingsTypeOK
    <3> QED BY <1>0, <1>2, <3>1 DEF TradeInv, ListingsTypeOK
  <2>2. RowsConsistent' /\ BalancesSound' /\ SoldOutAtZero' /\ ListedByOwner'
    BY <1>0, <1>2 DEF TradeInv, RowsConsistent, BalancesSound, SoldOutAtZero, ListedByOwner
  <2>3. ChargedBySales' /\ DailyCapRespected' /\ SalesReconcile'
    BY <1>2
       DEF TradeInv, ChargedBySales, DailyCapRespected, WrappedAtMidnight, SalesReconcile,
           PaidBy, PaidTo
  <2> QED BY <2>1, <2>2, <2>3 DEF TradeInv
<1> QED BY <1>1, <1>2 DEF Buy

-----------------------------------------------------------------------------
(* The other operations. *)

(* New items, at ids that were free, disturb nothing. *)
LEMMA NewItemsKeep ==
  ASSUME TradeInv, UNCHANGED <<now, wallets, listing, spent>>, seq' \in 0 .. MaxItems,
         good' \in [Goods -> GoodRow],
         \A i \in Goods : \/ good'[i] = good[i]
                          \/ /\ good[i].status = "absent"
                             /\ good'[i].status = "available" /\ good'[i].stock > 0
                             /\ good'[i].owner \in Guilds /\ good'[i].product \in Products
  PROVE  TradeInv'
<1>1. ListingsTypeOK'
  BY DEF TradeInv, ListingsTypeOK
<1>2. RowsConsistent'
  <2>1. \A i \in Goods : good[i].status # "absent" => good'[i] = good[i]
    OBVIOUS
  <2>2. \A i \in Goods :
          /\ good'[i].status = "absent" => good'[i] = NoGood
          /\ good'[i].status # "absent" => good'[i].owner \in Guilds /\ good'[i].product \in Products
    BY DEF TradeInv, RowsConsistent
  <2> QED BY <2>1, <2>2 DEF TradeInv, RowsConsistent
<1>a. SoldOutAtZero'
  <2> SUFFICES ASSUME NEW i \in Goods
               PROVE  /\ good'[i].stock >= 0
                      /\ good'[i].status = "sold" => good'[i].stock = 0
                      /\ good'[i].status = "available" => good'[i].stock > 0
    BY DEF SoldOutAtZero
  <2>1. good'[i].stock \in Int
    BY DEF GoodRow
  <2> QED BY <2>1 DEF TradeInv, SoldOutAtZero
<1>3. ListedByOwner'
  BY DEF TradeInv, RowsConsistent, ListedByOwner
<1>4. BalancesSound' /\ ChargedBySales' /\ DailyCapRespected' /\ SalesReconcile'
  BY DEF TradeInv, BalancesSound, ChargedBySales, DailyCapRespected, WrappedAtMidnight,
         SalesReconcile, PaidBy, PaidTo
<1> QED BY <1>1, <1>2, <1>a, <1>3, <1>4 DEF TradeInv

LEMMA SeedKeeps == TradeInv /\ Seed => TradeInv'
<1> SUFFICES ASSUME TradeInv, Seed PROVE TradeInv'
  OBVIOUS
<1>1. good \in [Goods -> GoodRow] /\ seq \in 0 .. MaxItems
  BY DEF TradeInv, ListingsTypeOK
<1>2. \A i \in Goods : good'[i] = IF i \in DOMAIN SeedGoods /\ good[i].status = "absent"
                                  THEN SeedGoods[i] ELSE good[i]
  BY DEF Seed
<1>3. good' \in [Goods -> GoodRow]
  BY <1>1, ListingAssumption DEF Seed
<1>4. \A i \in DOMAIN SeedGoods :
        /\ SeedGoods[i].status = "available" /\ SeedGoods[i].stock > 0
        /\ SeedGoods[i].owner \in Guilds /\ SeedGoods[i].product \in Products
  BY ListingAssumption
<1>5. UNCHANGED <<now, wallets, listing, spent>> /\ seq' \in 0 .. MaxItems
  BY <1>1 DEF Seed
<1> QED BY <1>2, <1>3, <1>4, <1>5, NewItemsKeep

LEMMA CreateItemKeeps ==
  ASSUME TradeInv, NEW g \in Guilds, NEW p \in Products, NEW tier \in NewTiers, NEW n \in Stocks,
         CreateItem(g, p, tier, n)
  PROVE  TradeInv'
<1> DEFINE stock == IF tier = "legendary" THEN 1 ELSE n
           row == NewGood(p, tier, g, stock)
<1>1. good \in [Goods -> GoodRow] /\ seq \in 0 .. MaxItems /\ MaxItems \in Nat
  BY ListingAssumption DEF TradeInv, ListingsTypeOK
<1>2. seq < MaxItems /\ seq' = NextId /\ NextId \in Goods /\ seq' \in 0 .. MaxItems
  BY <1>1 DEF CreateItem, TakesId, NextId, Goods
<1>3. stock \in Int /\ stock > 0 /\ tier \in Tiers
  BY ListingAssumption DEF CreateItem
<1> HIDE DEF stock
<1>4. /\ row \in GoodRow /\ row.status = "available" /\ row.stock > 0
      /\ row.owner \in Guilds /\ row.product \in Products
  BY <1>3 DEF NewGood, GoodRow
<1>5. \/ good' = good
      \/ good[NextId].status = "absent" /\ good' = [good EXCEPT ![NextId] = row]
  BY DEF CreateItem, CanInsert, stock
<1> HIDE DEF row
<1>6. /\ good' \in [Goods -> GoodRow]
      /\ \A i \in Goods : \/ good'[i] = good[i]
                          \/ good[i].status = "absent" /\ good'[i] = row
  BY <1>1, <1>2, <1>4, <1>5
<1>7. UNCHANGED <<now, wallets, listing, spent>>
  BY DEF CreateItem
<1> QED BY <1>2, <1>4, <1>6, <1>7, NewItemsKeep

LEMMA CreateListingKeeps ==
  ASSUME TradeInv, NEW g \in Guilds, NEW i \in Goods, NEW p \in Prices, NEW l \in ListingIds,
         CreateListing(g, i, p, l)
  PROVE  TradeInv'
<1> DEFINE row == [item |-> i, seller |-> g, price |-> p, status |-> "open", buyer |-> Null,
                   soldAt |-> 0]
<1>1. /\ p > 0 /\ p \in Int /\ good[i].owner = g /\ good[i].tier # "legendary"
      /\ listing[l].status = "absent"
      /\ listing' = [listing EXCEPT ![l] = row]
      /\ UNCHANGED <<now, wallets, good, seq, spent>>
  BY ListingAssumption, HalfAssumption DEF CreateListing, EnsurePositive
<1>2. listing \in [ListingIds -> ListingRow] /\ row \in ListingRow
  BY <1>1 DEF TradeInv, ListingsTypeOK, ListingRow
<1>3. good[i].status # "absent"
  BY <1>1, ListingAssumption DEF TradeInv, RowsConsistent, NoGood
<1>4. listing'[l] = row /\ \A k \in ListingIds \ {l} : listing'[k] = listing[k]
  BY <1>1, <1>2
<1>5. ListingsTypeOK'
  BY <1>1, <1>2 DEF TradeInv, ListingsTypeOK
<1>6. RowsConsistent' /\ ListedByOwner'
  <2>1. RowsConsistent'
    BY <1>1, <1>3, <1>4 DEF TradeInv, RowsConsistent
  <2>2. ListedByOwner'
    BY <1>1, <1>4 DEF TradeInv, ListedByOwner
  <2> QED BY <2>1, <2>2
<1>7. BalancesSound' /\ SoldOutAtZero'
  BY <1>1 DEF TradeInv, BalancesSound, SoldOutAtZero
<1>8. \A k \in ListingIds : listing[k].status = "sold" => listing'[k] = listing[k]
  BY <1>1, <1>4
<1>9. ChargedBySales'
  BY <1>1, <1>8 DEF TradeInv, ChargedBySales
<1>10. DailyCapRespected'
  <2>1. \A h \in Guilds, d \in Days : WrappedAtMidnight(h, d) => WrappedAtMidnight(h, d)'
    BY <1>1, <1>8 DEF WrappedAtMidnight
  <2> QED BY <1>1, <2>1 DEF TradeInv, DailyCapRespected
<1>11. SalesReconcile'
  <2>1. \A h \in Guilds : PaidBy(h)' = PaidBy(h) /\ PaidTo(h)' = PaidTo(h)
    BY <1>1, <1>4 DEF PaidBy, PaidTo
  <2> QED BY <1>1, <2>1 DEF TradeInv, SalesReconcile
<1> QED BY <1>5, <1>6, <1>7, <1>9, <1>10, <1>11 DEF TradeInv

(* The clock is read by Buy alone. *)
LEMMA ClockKeeps ==
  ASSUME TradeInv, now' \in 0 .. MaxTime, now <= now', UNCHANGED <<wallets, good, seq, listing, spent>>
  PROVE  TradeInv'
<1>1. ListingsTypeOK' /\ RowsConsistent' /\ BalancesSound' /\ SoldOutAtZero' /\ ListedByOwner'
  BY DEF TradeInv, ListingsTypeOK, RowsConsistent, BalancesSound, SoldOutAtZero, ListedByOwner
<1>2. ChargedBySales' /\ DailyCapRespected' /\ SalesReconcile'
  BY DEF TradeInv, ChargedBySales, DailyCapRespected, WrappedAtMidnight, SalesReconcile,
         PaidBy, PaidTo
<1> QED BY <1>1, <1>2 DEF TradeInv

LEMMA TradeStep == TradeInv /\ [ListingsNext]_lvars => TradeInv'
<1> SUFFICES ASSUME TradeInv, [ListingsNext]_lvars PROVE TradeInv'
  OBVIOUS
<1>0. now \in 0 .. MaxTime /\ MaxTime \in Nat
  BY ListingAssumption DEF TradeInv, ListingsTypeOK
<1>1. CASE Trade
  BY <1>1, SeedKeeps, CreateItemKeeps, CreateListingKeeps, BuyKeeps DEF Trade
<1>2. CASE ClockTick
  BY <1>0, <1>2, ClockKeeps DEF ClockTick
<1>3. CASE UNCHANGED lvars
  BY <1>0, <1>3, ClockKeeps DEF lvars
<1> QED BY <1>1, <1>2, <1>3 DEF ListingsNext

LEMMA TradeInit == ListingsInit => TradeInv
<1> SUFFICES ASSUME ListingsInit PROVE TradeInv
  OBVIOUS
<1>1. ListingsTypeOK
  BY ListingAssumption, GuildsAssumption
     DEF ListingsInit, WalletsInit, ListingsTypeOK, WalletsType, NoGood, GoodRow, NoListing,
         ListingRow
<1>2. RowsConsistent /\ SoldOutAtZero /\ ListedByOwner
  BY DEF ListingsInit, RowsConsistent, SoldOutAtZero, ListedByOwner, NoGood, NoListing
<1>3. BalancesSound
  BY GuildsAssumption DEF ListingsInit, WalletsInit, BalancesSound, Money
<1>4. ChargedBySales /\ DailyCapRespected
  BY ListingAssumption, HalfAssumption DEF ListingsInit, ChargedBySales, DailyCapRespected
<1>5. SalesReconcile
  <2> SUFFICES ASSUME NEW g \in Guilds
               PROVE  LET ledger == wallets.ledger[g]
                      IN  /\ ledger["debit_listing"] = SumFunctionOnSet(PaidBy(g), ListingIds)
                          /\ ledger["debit_listing"] = SumFunctionOnSet(spent[g], Days)
                          /\ ledger["credit_listing"] = SumFunctionOnSet(PaidTo(g), ListingIds)
                          /\ wallets.total[g] = InitTotal[g] + ledger["credit_listing"] - ledger["debit_listing"]
    BY DEF SalesReconcile
  <2>1. /\ wallets.ledger[g]["debit_listing"] = 0 /\ wallets.ledger[g]["credit_listing"] = 0
        /\ wallets.total[g] = InitTotal[g] /\ InitTotal[g] \in Nat
    BY GuildsAssumption DEF ListingsInit, WalletsInit, LedgerKinds
  <2>2. \A l \in ListingIds : PaidBy(g)[l] = 0 /\ PaidTo(g)[l] = 0
    BY DEF ListingsInit, PaidBy, PaidTo, NoListing
  <2>3. \A d \in Days : spent[g][d] = 0
    BY DEF ListingsInit
  <2>4. /\ SumFunctionOnSet(PaidBy(g), ListingIds) = 0
        /\ SumFunctionOnSet(PaidTo(g), ListingIds) = 0
        /\ SumFunctionOnSet(spent[g], Days) = 0
    BY <2>2, <2>3, SumZero, ListingAssumption
  <2> QED BY <2>1, <2>4
<1> QED BY <1>1, <1>2, <1>3, <1>4, <1>5 DEF TradeInv

-----------------------------------------------------------------------------
(* The inductive invariant of the listings: types and references, the      *)
(* money, the stock, who charged which day, and the sums that reconcile.   *)
THEOREM TradeInvariant == ListingsSpec => []TradeInv
  BY TradeInit, TradeStep, PTL DEF ListingsSpec

(* rules.go EnsureWithinDailyCap and listing.go Buy: no day's total passes *)
(* the cap but by one purchase whose sum wrapped before midnight.          *)
THEOREM DailyCapAlwaysRespected == ListingsSpec => []DailyCapRespected
<1>1. TradeInv => DailyCapRespected
  BY DEF TradeInv
<1> QED BY <1>1, TradeInvariant, PTL

(* listing.go Buy: wallets, ledgers, daily totals and sold listings tell   *)
(* the same story, for any number of sales.                                *)
THEOREM SalesAlwaysReconcile == ListingsSpec => []SalesReconcile
<1>1. TradeInv => SalesReconcile
  BY DEF TradeInv
<1> QED BY <1>1, TradeInvariant, PTL

(* listing.go Buy: an item is sold exactly when its stock is used up,      *)
(* however many listings offer it.                                         *)
THEOREM AlwaysSoldOutAtZero == ListingsSpec => []SoldOutAtZero
<1>1. TradeInv => SoldOutAtZero
  BY DEF TradeInv
<1> QED BY <1>1, TradeInvariant, PTL

(* listing.go Create and Buy: the seller paid is the owner, and no         *)
(* legendary is ever listed.                                               *)
THEOREM AlwaysListedByOwner == ListingsSpec => []ListedByOwner
<1>1. TradeInv => ListedByOwner
  BY DEF TradeInv
<1> QED BY <1>1, TradeInvariant, PTL

-----------------------------------------------------------------------------
(* A step that sells a listing, or changes an item that is there, is a     *)
(* purchase that commits.                                                  *)
Purchases(g, l) ==
  \E t, u, s \in 0 .. now : BuyMoney(g, l, t, u, s) /\ BuyRows(g, l, t, u, s)

LEMMA OnlyPurchases ==
  ASSUME TradeInv, [ListingsNext]_lvars
  PROVE  \/ \E g \in Guilds, l \in ListingIds : Purchases(g, l)
         \/ /\ \A l \in ListingIds : listing'[l].status = "sold" => listing[l].status = "sold"
            /\ \A i \in Goods : good[i].status # "absent" => good'[i] = good[i]
<1> DEFINE Quiet ==
      /\ \A l \in ListingIds : listing'[l].status = "sold" => listing[l].status = "sold"
      /\ \A i \in Goods : good[i].status # "absent" => good'[i] = good[i]
<1>0. /\ good \in [Goods -> GoodRow] /\ listing \in [ListingIds -> ListingRow]
      /\ seq \in 0 .. MaxItems /\ MaxItems \in Nat
  BY ListingAssumption DEF TradeInv, ListingsTypeOK
<1>1. CASE UNCHANGED <<good, listing>>
  BY <1>1
<1>2. CASE Seed
  BY <1>0, <1>2 DEF Seed
<1>3. ASSUME NEW g \in Guilds, NEW p \in Products, NEW tier \in NewTiers, NEW n \in Stocks,
             CreateItem(g, p, tier, n)
      PROVE  Quiet
  BY <1>0, <1>3 DEF CreateItem, CanInsert, TakesId, NextId, Goods
<1>4. ASSUME NEW g \in Guilds, NEW i \in Goods, NEW p \in Prices, NEW l \in ListingIds,
             CreateListing(g, i, p, l)
      PROVE  Quiet
  BY <1>0, <1>4 DEF CreateListing, ListingRow
<1>5. ASSUME NEW g \in Guilds, NEW l \in ListingIds,
             NEW t \in 0 .. now, NEW u \in 0 .. now, NEW s \in 0 .. now, Buy(g, l, t, u, s)
      PROVE  Purchases(g, l) \/ Quiet
  <2>1. CASE UNCHANGED <<wallets, good, spent, listing>>
    BY <2>1
  <2>2. CASE ~ UNCHANGED <<wallets, good, spent, listing>>
    BY <1>5, <2>2, BuyMoneyExact, BuyRowsExact DEF Buy, Purchases
  <2> QED BY <2>1, <2>2
<1> QED
  BY <1>1, <1>2, <1>3, <1>4, <1>5 DEF ListingsNext, Trade, ClockTick, lvars

(* One unit leaves the seller's items and one joins the buyer's. *)
LEMMA UnitMoves ==
  ASSUME TradeInv, NEW g \in Guilds, NEW l \in ListingIds,
         NEW t, NEW u, NEW s, BuyRows(g, l, t, u, s),
         NEW p, p = good[listing[l].item].product,
         NEW seller, seller = listing[l].seller, seller # g
  PROVE  /\ UnitsHeld(g, p)' = UnitsHeld(g, p) + 1
         /\ UnitsHeld(seller, p)' = UnitsHeld(seller, p) - 1
<1> DEFINE i == listing[l].item
           Units(h) == [j \in Goods |-> IF good[j].owner = h /\ good[j].product = p
                                        THEN good[j].stock ELSE 0]
<1>0. IsFiniteSet(Goods)
  BY ListingAssumption, FS_Interval DEF Goods
<1>1. /\ i \in Goods /\ NextId \in Goods /\ i # NextId
      /\ good \in [Goods -> GoodRow] /\ good' \in [Goods -> GoodRow]
      /\ good[i].owner = seller /\ good[NextId] = NoGood
      /\ good'[NextId] = NewGood(p, good[i].tier, g, 1)
      /\ \A j \in Goods \ {i, NextId} : good'[j] = good[j]
  BY DEF TradeInv, ListingsTypeOK, BuyRows
<1>2. /\ good[i].stock \in Int
      /\ good'[i].owner = seller /\ good'[i].product = p /\ good'[i].stock = good[i].stock - 1
  <2>1. good[i] \in GoodRow /\ good'[i] = TakeUnit(i)
    BY <1>1 DEF BuyRows
  <2> QED BY <1>1, <2>1, TakeUnitRow DEF GoodRow
<1>3. seller # Null /\ g # Null
  BY <1>1, ListingAssumption DEF TradeInv, RowsConsistent, BuyRows
<1>4. ASSUME NEW h \in {g, seller}
      PROVE  UnitsHeld(h, p)' = UnitsHeld(h, p) + (IF h = g THEN 1 ELSE -1)
  <2> DEFINE e == Units(h)
             f == Units(h)'
  <2>1. /\ \A j \in Goods : e[j] \in Int /\ f[j] \in Int
        /\ \A j \in Goods \ {i, NextId} : f[j] = e[j]
    BY <1>1 DEF GoodRow
  <2>2. /\ e[NextId] = 0 /\ f[NextId] = IF h = g THEN 1 ELSE 0
    BY <1>1, <1>3 DEF NoGood, NewGood
  <2>3. /\ e[i] \in Int /\ f[i] = IF h = g THEN e[i] ELSE e[i] - 1
    BY <1>1, <1>2
  <2>4. UnitsHeld(h, p) = SumFunctionOnSet(e, Goods) /\ UnitsHeld(h, p)' = SumFunctionOnSet(f, Goods)
    BY DEF UnitsHeld
  <2> HIDE DEF e, f, i
  <2>5. SumFunctionOnSet(f, Goods) =
          SumFunctionOnSet(e, Goods) - e[i] - e[NextId] + f[i] + f[NextId]
    <3>1. /\ IsFiniteSet(Goods) /\ i \in Goods /\ NextId \in Goods /\ i # NextId
          /\ \A j \in Goods : e[j] \in Int
          /\ \A j \in Goods : f[j] \in Int
          /\ \A j \in Goods \ {i, NextId} : f[j] = e[j]
      BY <1>0, <1>1, <2>1
    <3> QED BY ONLY <3>1, SumChangeTwo
  <2>6. SumFunctionOnSet(e, Goods) \in Int
    BY <1>0, <2>1, SumInt
  <2> QED BY <2>2, <2>3, <2>4, <2>5, <2>6
<1> QED BY <1>4

(* listing.go Buy: a sale moves one unit of one product to the buyer and   *)
(* its price to the seller, in one step and nothing else.                  *)
THEOREM AlwaysUnitForMoney == ListingsSpec => UnitForMoney
<1> DEFINE Fair ==
      \A l \in ListingIds, seller, buyer \in Guilds : Sells(l, seller, buyer) =>
        /\ \E p \in Products :
             /\ UnitsHeld(buyer, p)' = UnitsHeld(buyer, p) + 1
             /\ UnitsHeld(seller, p)' = UnitsHeld(seller, p) - 1
        /\ wallets'.total[buyer] = wallets.total[buyer] - listing[l].price
        /\ wallets'.total[seller] = wallets.total[seller] + listing[l].price
<1>1. ASSUME TradeInv, [ListingsNext]_lvars PROVE Fair
  <2> SUFFICES ASSUME NEW l \in ListingIds, NEW seller \in Guilds, NEW buyer \in Guilds,
                      Sells(l, seller, buyer)
               PROVE  /\ \E p \in Products :
                           /\ UnitsHeld(buyer, p)' = UnitsHeld(buyer, p) + 1
                           /\ UnitsHeld(seller, p)' = UnitsHeld(seller, p) - 1
                      /\ wallets'.total[buyer] = wallets.total[buyer] - listing[l].price
                      /\ wallets'.total[seller] = wallets.total[seller] + listing[l].price
    OBVIOUS
  <2>1. PICK g \in Guilds, k \in ListingIds : Purchases(g, k)
    BY <1>1, OnlyPurchases DEF Sells
  <2>2. PICK t \in 0 .. now, u \in 0 .. now, s \in 0 .. now :
          BuyMoney(g, k, t, u, s) /\ BuyRows(g, k, t, u, s)
    BY <2>1 DEF Purchases
  <2>3. k = l /\ g = buyer /\ seller = listing[l].seller
    BY <2>2 DEF Sells, BuyRows
  <2>4. BuyMoney(buyer, l, t, u, s) /\ BuyRows(buyer, l, t, u, s)
    BY <2>2, <2>3
  <2>5. seller # buyer
    BY <2>3, <2>4 DEF BuyMoney
  <2>6. PICK p \in Products : p = good[listing[l].item].product
    BY <2>4 DEF BuyRows
  <2>7. UnitsHeld(buyer, p)' = UnitsHeld(buyer, p) + 1 /\ UnitsHeld(seller, p)' = UnitsHeld(seller, p) - 1
    BY <1>1, <2>3, <2>4, <2>5, <2>6, UnitMoves
  <2>8. /\ wallets'.total[buyer] = wallets.total[buyer] - listing[l].price
        /\ wallets'.total[seller] = wallets.total[seller] + listing[l].price
    BY <2>3, <2>4, <2>5 DEF BuyMoney
  <2> QED BY <2>7, <2>8
<1>2. TradeInv /\ [ListingsNext]_lvars => [Fair]_lvars
  BY <1>1
<1> QED BY <1>2, TradeInvariant, PTL DEF ListingsSpec, UnitForMoney

(* seed.go: an item that is there changes only by the sale of a unit of    *)
(* it, so that seeding again never undoes a trade.                         *)
THEOREM SeedAlwaysKeepsTrades == ListingsSpec => SeedKeepsTrades
<1> DEFINE Kept ==
      \A i \in Goods : good[i].status # "absent" /\ good'[i] # good[i] =>
        \E l \in ListingIds, seller, buyer \in Guilds :
          /\ listing[l].item = i
          /\ Sells(l, seller, buyer)
<1>1. ASSUME TradeInv, [ListingsNext]_lvars PROVE Kept
  <2> SUFFICES ASSUME NEW i \in Goods, good[i].status # "absent", good'[i] # good[i]
               PROVE  \E l \in ListingIds, seller, buyer \in Guilds :
                        listing[l].item = i /\ Sells(l, seller, buyer)
    OBVIOUS
  <2>1. PICK g \in Guilds, l \in ListingIds : Purchases(g, l)
    BY <1>1, OnlyPurchases
  <2>2. PICK t \in 0 .. now, u \in 0 .. now, s \in 0 .. now :
          BuyMoney(g, l, t, u, s) /\ BuyRows(g, l, t, u, s)
    BY <2>1 DEF Purchases
  <2>3. listing[l].item = i
    BY <2>2 DEF BuyRows, NoGood
  <2>4. listing[l].seller \in Guilds /\ Sells(l, listing[l].seller, g)
    BY <2>2 DEF BuyMoney, BuyRows, Sells
  <2> QED BY <2>3, <2>4
<1>2. TradeInv /\ [ListingsNext]_lvars => [Kept]_lvars
  BY <1>1
<1> QED BY <1>2, TradeInvariant, PTL DEF ListingsSpec, SeedKeepsTrades

-----------------------------------------------------------------------------
(* When no sum of a cap and the money in the market overflows, a purchase  *)
(* that passes the check fits the day it is charged to.                    *)
LEMMA CapStep ==
  ASSUME TradeInv, CapNeverExceeded, [ListingsNext]_lvars,
         \A g \in Guilds : Cap[g] + Money < Half
  PROVE  CapNeverExceeded'
<1> SUFFICES ASSUME NEW h \in Guilds, NEW d \in Days, Cap[h] # 0
             PROVE  spent'[h][d] <= Cap[h]
  BY DEF CapNeverExceeded
<1>0. spent[h][d] <= Cap[h]
  BY DEF CapNeverExceeded
<1>1. CASE spent' = spent
  BY <1>0, <1>1
<1>2. ASSUME NEW g \in Guilds, NEW l \in ListingIds,
             NEW t \in 0 .. now, NEW u \in 0 .. now, NEW s \in 0 .. now, Buy(g, l, t, u, s),
             ~ UNCHANGED <<wallets, good, spent, listing>>, h = g, d = Day[u]
      PROVE  spent'[h][d] <= Cap[h]
  <2> DEFINE p == listing[l].price
             C == Day[t]
  <2>1. BuyMoney(g, l, t, u, s) /\ BuyRows(g, l, t, u, s)
    BY <1>2, BuyMoneyExact, BuyRowsExact DEF Buy
  <2>2. /\ now \in 0 .. MaxTime /\ MaxTime \in Nat /\ t \in 0 .. MaxTime /\ u \in 0 .. MaxTime
        /\ Days \subseteq Nat /\ C \in Days /\ C <= d
    BY <1>2, ListingAssumption DEF TradeInv, ListingsTypeOK, Buy
  <2>3. spent[g][C] \in Nat /\ spent[g][d] \in Nat /\ spent[g][C] <= Cap[g] /\ Cap[g] \in Nat
    BY <1>2, <2>2, ListingAssumption, HalfAssumption DEF TradeInv, ChargedBySales, CapNeverExceeded
  <2>4. p \in Nat /\ p <= Money
    <3>1. wallets.total[g] <= SumFunctionOnSet(wallets.total, Guilds)
      BY ListingAssumption, SumBoundsSummand DEF TradeInv, BalancesSound
    <3>2. wallets.total[g] <= Money /\ wallets.total[g] \in Nat
      BY <3>1 DEF TradeInv, BalancesSound
    <3>3. p \in Int /\ p > 0 /\ p <= wallets.total[g]
      BY <2>1 DEF BuyMoney
    <3> HIDE DEF p
    <3> QED BY <3>2, <3>3, MoneyFits
  <2>5. Wrap(spent[g][C] + p) <= Cap[g]
    BY <1>2 DEF Buy, EnsureWithinDailyCap
  <2>6. C = d \/ spent[g][d] = 0
    <3>0. C \in Nat /\ d \in Nat /\ C <= d
      BY <2>2
    <3> HIDE DEF C
    <3>1. C # d => C < d
      BY <3>0
    <3> USE DEF C
    <3>2. ReadAfterLastPurchase(g, t)
      BY <1>2 DEF Buy
    <3> QED BY <3>1, <3>2, LaterDayFree
  <2>7. spent'[g][d] = spent[g][d] + p
    BY <1>2, <2>1 DEF BuyRows
  <2>8. Cap[g] + Money < Half
    OBVIOUS
  <2> HIDE DEF p, C
  <2>9. Wrap(spent[g][C] + p) = spent[g][C] + p
    BY <2>3, <2>4, <2>8, MoneyFits, HalfAssumption, WrapInRange
  <2> QED BY <1>2, <2>3, <2>4, <2>5, <2>6, <2>7, <2>9
<1>3. ASSUME NEW g \in Guilds, NEW l \in ListingIds,
             NEW t \in 0 .. now, NEW u \in 0 .. now, NEW s \in 0 .. now, Buy(g, l, t, u, s)
      PROVE  spent'[h][d] <= Cap[h]
  <2>1. CASE UNCHANGED <<wallets, good, spent, listing>>
    BY <1>1, <2>1
  <2>2. CASE ~ UNCHANGED <<wallets, good, spent, listing>> /\ ~ (h = g /\ d = Day[u])
    <3>1. BuyRows(g, l, t, u, s)
      BY <1>3, <2>2, BuyRowsExact DEF Buy
    <3>2. spent'[h][d] = spent[h][d] /\ spent[h][d] \in Int
      BY <2>2, <3>1 DEF BuyRows, TradeInv, ListingsTypeOK
    <3> QED BY <1>0, <3>2
  <2> QED BY <1>2, <1>3, <2>1, <2>2
<1> QED
  BY <1>1, <1>3
     DEF ListingsNext, Trade, Seed, CreateItem, CreateListing, ClockTick, lvars

(* listing.go: "buyers never ... exceed their daily cap" is true of every  *)
(* market whose caps and money add up to less than an int64.               *)
THEOREM CapHoldsWhenSumsFit ==
  ASSUME \A g \in Guilds : Cap[g] + Money < Half
  PROVE  ListingsSpec => []CapNeverExceeded
<1>1. ListingsInit => CapNeverExceeded
  BY ListingAssumption DEF ListingsInit, CapNeverExceeded
<1>2. TradeInv /\ CapNeverExceeded /\ [ListingsNext]_lvars => CapNeverExceeded'
  BY CapStep
<1> QED BY <1>1, <1>2, TradeInvariant, PTL DEF ListingsSpec
-----------------------------------------------------------------------------
(* The transactions of BuyTx.                                              *)
Stages == {"begin", "listing", "item", "buyer", "debit", "credit", "commit"}

TxRow == [next : Stages, guild : Guilds \cup {Null}, listing : ListingIds \cup {Null},
          item : Goods \cup {Null}, price : Int, at : Nat, listingRow : ListingRow,
          itemRow : GoodRow, mine : SUBSET Guilds, w : WalletsType]

BuyTypeOK ==
  /\ tx \in [Sessions -> TxRow]
  /\ DOMAIN holder = Rows

(* A request names a guild and a listing, and has written nothing before   *)
(* its first movement of money.                                            *)
Named(s) ==
  /\ tx[s].next # "begin" => tx[s].guild \in Guilds /\ tx[s].listing \in ListingIds
  /\ tx[s].next \in {"listing", "item", "buyer", "debit"} => tx[s].mine = {} /\ tx[s].w = NoWallets

(* From LockListing on. *)
ListingHeld(s) ==
  tx[s].next \in {"item", "buyer", "debit", "credit", "commit"} =>
    /\ holder[ListingLock(tx[s].listing)] = s
    /\ listing[tx[s].listing] = tx[s].listingRow
    /\ tx[s].listingRow.status = "open" /\ tx[s].listingRow.seller # tx[s].guild
    /\ tx[s].item = tx[s].listingRow.item /\ tx[s].price = tx[s].listingRow.price

(* From LockItem on. *)
ItemHeld(s) ==
  tx[s].next \in {"buyer", "debit", "credit", "commit"} =>
    /\ holder[ItemLock(tx[s].item)] = s
    /\ good[tx[s].item] = tx[s].itemRow /\ tx[s].itemRow.stock >= 1

(* From LockBuyer on: no other purchase of the buyer commits. *)
BuyerHeld(s) ==
  tx[s].next \in {"debit", "credit", "commit"} =>
    /\ holder[WalletLock(tx[s].guild)] = s
    /\ tx[s].at \in 0 .. now /\ ReadAfterLastPurchase(tx[s].guild, tx[s].at)
    /\ EnsureWithinDailyCap(Cap[tx[s].guild], spent[tx[s].guild][Day[tx[s].at]], tx[s].price)

(* From DebitBuyer on, its version of the buyer's row is exact. *)
Debited(s) ==
  LET g == tx[s].guild
      p == tx[s].price
  IN  tx[s].next \in {"credit", "commit"} =>
        /\ CanDebit(wallets, g, p)
        /\ tx[s].w.total[g] = Wrap(wallets.total[g] - p)
        /\ tx[s].w.reserved[g] = wallets.reserved[g]

(* The ledger rows it will add are those of the movements it has made. *)
Noted(s) ==
  LET g == tx[s].guild
      p == tx[s].price
      debit == Recorded(NoWallets, g, "debit_listing", p)
  IN  /\ tx[s].next = "credit" => tx[s].mine = {g} /\ tx[s].w.ledger = debit
      /\ tx[s].next = "commit" =>
           /\ tx[s].mine = {g, tx[s].listingRow.seller}
           /\ \A h \in Guilds, k \in LedgerKinds :
                tx[s].w.ledger[h][k] =
                  (IF h = g /\ k = "debit_listing" THEN p ELSE 0)
                  + (IF h = tx[s].listingRow.seller /\ k = "credit_listing" THEN p ELSE 0)

(* From CreditSeller on, so is its version of the seller's row. *)
Credited(s) ==
  LET g == tx[s].listingRow.seller
      p == tx[s].price
  IN  tx[s].next = "commit" =>
        /\ holder[WalletLock(g)] = s
        /\ CanCredit(p)
        /\ tx[s].w.total[g] = Wrap(wallets.total[g] + p)
        /\ tx[s].w.reserved[g] = wallets.reserved[g]

SessionInv(s) ==
  /\ Named(s) /\ ListingHeld(s) /\ ItemHeld(s) /\ BuyerHeld(s)
  /\ Debited(s) /\ Noted(s) /\ Credited(s)

BuyInv ==
  /\ TradeInv
  /\ BuyTypeOK
  /\ \A s \in Sessions : SessionInv(s)
-----------------------------------------------------------------------------
(* A session that may commit.  What it has read is what is there. *)
Ready(s) ==
  LET t == tx[s]
      row == listing[t.listing]
  IN  /\ t.guild \in Guilds /\ t.listing \in ListingIds
      /\ t.item = row.item /\ t.price = row.price /\ row.seller # t.guild
      /\ row = t.listingRow /\ row.status = "open"
      /\ row.item \in Goods /\ row.seller \in Guilds
      /\ good[row.item] = t.itemRow /\ good[row.item].stock >= 1
      /\ t.at \in 0 .. now /\ ReadAfterLastPurchase(t.guild, t.at)
      /\ EnsureWithinDailyCap(Cap[t.guild], spent[t.guild][Day[t.at]], t.price)
      /\ CanDebit(wallets, t.guild, t.price) /\ CanCredit(t.price)

LEMMA CommitReady ==
  ASSUME BuyInv, NEW s \in Sessions, At(s, "commit")
  PROVE  Ready(s)
<1>1. Named(s) /\ ListingHeld(s) /\ ItemHeld(s) /\ BuyerHeld(s) /\ Debited(s) /\ Credited(s)
  BY DEF BuyInv, SessionInv
<1>2. tx[s].next = "commit"
  BY DEF At
<1>3. /\ tx[s].guild \in Guilds /\ tx[s].listing \in ListingIds
      /\ listing[tx[s].listing] = tx[s].listingRow /\ tx[s].listingRow.status = "open"
      /\ tx[s].listingRow.seller # tx[s].guild
      /\ tx[s].item = tx[s].listingRow.item /\ tx[s].price = tx[s].listingRow.price
  BY <1>1, <1>2 DEF Named, ListingHeld
<1>4. tx[s].listingRow.item \in Goods /\ tx[s].listingRow.seller \in Guilds
  BY <1>3 DEF BuyInv, TradeInv, RowsConsistent
<1>5. good[tx[s].item] = tx[s].itemRow /\ tx[s].itemRow.stock >= 1
  BY <1>1, <1>2 DEF ItemHeld
<1>6. /\ tx[s].at \in 0 .. now /\ ReadAfterLastPurchase(tx[s].guild, tx[s].at)
      /\ EnsureWithinDailyCap(Cap[tx[s].guild], spent[tx[s].guild][Day[tx[s].at]], tx[s].price)
  BY <1>1, <1>2 DEF BuyerHeld
<1>7. CanDebit(wallets, tx[s].guild, tx[s].price) /\ CanCredit(tx[s].price)
  BY <1>1, <1>2 DEF Debited, Credited
<1> QED BY <1>3, <1>4, <1>5, <1>6, <1>7 DEF Ready

(* The wallet rows and ledger rows it writes are those of the two          *)
(* movements, done at once on the committed wallets.                       *)
LEMMA WrittenExact ==
  ASSUME BuyInv, NEW s \in Sessions, At(s, "commit")
  PROVE  Written(tx[s]) =
           Credit(Debit(wallets, tx[s].guild, tx[s].price, "debit_listing"),
                  tx[s].listingRow.seller, tx[s].price, "credit_listing")
<1> DEFINE g == tx[s].guild
           p == tx[s].price
           seller == tx[s].listingRow.seller
           w == tx[s].w
           paid == Debit(wallets, g, p, "debit_listing")
           moved == Credit(paid, seller, p, "credit_listing")
<1>1. /\ g \in Guilds /\ seller \in Guilds /\ seller # g /\ p > 0
  BY CommitReady DEF Ready, CanCredit, EnsurePositive
<1>2. /\ tx[s] \in TxRow /\ p \in Int /\ w \in WalletsType /\ wallets \in WalletsType
  BY DEF BuyInv, BuyTypeOK, TradeInv, ListingsTypeOK, TxRow
<1>3. /\ w.total[g] = Wrap(wallets.total[g] - p) /\ w.reserved[g] = wallets.reserved[g]
      /\ w.total[seller] = Wrap(wallets.total[seller] + p)
      /\ w.reserved[seller] = wallets.reserved[seller]
      /\ tx[s].mine = {g, seller}
      /\ \A h \in Guilds, k \in LedgerKinds :
           w.ledger[h][k] = (IF h = g /\ k = "debit_listing" THEN p ELSE 0)
                            + (IF h = seller /\ k = "credit_listing" THEN p ELSE 0)
  BY DEF BuyInv, SessionInv, Debited, Credited, Noted, At
<1>t. /\ wallets.total \in [Guilds -> Int] /\ wallets.reserved \in [Guilds -> Int]
      /\ wallets.ledger \in [Guilds -> [LedgerKinds -> Nat]]
  BY <1>2 DEF WalletsType
<1> HIDE DEF g, p, seller, w
<1>4. /\ paid.total = [wallets.total EXCEPT ![g] = Wrap(wallets.total[g] - p)]
      /\ paid.reserved = wallets.reserved
      /\ paid.ledger = Recorded(wallets, g, "debit_listing", p)
  BY DEF Debit
<1> HIDE DEF paid
<1>5. /\ moved = [total |-> moved.total, reserved |-> moved.reserved, ledger |-> moved.ledger]
      /\ moved.total = [paid.total EXCEPT ![seller] = Wrap(paid.total[seller] + p)]
      /\ moved.reserved = paid.reserved
      /\ moved.ledger = Recorded(paid, seller, "credit_listing", p)
  BY DEF Credit
<1>6. Written(tx[s]) =
        [total    |-> [h \in Guilds |-> IF h \in {g, seller} THEN w.total[h] ELSE wallets.total[h]],
         reserved |-> [h \in Guilds |-> IF h \in {g, seller} THEN w.reserved[h] ELSE wallets.reserved[h]],
         ledger   |-> [h \in Guilds |-> [k \in LedgerKinds |-> wallets.ledger[h][k] + w.ledger[h][k]]]]
  BY <1>3 DEF Written, w
<1> HIDE DEF moved
<1>7. moved.total = [h \in Guilds |-> IF h \in {g, seller} THEN w.total[h] ELSE wallets.total[h]]
  <2>1. paid.total = [h \in Guilds |-> IF h = g THEN w.total[g] ELSE wallets.total[h]]
    BY <1>1, <1>3, <1>t, <1>4
  <2>2. paid.total[seller] = wallets.total[seller]
    BY <1>1, <2>1
  <2>3. moved.total = [h \in Guilds |-> IF h = seller THEN w.total[seller] ELSE paid.total[h]]
    BY <1>1, <1>3, <1>5, <2>1, <2>2
  <2>4. \A h \in Guilds : (IF h = seller THEN w.total[seller] ELSE paid.total[h])
                            = (IF h \in {g, seller} THEN w.total[h] ELSE wallets.total[h])
    BY <1>1, <2>1
  <2> QED BY <2>3, <2>4
<1>8. moved.reserved = [h \in Guilds |-> IF h \in {g, seller} THEN w.reserved[h] ELSE wallets.reserved[h]]
  <2>1. \A h \in Guilds :
          wallets.reserved[h] = IF h \in {g, seller} THEN w.reserved[h] ELSE wallets.reserved[h]
    BY <1>3
  <2> QED BY <1>t, <1>4, <1>5, <2>1
<1>9. moved.ledger = [h \in Guilds |-> [k \in LedgerKinds |-> wallets.ledger[h][k] + w.ledger[h][k]]]
  <2> DEFINE sum == [h \in Guilds |-> [k \in LedgerKinds |-> wallets.ledger[h][k] + w.ledger[h][k]]]
  <2>1. "debit_listing" \in LedgerKinds /\ "credit_listing" \in LedgerKinds
    BY DEF LedgerKinds
  <2>2. paid.ledger \in [Guilds -> [LedgerKinds -> Nat]]
        /\ \A h \in Guilds, k \in LedgerKinds :
             paid.ledger[h][k] = IF h = g /\ k = "debit_listing"
                                 THEN wallets.ledger[h][k] + p ELSE wallets.ledger[h][k]
    BY <1>1, <1>2, <1>t, <1>4, <2>1 DEF Recorded
  <2>3. moved.ledger \in [Guilds -> [LedgerKinds -> Nat]]
        /\ \A h \in Guilds, k \in LedgerKinds :
             moved.ledger[h][k] = IF h = seller /\ k = "credit_listing"
                                  THEN paid.ledger[h][k] + p ELSE paid.ledger[h][k]
    BY <1>1, <1>2, <1>5, <2>1, <2>2 DEF Recorded
  <2>4. \A h \in Guilds, k \in LedgerKinds : moved.ledger[h][k] = wallets.ledger[h][k] + w.ledger[h][k]
    <3> TAKE h \in Guilds, k \in LedgerKinds
    <3> DEFINE n == wallets.ledger[h][k]
    <3>1. n \in Nat
      BY <1>t
    <3>2. w.ledger[h][k] = (IF h = g /\ k = "debit_listing" THEN p ELSE 0)
                           + (IF h = seller /\ k = "credit_listing" THEN p ELSE 0)
      BY <1>3
    <3>3. moved.ledger[h][k] = (IF h = g /\ k = "debit_listing" THEN n + p
                                ELSE IF h = seller /\ k = "credit_listing" THEN n + p ELSE n)
      BY <1>1, <2>2, <2>3
    <3> HIDE DEF n
    <3>4. moved.ledger[h][k] = n + w.ledger[h][k]
      BY <1>1, <1>2, <3>1, <3>2, <3>3
    <3> QED BY <3>4 DEF n
  <2>5. \A h \in Guilds : moved.ledger[h] = [k \in LedgerKinds |-> wallets.ledger[h][k] + w.ledger[h][k]]
    BY <2>3, <2>4
  <2> QED BY <2>3, <2>5
<1>10. Written(tx[s]) = moved
  BY <1>5, <1>6, <1>7, <1>8, <1>9
<1> QED BY <1>10 DEF moved, paid, g, p, seller

(* The commit of a purchase is Buy, whether it succeeds or rolls back.     *)
LEMMA CommitIsBuy ==
  ASSUME BuyInv, NEW s \in Sessions, CommitPurchase(s)
  PROVE  \E u, sold \in 0 .. now : Buy(tx[s].guild, tx[s].listing, tx[s].at, u, sold)
<1> DEFINE t == tx[s]
           g == t.guild
           l == t.listing
           i == listing[l].item
           price == listing[l].price
           seller == listing[l].seller
<1>1. At(s, "commit") /\ TakesId /\ UNCHANGED now
  BY DEF CommitPurchase
<1>2. Ready(s)
  BY <1>1, CommitReady
<1>3. now \in Nat /\ listing \in [ListingIds -> ListingRow]
  BY ListingAssumption DEF BuyInv, TradeInv, ListingsTypeOK
<1>4. PICK u \in t.at .. now, sold \in t.at .. now :
        /\ u <= sold
        /\ \/ /\ CanInsert /\ CanAddDailySpent(g, Day[u], t.price)
              /\ wallets' = Written(t)
              /\ good' = [good EXCEPT
                   ![t.item] = [t.itemRow EXCEPT !.stock = @ - 1,
                                  !.status = IF t.itemRow.stock = 1 THEN "sold" ELSE @],
                   ![NextId] = NewGood(t.itemRow.product, t.itemRow.tier, g, 1)]
              /\ spent' = AddDailySpent(g, Day[u], t.price)
              /\ listing' = [listing EXCEPT ![t.listing] =
                   [t.listingRow EXCEPT !.status = "sold", !.buyer = g, !.soldAt = sold]]
           \/ UNCHANGED <<wallets, good, spent, listing>>
  BY DEF CommitPurchase
<1>5. t.at <= u /\ u \in 0 .. now /\ sold \in 0 .. now
  BY <1>2, <1>3 DEF Ready
<1>6. /\ listing[l].status = "open" /\ seller # g /\ good[i].stock >= 1
      /\ ReadAfterLastPurchase(g, t.at)
      /\ EnsureWithinDailyCap(Cap[g], spent[g][Day[t.at]], price)
      /\ CanDebit(wallets, g, price) /\ CanCredit(price)
      /\ t.item = i /\ t.price = price /\ t.itemRow = good[i] /\ t.listingRow = listing[l]
      /\ l \in ListingIds
  BY <1>2 DEF Ready
<1>7. \/ /\ CanInsert /\ CanAddDailySpent(g, Day[u], price)
         /\ wallets' = Credit(Debit(wallets, g, price, "debit_listing"),
                              seller, price, "credit_listing")
         /\ good' = [good EXCEPT ![i] = TakeUnit(i),
                                 ![NextId] = NewGood(good[i].product, good[i].tier, g, 1)]
         /\ spent' = AddDailySpent(g, Day[u], price)
         /\ listing' = MarkSold(l, g, sold)
      \/ UNCHANGED <<wallets, good, spent, listing>>
  <2>1. Written(t) = Credit(Debit(wallets, g, price, "debit_listing"), seller, price, "credit_listing")
    BY <1>1, <1>6, WrittenExact
  <2>2. [t.itemRow EXCEPT !.stock = @ - 1, !.status = IF t.itemRow.stock = 1 THEN "sold" ELSE @]
          = TakeUnit(i)
    BY <1>6 DEF TakeUnit
  <2>3. [listing EXCEPT ![t.listing] =
           [t.listingRow EXCEPT !.status = "sold", !.buyer = g, !.soldAt = sold]] = MarkSold(l, g, sold)
    <3> DEFINE saved == [listing[l] EXCEPT !.status = "sold", !.buyer = g, !.soldAt = sold]
    <3>1. [t.listingRow EXCEPT !.status = "sold", !.buyer = g, !.soldAt = sold] = saved
      BY <1>6
    <3>2. [listing EXCEPT ![l] = saved] = MarkSold(l, g, sold)
      BY <1>3, <1>6 DEF MarkSold, ListingRow
    <3> HIDE DEF saved
    <3> QED BY <3>1, <3>2
  <2> QED BY <1>4, <1>6, <2>1, <2>2, <2>3
<1>8. Buy(g, l, t.at, u, sold)
  BY <1>1, <1>4, <1>5, <1>6, <1>7 DEF Buy
<1> QED BY <1>5, <1>8
-----------------------------------------------------------------------------
LEMMA LocksAreRows ==
  /\ \A l \in ListingIds : ListingLock(l) \in Rows
  /\ \A i \in Goods : ItemLock(i) \in Rows
  /\ \A g \in Guilds : WalletLock(g) \in Rows
  BY DEF Rows

(* A step that leaves the transaction of c, its locks and the rows they    *)
(* lock as they are; an open listing and an item in stock are not new.     *)
Spares(c) ==
  /\ tx'[c] = tx[c]
  /\ \A r \in Rows : holder[r] = c => holder'[r] = c
  /\ now' \in Nat /\ now <= now'
  /\ \A l \in ListingIds :
       holder[ListingLock(l)] = c /\ listing[l].status = "open" => listing'[l] = listing[l]
  /\ \A i \in Goods :
       holder[ItemLock(i)] = c /\ good[i].stock >= 1 => good'[i] = good[i]
  /\ \A g \in Guilds : holder[WalletLock(g)] = c =>
       /\ wallets'.total[g] = wallets.total[g] /\ wallets'.reserved[g] = wallets.reserved[g]
       /\ spent'[g] = spent[g]
       /\ \A l \in ListingIds : listing'[l].buyer = g =>
            listing[l].buyer = g /\ listing'[l].soldAt = listing[l].soldAt

LEMMA SparedSession ==
  ASSUME BuyInv, NEW c \in Sessions, Spares(c)
  PROVE  SessionInv(c)'
<1> DEFINE t == tx[c]
           g == t.guild
           seller == t.listingRow.seller
<1>1. Named(c) /\ ListingHeld(c) /\ ItemHeld(c) /\ BuyerHeld(c) /\ Debited(c) /\ Noted(c) /\ Credited(c)
  BY DEF BuyInv, SessionInv
<1>2. /\ tx'[c] = tx[c] /\ now \in Nat /\ now' \in Nat /\ now <= now'
      /\ tx[c] \in TxRow
  BY ListingAssumption DEF Spares, BuyInv, BuyTypeOK, TradeInv, ListingsTypeOK
<1>3. Named(c)'
  BY <1>1, <1>2 DEF Named
<1>4. ListingHeld(c)'
  <2>1. CASE t.next \in {"item", "buyer", "debit", "credit", "commit"}
    <3>1. t.listing \in ListingIds /\ ListingLock(t.listing) \in Rows
      BY <1>1, <2>1, LocksAreRows DEF Named
    <3>2. holder[ListingLock(t.listing)] = c /\ listing[t.listing].status = "open"
          /\ listing[t.listing] = t.listingRow
      BY <1>1, <2>1 DEF ListingHeld
    <3>3. holder'[ListingLock(t.listing)] = c /\ listing'[t.listing] = listing[t.listing]
      BY <3>1, <3>2 DEF Spares
    <3> QED BY <1>1, <1>2, <3>2, <3>3 DEF ListingHeld, ListingLock
  <2> QED BY <1>2, <2>1 DEF ListingHeld
<1>5. ItemHeld(c)'
  <2>1. CASE t.next \in {"buyer", "debit", "credit", "commit"}
    <3>1. t.item \in Goods
      <4>1. t.listing \in ListingIds /\ listing[t.listing] = t.listingRow
            /\ t.listingRow.status = "open" /\ t.item = t.listingRow.item
        BY <1>1, <2>1 DEF Named, ListingHeld
      <4> QED BY <4>1 DEF BuyInv, TradeInv, RowsConsistent
    <3>2. holder[ItemLock(t.item)] = c /\ good[t.item] = t.itemRow /\ t.itemRow.stock >= 1
      BY <1>1, <2>1 DEF ItemHeld
    <3>3. holder'[ItemLock(t.item)] = c /\ good'[t.item] = good[t.item]
      BY <3>1, <3>2, LocksAreRows DEF Spares
    <3> QED BY <1>1, <1>2, <3>2, <3>3 DEF ItemHeld, ItemLock
  <2> QED BY <1>2, <2>1 DEF ItemHeld
<1>6. BuyerHeld(c)' /\ Debited(c)'
  <2>1. CASE t.next \in {"debit", "credit", "commit"}
    <3>1. g \in Guilds /\ WalletLock(g) \in Rows
      BY <1>1, <2>1, LocksAreRows DEF Named
    <3>2. /\ holder[WalletLock(g)] = c
          /\ t.at \in 0 .. now /\ ReadAfterLastPurchase(g, t.at)
          /\ EnsureWithinDailyCap(Cap[g], spent[g][Day[t.at]], t.price)
      BY <1>1, <2>1 DEF BuyerHeld
    <3>3. /\ holder'[WalletLock(g)] = c
          /\ wallets'.total[g] = wallets.total[g] /\ wallets'.reserved[g] = wallets.reserved[g]
          /\ spent'[g] = spent[g]
          /\ \A l \in ListingIds : listing'[l].buyer = g =>
               listing[l].buyer = g /\ listing'[l].soldAt = listing[l].soldAt
      BY <3>1, <3>2 DEF Spares
    <3>4. t.at \in 0 .. now' /\ ReadAfterLastPurchase(g, t.at)'
      BY <1>2, <3>2, <3>3 DEF ReadAfterLastPurchase
    <3>5. BuyerHeld(c)'
      BY <1>2, <3>2, <3>3, <3>4 DEF BuyerHeld, WalletLock, ReadAfterLastPurchase
    <3>6. Debited(c)'
      BY <1>1, <1>2, <3>3 DEF Debited, CanDebit
    <3> QED BY <3>5, <3>6
  <2> QED BY <1>2, <2>1 DEF BuyerHeld, Debited
<1>7. Noted(c)'
  BY <1>1, <1>2 DEF Noted, NoWallets, Recorded
<1>8. Credited(c)'
  <2>1. CASE t.next = "commit"
    <3>1. seller \in Guilds
      <4>1. t.listing \in ListingIds /\ listing[t.listing] = t.listingRow
            /\ t.listingRow.status = "open"
        BY <1>1, <2>1 DEF Named, ListingHeld
      <4> QED BY <4>1 DEF BuyInv, TradeInv, RowsConsistent
    <3>2. holder[WalletLock(seller)] = c
      BY <1>1, <2>1 DEF Credited
    <3>3. holder'[WalletLock(seller)] = c /\ wallets'.total[seller] = wallets.total[seller]
          /\ wallets'.reserved[seller] = wallets.reserved[seller]
      BY <3>1, <3>2, LocksAreRows DEF Spares
    <3> QED BY <1>1, <1>2, <3>3 DEF Credited, WalletLock, CanCredit
  <2> QED BY <1>2, <2>1 DEF Credited
<1> QED BY <1>3, <1>4, <1>5, <1>6, <1>7, <1>8 DEF SessionInv

(* A session without a transaction, or with a new one, relies on nothing.  *)
LEMMA IdleSession ==
  ASSUME NEW s \in Sessions, tx'[s].next = "begin"
  PROVE  SessionInv(s)'
  BY DEF SessionInv, Named, ListingHeld, ItemHeld, BuyerHeld, Debited, Noted, Credited
LEMMA NoWalletsType == NoWallets \in WalletsType
  BY DEF NoWallets, WalletsType

LEMMA NoTxType == NoTx \in TxRow
<1>1. NoListing \in ListingRow /\ NoGood \in GoodRow
  BY DEF NoListing, ListingRow, NoGood, GoodRow
<1> QED BY <1>1, NoWalletsType DEF NoTx, TxRow, Stages

LEMMA WrapInt == \A x \in Int : Wrap(x) \in Int
  BY HalfAssumption DEF Wrap

LEMMA LargestId ==
  ASSUME NEW S, S \subseteq ListingIds, S # {}
  PROVE  \E l \in S : \A k \in S : k <= l
<1> DEFINE From(x) == {k \in S : k >= x}
           B == {From(x) : x \in S}
<1>1. S \subseteq Nat /\ IsFiniteSet(S)
  BY SessionsAssumption, ListingAssumption, FS_Subset
<1>2. PICK T \in B : \A U \in B : U \subseteq T => U = T
  <2>1. B # {} /\ B \subseteq SUBSET S
    OBVIOUS
  <2>2. IsFiniteSet(S)
    BY <1>1
  <2> HIDE DEF B
  <2> QED BY <2>1, <2>2, MinimalSubset
<1>3. PICK l \in S : T = From(l)
  BY <1>2
<1>4. ASSUME NEW k \in S, k > l PROVE FALSE
  <2>1. From(k) \subseteq From(l) /\ From(k) \in B
    <3>1. \A m \in S : m >= k => m >= l
      BY <1>1, <1>4
    <3> QED BY <3>1
  <2>2. l \in From(l) /\ l \notin From(k)
    BY <1>1, <1>4
  <2> QED BY <1>2, <1>3, <2>1, <2>2
<1> QED BY <1>1, <1>4

(* Sessions other than s, in a step that only moves locks.                 *)
LEMMA OthersKeep ==
  ASSUME BuyInv, NEW s \in Sessions, UNCHANGED lvars,
         NEW c \in Sessions, c # s, tx'[c] = tx[c],
         \A r \in Rows : holder[r] = c => holder'[r] = c
  PROVE  SessionInv(c)'
<1>1. now \in Nat
  BY ListingAssumption DEF BuyInv, TradeInv, ListingsTypeOK
<1>2. Spares(c)
  BY <1>1 DEF Spares, lvars
<1> QED BY <1>2, SparedSession

LEMMA Frees ==
  ASSUME NEW s \in Sessions, ReleaseLocks(s)
  PROVE  /\ DOMAIN holder' = Rows
         /\ \A c \in Sessions \ {s}, r \in Rows : holder[r] = c => holder'[r] = c
  BY DEF ReleaseLocks

LEMMA Quits ==
  ASSUME BuyInv, NEW s \in Sessions, RollsBack(s)
  PROVE  UNCHANGED lvars /\ BuyTypeOK' /\ \A c \in Sessions : SessionInv(c)'
<1>1. tx' = [tx EXCEPT ![s] = NoTx] /\ ReleaseLocks(s) /\ UNCHANGED lvars
  BY DEF RollsBack, Ends
<1>2. tx \in [Sessions -> TxRow]
  BY DEF BuyInv, BuyTypeOK
<1>3. BuyTypeOK'
  BY <1>1, <1>2, NoTxType, Frees DEF BuyTypeOK
<1>4. SessionInv(s)'
  <2>1. tx'[s].next = "begin"
    BY <1>1, <1>2 DEF NoTx
  <2> QED BY <2>1, IdleSession
<1>5. ASSUME NEW c \in Sessions, c # s PROVE SessionInv(c)'
  <2>1. tx'[c] = tx[c] /\ \A r \in Rows : holder[r] = c => holder'[r] = c
    BY <1>1, <1>2, <1>5, Frees
  <2> QED BY <1>1, <1>5, <2>1, OthersKeep
<1> QED BY <1>1, <1>3, <1>4, <1>5

LEMMA Advances ==
  ASSUME BuyInv, NEW s \in Sessions, NEW row \in Rows, NEW changed \in TxRow,
         Proceeds(s, row, changed)
  PROVE  /\ UNCHANGED lvars /\ BuyTypeOK'
         /\ tx'[s] = changed /\ holder'[row] = s
         /\ \A r \in Rows : holder[r] = s => holder'[r] = s
         /\ \A c \in Sessions \ {s} : SessionInv(c)'
<1>1. /\ holder[row] \in {s, Null} /\ holder' = [holder EXCEPT ![row] = s]
      /\ tx' = [tx EXCEPT ![s] = changed] /\ UNCHANGED lvars
  BY DEF Proceeds, CanLock, Lock
<1>2. tx \in [Sessions -> TxRow] /\ DOMAIN holder = Rows
  BY DEF BuyInv, BuyTypeOK
<1>3. BuyTypeOK' /\ tx'[s] = changed /\ holder'[row] = s
      /\ \A r \in Rows : holder[r] = s => holder'[r] = s
  BY <1>1, <1>2 DEF BuyTypeOK
<1>4. ASSUME NEW c \in Sessions, c # s PROVE SessionInv(c)'
  <2>1. tx'[c] = tx[c] /\ \A r \in Rows : holder[r] = c => holder'[r] = c
    BY <1>1, <1>2, <1>4, SessionsAssumption
  <2> QED BY <1>1, <1>4, <2>1, OthersKeep
<1> QED BY <1>1, <1>3, <1>4

LEMMA RequestKeeps ==
  ASSUME BuyInv, NEW s \in Sessions, NEW g \in Guilds, NEW i \in Goods, BuyByItem(s, g, i)
  PROVE  UNCHANGED lvars /\ BuyTypeOK' /\ \A c \in Sessions : SessionInv(c)'
<1> DEFINE l == OpenListingByItem(i)
           t == [NoTx EXCEPT !.next = "listing", !.guild = g, !.listing = l]
<1>1. l \in ListingIds
  <2>1. OpenListings(i) # {} /\ OpenListings(i) \subseteq ListingIds
    BY DEF BuyByItem, OpenListings
  <2>2. \E m \in OpenListings(i) : \A k \in OpenListings(i) : k <= m
    BY <2>1, LargestId
  <2>3. l \in OpenListings(i)
    BY <2>2 DEF OpenListingByItem
  <2> QED BY <2>1, <2>3
<1>2. tx' = [tx EXCEPT ![s] = t] /\ UNCHANGED <<lvars, holder, waiting>>
  BY DEF BuyByItem, Starts, locks
<1> HIDE DEF l
<1>3. t \in TxRow
  BY <1>1, NoTxType DEF TxRow, NoTx, Stages
<1>4. tx \in [Sessions -> TxRow]
  BY DEF BuyInv, BuyTypeOK
<1>5. BuyTypeOK'
  BY <1>2, <1>3, <1>4 DEF BuyInv, BuyTypeOK
<1>6. SessionInv(s)'
  <2>1. tx'[s] = t
    BY <1>2, <1>4
  <2>2. t.next = "listing" /\ t.guild = g /\ t.listing = l /\ t.mine = {} /\ t.w = NoWallets
    BY DEF NoTx
  <2>3. Named(s)'
    BY <1>1, <2>1, <2>2 DEF Named, NoWallets
  <2> QED BY <2>1, <2>2, <2>3
        DEF SessionInv, ListingHeld, ItemHeld, BuyerHeld, Debited, Noted, Credited
<1>7. ASSUME NEW c \in Sessions, c # s PROVE SessionInv(c)'
  <2>1. tx'[c] = tx[c] /\ \A r \in Rows : holder[r] = c => holder'[r] = c
    BY <1>2, <1>4, <1>7
  <2> QED BY <1>2, <1>7, <2>1, OthersKeep
<1> QED BY <1>2, <1>5, <1>6, <1>7
LEMMA LockListingKeeps ==
  ASSUME BuyInv, NEW s \in Sessions, LockListing(s)
  PROVE  UNCHANGED lvars /\ BuyTypeOK' /\ \A c \in Sessions : SessionInv(c)'
<1> DEFINE t == tx[s]
           row == listing[t.listing]
           changed == [t EXCEPT !.next = "item", !.item = row.item, !.price = row.price,
                                !.listingRow = row]
<1>1. /\ t.next = "listing" /\ Named(s) /\ t \in TxRow
      /\ t.guild \in Guilds /\ t.listing \in ListingIds /\ t.mine = {} /\ t.w = NoWallets
  BY DEF LockListing, At, BuyInv, BuyTypeOK, SessionInv, Named
<1>2. ListingLock(t.listing) \in Rows /\ row \in ListingRow
  BY <1>1, LocksAreRows DEF BuyInv, TradeInv, ListingsTypeOK
<1>3. CASE RollsBack(s)
  BY <1>3, Quits
<1>4. CASE Proceeds(s, ListingLock(t.listing), changed) /\ row.status = "open" /\ row.seller # t.guild
  <2>1. changed \in TxRow
    BY <1>1, <1>2 DEF TxRow, Stages, ListingRow
  <2>2. /\ UNCHANGED lvars /\ BuyTypeOK' /\ tx'[s] = changed
        /\ holder'[ListingLock(t.listing)] = s
        /\ \A c \in Sessions \ {s} : SessionInv(c)'
    BY <1>2, <1>4, <2>1, Advances
  <2>3. /\ changed.next = "item" /\ changed.guild = t.guild /\ changed.listing = t.listing
        /\ changed.item = row.item /\ changed.price = row.price /\ changed.listingRow = row
        /\ changed.mine = {} /\ changed.w = NoWallets
    BY <1>1 DEF TxRow
  <2> HIDE DEF changed
  <2>4. Named(s)'
    BY <1>1, <2>2, <2>3 DEF Named, NoWallets
  <2>5. ListingHeld(s)'
    BY <1>4, <2>2, <2>3 DEF ListingHeld, ListingLock, lvars
  <2>6. SessionInv(s)'
    BY <2>2, <2>3, <2>4, <2>5 DEF SessionInv, ItemHeld, BuyerHeld, Debited, Noted, Credited
  <2> QED BY <2>2, <2>6
<1> QED BY <1>3, <1>4 DEF LockListing, Checks

LEMMA LockItemKeeps ==
  ASSUME BuyInv, NEW s \in Sessions, LockItem(s)
  PROVE  UNCHANGED lvars /\ BuyTypeOK' /\ \A c \in Sessions : SessionInv(c)'
<1> DEFINE t == tx[s]
           row == good[t.item]
           changed == [t EXCEPT !.next = "buyer", !.itemRow = row]
<1>1. /\ t.next = "item" /\ Named(s) /\ ListingHeld(s) /\ t \in TxRow
      /\ t.guild \in Guilds /\ t.listing \in ListingIds /\ t.mine = {} /\ t.w = NoWallets
  BY DEF LockItem, At, BuyInv, BuyTypeOK, SessionInv, Named
<1>2. /\ holder[ListingLock(t.listing)] = s /\ listing[t.listing] = t.listingRow
      /\ t.listingRow.status = "open" /\ t.listingRow.seller # t.guild
      /\ t.item = t.listingRow.item /\ t.price = t.listingRow.price
      /\ ListingLock(t.listing) \in Rows
  BY <1>1, LocksAreRows DEF ListingHeld
<1>3. t.item \in Goods
  BY <1>1, <1>2 DEF BuyInv, TradeInv, RowsConsistent
<1>4. ItemLock(t.item) \in Rows /\ row \in GoodRow
  BY <1>3, LocksAreRows DEF BuyInv, TradeInv, ListingsTypeOK
<1>5. CASE RollsBack(s)
  BY <1>5, Quits
<1>6. CASE Proceeds(s, ItemLock(t.item), changed) /\ row.stock >= 1
  <2>1. changed \in TxRow
    BY <1>1, <1>4 DEF TxRow, Stages
  <2>2. /\ UNCHANGED lvars /\ BuyTypeOK' /\ tx'[s] = changed
        /\ holder'[ItemLock(t.item)] = s /\ holder'[ListingLock(t.listing)] = s
        /\ \A c \in Sessions \ {s} : SessionInv(c)'
    BY <1>2, <1>4, <1>6, <2>1, Advances
  <2>3. /\ changed.next = "buyer" /\ changed.guild = t.guild /\ changed.listing = t.listing
        /\ changed.item = t.item /\ changed.price = t.price
        /\ changed.listingRow = t.listingRow /\ changed.itemRow = row
        /\ changed.mine = {} /\ changed.w = NoWallets
    BY <1>1 DEF TxRow
  <2> HIDE DEF changed
  <2>4. Named(s)'
    BY <1>1, <2>2, <2>3 DEF Named, NoWallets
  <2>5. ListingHeld(s)'
    BY <1>2, <2>2, <2>3 DEF ListingHeld, ListingLock, lvars
  <2>6. ItemHeld(s)'
    BY <1>6, <2>2, <2>3 DEF ItemHeld, ItemLock, lvars
  <2>7. SessionInv(s)'
    BY <2>2, <2>3, <2>4, <2>5, <2>6 DEF SessionInv, BuyerHeld, Debited, Noted, Credited
  <2> QED BY <2>2, <2>7
<1> QED BY <1>5, <1>6 DEF LockItem, Checks

(* What a session that has locked the listing and the item keeps when it   *)
(* goes on to its next statement.                                          *)
LEMMA HeldOn ==
  ASSUME BuyInv, NEW s \in Sessions, tx[s].next \in {"buyer", "debit", "credit"},
         UNCHANGED lvars,
         tx'[s].next \in {"debit", "credit", "commit"},
         tx'[s].guild = tx[s].guild, tx'[s].listing = tx[s].listing,
         tx'[s].item = tx[s].item, tx'[s].price = tx[s].price,
         tx'[s].listingRow = tx[s].listingRow, tx'[s].itemRow = tx[s].itemRow,
         \A r \in Rows : holder[r] = s => holder'[r] = s
  PROVE  /\ tx[s].guild \in Guilds /\ tx[s].listing \in ListingIds /\ tx[s].item \in Goods
         /\ tx[s].listingRow.seller \in Guilds /\ tx[s].listingRow.seller # tx[s].guild
         /\ ListingHeld(s)' /\ ItemHeld(s)'
<1> DEFINE t == tx[s]
<1>1. /\ Named(s) /\ ListingHeld(s) /\ ItemHeld(s)
      /\ t.guild \in Guilds /\ t.listing \in ListingIds
  BY DEF BuyInv, SessionInv, Named
<1>2. /\ holder[ListingLock(t.listing)] = s /\ listing[t.listing] = t.listingRow
      /\ t.listingRow.status = "open" /\ t.listingRow.seller # t.guild
      /\ t.item = t.listingRow.item /\ t.price = t.listingRow.price
      /\ holder[ItemLock(t.item)] = s
      /\ good[t.item] = t.itemRow /\ t.itemRow.stock >= 1
  BY <1>1 DEF ListingHeld, ItemHeld
<1>3. t.item \in Goods /\ t.listingRow.seller \in Guilds
  BY <1>1, <1>2 DEF BuyInv, TradeInv, RowsConsistent
<1>4. holder'[ListingLock(t.listing)] = s /\ holder'[ItemLock(t.item)] = s
  BY <1>1, <1>2, <1>3, LocksAreRows
<1>5. ListingHeld(s)'
  BY <1>2, <1>4 DEF ListingHeld, ListingLock, lvars
<1>6. ItemHeld(s)'
  BY <1>2, <1>4 DEF ItemHeld, ItemLock, lvars
<1> QED BY <1>1, <1>2, <1>3, <1>5, <1>6

LEMMA LockBuyerKeeps ==
  ASSUME BuyInv, NEW s \in Sessions, LockBuyer(s)
  PROVE  UNCHANGED lvars /\ BuyTypeOK' /\ \A c \in Sessions : SessionInv(c)'
<1> DEFINE t == tx[s]
           g == t.guild
           changed == [t EXCEPT !.next = "debit", !.at = now]
<1>1. /\ t.next = "buyer" /\ Named(s) /\ t \in TxRow
      /\ g \in Guilds /\ t.listing \in ListingIds /\ t.mine = {} /\ t.w = NoWallets
      /\ WalletLock(g) \in Rows
  BY LocksAreRows DEF LockBuyer, At, BuyInv, BuyTypeOK, SessionInv, Named
<1>2. now \in Nat
  BY ListingAssumption DEF BuyInv, TradeInv, ListingsTypeOK
<1>3. CASE RollsBack(s)
  BY <1>3, Quits
<1>4. CASE Proceeds(s, WalletLock(g), changed)
           /\ EnsureWithinDailyCap(Cap[g], spent[g][Day[now]], t.price)
  <2>1. changed \in TxRow
    BY <1>1, <1>2 DEF TxRow, Stages
  <2>2. /\ UNCHANGED lvars /\ BuyTypeOK' /\ tx'[s] = changed
        /\ holder'[WalletLock(g)] = s
        /\ \A r \in Rows : holder[r] = s => holder'[r] = s
        /\ \A c \in Sessions \ {s} : SessionInv(c)'
    BY <1>1, <1>4, <2>1, Advances
  <2>3. /\ changed.next = "debit" /\ changed.guild = t.guild /\ changed.listing = t.listing
        /\ changed.item = t.item /\ changed.price = t.price
        /\ changed.listingRow = t.listingRow /\ changed.itemRow = t.itemRow
        /\ changed.mine = {} /\ changed.w = NoWallets /\ changed.at = now
    BY <1>1 DEF TxRow
  <2> HIDE DEF changed
  <2>4. Named(s)'
    BY <1>1, <2>2, <2>3 DEF Named, NoWallets
  <2>5. ListingHeld(s)' /\ ItemHeld(s)'
    BY <1>1, <2>2, <2>3, HeldOn
  <2>6. ReadAfterLastPurchase(g, now)
    BY <1>1, <1>2, ListingAssumption, HalfAssumption
       DEF ReadAfterLastPurchase, BuyInv, TradeInv, RowsConsistent
  <2>7. BuyerHeld(s)'
    BY <1>2, <1>4, <2>2, <2>3, <2>6 DEF BuyerHeld, WalletLock, ReadAfterLastPurchase, lvars
  <2>8. SessionInv(s)'
    BY <2>2, <2>3, <2>4, <2>5, <2>7 DEF SessionInv, Debited, Noted, Credited
  <2> QED BY <2>2, <2>8
<1> QED BY <1>3, <1>4 DEF LockBuyer, Checks
(* A version of the wallets with one row read from the table.              *)
LEMMA ReadsRow ==
  ASSUME NEW w \in WalletsType, NEW g \in Guilds, wallets \in WalletsType
  PROVE  LET r == [w EXCEPT !.total[g] = wallets.total[g], !.reserved[g] = wallets.reserved[g]]
         IN  /\ r.total \in [Guilds -> Int] /\ r.reserved \in [Guilds -> Int]
             /\ r.ledger = w.ledger
             /\ r.total[g] = wallets.total[g] /\ r.reserved[g] = wallets.reserved[g]
             /\ \A h \in Guilds \ {g} : r.total[h] = w.total[h] /\ r.reserved[h] = w.reserved[h]
<1> DEFINE a == [w EXCEPT !.total = [w.total EXCEPT ![g] = wallets.total[g]]]
           b == [a EXCEPT !.reserved = [a.reserved EXCEPT ![g] = wallets.reserved[g]]]
           r == [w EXCEPT !.total[g] = wallets.total[g], !.reserved[g] = wallets.reserved[g]]
<1>1. r = b
  BY DEF WalletsType
<1>2. /\ w.total \in [Guilds -> Int] /\ w.reserved \in [Guilds -> Int]
      /\ wallets.total[g] \in Int /\ wallets.reserved[g] \in Int
  BY DEF WalletsType
<1>3. /\ b.total = [w.total EXCEPT ![g] = wallets.total[g]]
      /\ b.reserved = [w.reserved EXCEPT ![g] = wallets.reserved[g]]
      /\ b.ledger = w.ledger
  BY DEF WalletsType
<1> HIDE DEF r, b
<1>4. /\ r.total \in [Guilds -> Int] /\ r.reserved \in [Guilds -> Int] /\ r.ledger = w.ledger
      /\ r.total[g] = wallets.total[g] /\ r.reserved[g] = wallets.reserved[g]
      /\ \A h \in Guilds \ {g} : r.total[h] = w.total[h] /\ r.reserved[h] = w.reserved[h]
  BY <1>1, <1>2, <1>3
<1> QED BY <1>4 DEF r

LEMMA DebitBuyerKeeps ==
  ASSUME BuyInv, NEW s \in Sessions, DebitBuyer(s)
  PROVE  UNCHANGED lvars /\ BuyTypeOK' /\ \A c \in Sessions : SessionInv(c)'
<1> DEFINE t == tx[s]
           g == t.guild
           p == t.price
           read == Seen(t, g)
           paid == Debit(read, g, p, "debit_listing")
           changed == [t EXCEPT !.next = "credit", !.mine = @ \cup {g}, !.w = paid]
<1>1. /\ t.next = "debit" /\ Named(s) /\ BuyerHeld(s) /\ t \in TxRow
      /\ g \in Guilds /\ t.listing \in ListingIds /\ t.mine = {} /\ t.w = NoWallets
      /\ WalletLock(g) \in Rows /\ t.w \in WalletsType /\ p \in Int
      /\ wallets \in WalletsType
  BY LocksAreRows DEF DebitBuyer, At, BuyInv, BuyTypeOK, SessionInv, Named, TxRow, TradeInv,
                      ListingsTypeOK
<1>2. CASE RollsBack(s)
  BY <1>2, Quits
<1>3. CASE Proceeds(s, WalletLock(g), changed) /\ CanDebit(read, g, p)
  <2>1. read = [t.w EXCEPT !.total[g] = wallets.total[g], !.reserved[g] = wallets.reserved[g]]
    BY <1>1 DEF Seen
  <2> HIDE DEF read
  <2>2. /\ read.total \in [Guilds -> Int] /\ read.reserved \in [Guilds -> Int]
        /\ read.ledger = NoWallets.ledger
        /\ read.total[g] = wallets.total[g] /\ read.reserved[g] = wallets.reserved[g]
    BY <1>1, <2>1, ReadsRow
  <2>3. CanDebit(wallets, g, p) /\ p \in Nat
    BY <1>1, <1>3, <2>2 DEF CanDebit, EnsureSufficientAvailable, EnsurePositive
  <2>4. /\ paid.total = [read.total EXCEPT ![g] = Wrap(read.total[g] - p)]
        /\ paid.reserved = read.reserved
        /\ paid.ledger = Recorded(NoWallets, g, "debit_listing", p)
        /\ paid = [total |-> paid.total, reserved |-> paid.reserved, ledger |-> paid.ledger]
    BY <2>2 DEF Debit, Recorded
  <2> HIDE DEF paid
  <2>5. paid \in WalletsType
    <3>1. paid.total \in [Guilds -> Int] /\ paid.reserved \in [Guilds -> Int]
      BY <1>1, <2>2, <2>4, WrapInt
    <3>2. paid.ledger \in [Guilds -> [LedgerKinds -> Nat]]
      <4>1. "debit_listing" \in LedgerKinds
        BY DEF LedgerKinds
      <4>2. Recorded(NoWallets, g, "debit_listing", p) \in [Guilds -> [LedgerKinds -> Nat]]
        BY <1>1, NoWalletsType, <2>3, <4>1, RecordedType
      <4> QED BY <2>4, <4>2
    <3> QED BY <2>4, <3>1, <3>2 DEF WalletsType
  <2>6. changed \in TxRow
    BY <1>1, <2>5 DEF TxRow, Stages
  <2>7. /\ UNCHANGED lvars /\ BuyTypeOK' /\ tx'[s] = changed
        /\ \A r \in Rows : holder[r] = s => holder'[r] = s
        /\ \A c \in Sessions \ {s} : SessionInv(c)'
    BY <1>1, <1>3, <2>6, Advances
  <2>8. /\ changed.next = "credit" /\ changed.guild = t.guild /\ changed.listing = t.listing
        /\ changed.item = t.item /\ changed.price = t.price
        /\ changed.listingRow = t.listingRow /\ changed.itemRow = t.itemRow
        /\ changed.mine = {g} /\ changed.w = paid /\ changed.at = t.at
    BY <1>1 DEF TxRow
  <2> HIDE DEF changed
  <2>9. Named(s)'
    BY <1>1, <2>7, <2>8 DEF Named
  <2>10. ListingHeld(s)' /\ ItemHeld(s)'
    BY <1>1, <2>7, <2>8, HeldOn
  <2>11. BuyerHeld(s)'
    BY <1>1, <2>7, <2>8 DEF BuyerHeld, WalletLock, ReadAfterLastPurchase, lvars
  <2>12. Debited(s)'
    BY <1>1, <2>2, <2>3, <2>4, <2>7, <2>8 DEF Debited, CanDebit, lvars
  <2>13. Noted(s)'
    BY <2>4, <2>7, <2>8 DEF Noted, Recorded, NoWallets
  <2>14. SessionInv(s)'
    BY <2>7, <2>8, <2>9, <2>10, <2>11, <2>12, <2>13 DEF SessionInv, Credited
  <2> QED BY <2>7, <2>14
<1> QED BY <1>2, <1>3 DEF DebitBuyer, Checks

LEMMA CreditSellerKeeps ==
  ASSUME BuyInv, NEW s \in Sessions, CreditSeller(s)
  PROVE  UNCHANGED lvars /\ BuyTypeOK' /\ \A c \in Sessions : SessionInv(c)'
<1> DEFINE t == tx[s]
           g == t.guild
           p == t.price
           seller == t.listingRow.seller
           read == Seen(t, seller)
           paid == Credit(read, seller, p, "credit_listing")
           changed == [t EXCEPT !.next = "commit", !.mine = @ \cup {seller}, !.w = paid]
<1>1. /\ t.next = "credit" /\ Named(s) /\ ListingHeld(s) /\ BuyerHeld(s) /\ Debited(s) /\ Noted(s)
      /\ t \in TxRow /\ g \in Guilds /\ t.listing \in ListingIds
      /\ t.mine = {g} /\ t.w.ledger = Recorded(NoWallets, g, "debit_listing", p)
      /\ t.w \in WalletsType /\ p \in Int /\ wallets \in WalletsType
  BY DEF CreditSeller, At, BuyInv, BuyTypeOK, SessionInv, Named, Noted, TxRow, TradeInv,
         ListingsTypeOK
<1>2. seller \in Guilds /\ seller # g /\ WalletLock(seller) \in Rows
  <2>1. listing[t.listing] = t.listingRow /\ t.listingRow.status = "open" /\ seller # g
    BY <1>1 DEF ListingHeld
  <2>2. seller \in Guilds
    BY <1>1, <2>1 DEF BuyInv, TradeInv, RowsConsistent
  <2> QED BY <2>1, <2>2, LocksAreRows
<1>3. CASE RollsBack(s)
  BY <1>3, Quits
<1>4. CASE Proceeds(s, WalletLock(seller), changed) /\ CanCredit(p)
  <2>1. read = [t.w EXCEPT !.total[seller] = wallets.total[seller],
                           !.reserved[seller] = wallets.reserved[seller]]
    BY <1>1, <1>2 DEF Seen
  <2> HIDE DEF read
  <2>2. /\ read.total \in [Guilds -> Int] /\ read.reserved \in [Guilds -> Int]
        /\ read.ledger = t.w.ledger
        /\ read.total[seller] = wallets.total[seller]
        /\ read.reserved[seller] = wallets.reserved[seller]
        /\ read.total[g] = t.w.total[g] /\ read.reserved[g] = t.w.reserved[g]
    BY <1>1, <1>2, <2>1, ReadsRow
  <2>3. p \in Nat
    BY <1>1, <1>4 DEF CanCredit, EnsurePositive
  <2>4. /\ paid.total = [read.total EXCEPT ![seller] = Wrap(read.total[seller] + p)]
        /\ paid.reserved = read.reserved
        /\ paid.ledger = Recorded(t.w, seller, "credit_listing", p)
        /\ paid = [total |-> paid.total, reserved |-> paid.reserved, ledger |-> paid.ledger]
    BY <2>2 DEF Credit, Recorded
  <2> HIDE DEF paid
  <2>5. paid \in WalletsType
    <3>1. paid.total \in [Guilds -> Int] /\ paid.reserved \in [Guilds -> Int]
      BY <1>1, <1>2, <2>2, <2>4, WrapInt
    <3>2. paid.ledger \in [Guilds -> [LedgerKinds -> Nat]]
      <4>1. "credit_listing" \in LedgerKinds
        BY DEF LedgerKinds
      <4>2. Recorded(t.w, seller, "credit_listing", p) \in [Guilds -> [LedgerKinds -> Nat]]
        BY <1>1, <1>2, <2>3, <4>1, RecordedType
      <4> QED BY <2>4, <4>2
    <3> QED BY <2>4, <3>1, <3>2 DEF WalletsType
  <2>6. changed \in TxRow
    BY <1>1, <1>2, <2>5 DEF TxRow, Stages
  <2>7. /\ UNCHANGED lvars /\ BuyTypeOK' /\ tx'[s] = changed
        /\ holder'[WalletLock(seller)] = s
        /\ \A r \in Rows : holder[r] = s => holder'[r] = s
        /\ \A c \in Sessions \ {s} : SessionInv(c)'
    BY <1>2, <1>4, <2>6, Advances
  <2>8. /\ changed.next = "commit" /\ changed.guild = t.guild /\ changed.listing = t.listing
        /\ changed.item = t.item /\ changed.price = t.price
        /\ changed.listingRow = t.listingRow /\ changed.itemRow = t.itemRow
        /\ changed.mine = {g, seller} /\ changed.w = paid /\ changed.at = t.at
    BY <1>1 DEF TxRow
  <2> HIDE DEF changed
  <2>9. Named(s)'
    BY <1>1, <2>7, <2>8 DEF Named
  <2>10. ListingHeld(s)' /\ ItemHeld(s)'
    BY <1>1, <2>7, <2>8, HeldOn
  <2>11. BuyerHeld(s)'
    <3>1. WalletLock(g) \in Rows /\ holder[WalletLock(g)] = s
      BY <1>1, LocksAreRows DEF BuyerHeld
    <3> QED BY <1>1, <2>7, <2>8, <3>1 DEF BuyerHeld, WalletLock, ReadAfterLastPurchase, lvars
  <2>12. Debited(s)'
    <3>1. paid.total[g] = t.w.total[g] /\ paid.reserved[g] = t.w.reserved[g]
      BY <1>1, <1>2, <2>2, <2>4
    <3> QED BY <1>1, <2>7, <2>8, <3>1 DEF Debited, CanDebit, lvars
  <2>13. Noted(s)'
    <3>1. "debit_listing" \in LedgerKinds /\ "credit_listing" \in LedgerKinds
      BY DEF LedgerKinds
    <3>2. \A h \in Guilds, k \in LedgerKinds :
            t.w.ledger[h][k] = IF h = g /\ k = "debit_listing" THEN p ELSE 0
      BY <1>1, <2>3, <3>1 DEF Recorded, NoWallets
    <3>3. \A h \in Guilds, k \in LedgerKinds :
            paid.ledger[h][k] = IF h = seller /\ k = "credit_listing"
                                THEN t.w.ledger[h][k] + p ELSE t.w.ledger[h][k]
      BY <1>1, <1>2, <2>4, <3>1 DEF Recorded, WalletsType
    <3>4. \A h \in Guilds, k \in LedgerKinds :
            paid.ledger[h][k] = (IF h = g /\ k = "debit_listing" THEN p ELSE 0)
                                + (IF h = seller /\ k = "credit_listing" THEN p ELSE 0)
      BY <1>2, <2>3, <3>2, <3>3
    <3> QED BY <2>7, <2>8, <3>4 DEF Noted
  <2>14. Credited(s)'
    BY <1>4, <1>2, <2>2, <2>4, <2>7, <2>8 DEF Credited, WalletLock, CanCredit, lvars
  <2>15. SessionInv(s)'
    BY <2>9, <2>10, <2>11, <2>12, <2>13, <2>14 DEF SessionInv
  <2> QED BY <2>7, <2>15
<1> QED BY <1>3, <1>4 DEF CreditSeller, Checks
(* A commit writes the rows it has locked and a new one: nobody else's.    *)
LEMMA CommitSpares ==
  ASSUME BuyInv, NEW s \in Sessions, CommitPurchase(s), NEW c \in Sessions, c # s
  PROVE  Spares(c)
<1> DEFINE t == tx[s]
           b == t.guild
           seller == t.listingRow.seller
           l == t.listing
<1>1. At(s, "commit") /\ UNCHANGED now /\ tx' = [tx EXCEPT ![s] = NoTx] /\ ReleaseLocks(s)
  BY DEF CommitPurchase, Ends
<1>2. /\ Ready(s) /\ Named(s) /\ ListingHeld(s) /\ ItemHeld(s) /\ BuyerHeld(s) /\ Credited(s)
      /\ Noted(s)
  BY <1>1, CommitReady DEF BuyInv, SessionInv
<1>3. /\ holder[ListingLock(l)] = s /\ holder[ItemLock(t.item)] = s
      /\ holder[WalletLock(b)] = s /\ holder[WalletLock(seller)] = s
      /\ t.mine = {b, seller}
      /\ b \in Guilds /\ seller \in Guilds /\ l \in ListingIds /\ t.item \in Goods
      /\ t.listingRow = listing[l]
  BY <1>1, <1>2 DEF At, Ready, ListingHeld, ItemHeld, BuyerHeld, Credited, Noted
<1>4. /\ now \in Nat /\ tx \in [Sessions -> TxRow] /\ listing \in [ListingIds -> ListingRow]
      /\ good \in [Goods -> GoodRow] /\ spent \in [Guilds -> [Days -> Int]]
      /\ wallets \in WalletsType
  BY ListingAssumption DEF BuyInv, BuyTypeOK, TradeInv, ListingsTypeOK
<1>5. tx'[c] = tx[c] /\ \A r \in Rows : holder[r] = c => holder'[r] = c
  BY <1>1, <1>4, Frees
<1>6. CASE UNCHANGED <<wallets, good, spent, listing>>
  BY <1>1, <1>4, <1>5, <1>6 DEF Spares
<1>7. CASE ~ UNCHANGED <<wallets, good, spent, listing>>
  <2>1. PICK u \in t.at .. now, sold \in t.at .. now :
          /\ CanInsert
          /\ wallets' = Written(t)
          /\ good' = [good EXCEPT
               ![t.item] = [t.itemRow EXCEPT !.stock = @ - 1,
                              !.status = IF t.itemRow.stock = 1 THEN "sold" ELSE @],
               ![NextId] = NewGood(t.itemRow.product, t.itemRow.tier, b, 1)]
          /\ spent' = AddDailySpent(b, Day[u], t.price)
          /\ listing' = [listing EXCEPT ![l] =
               [t.listingRow EXCEPT !.status = "sold", !.buyer = b, !.soldAt = sold]]
    BY <1>7 DEF CommitPurchase
  <2>2. \A k \in ListingIds : k # l => listing'[k] = listing[k]
    BY <1>4, <2>1
  <2>3. listing'[l].buyer = b
    <3>1. listing'[l] = [t.listingRow EXCEPT !.status = "sold", !.buyer = b, !.soldAt = sold]
      BY <1>3, <1>4, <2>1
    <3>2. t.listingRow \in ListingRow
      BY <1>3, <1>4
    <3> QED BY <3>1, <3>2 DEF ListingRow
  <2>4. \A i \in Goods : i # t.item /\ i # NextId => good'[i] = good[i]
    BY <1>4, <2>1
  <2>5. \A i \in Goods : good[i].stock >= 1 => i # NextId
    BY <2>1 DEF CanInsert, BuyInv, TradeInv, RowsConsistent, NoGood
  <2>6. \A g \in Guilds : g # b => spent'[g] = spent[g]
    BY <1>4, <2>1 DEF AddDailySpent
  <2>7. \A g \in Guilds : g \notin {b, seller} =>
          wallets'.total[g] = wallets.total[g] /\ wallets'.reserved[g] = wallets.reserved[g]
    BY <1>3, <2>1 DEF Written
  <2>8. \A k \in ListingIds : holder[ListingLock(k)] = c => listing'[k] = listing[k]
    BY <1>3, <2>2
  <2>9. \A i \in Goods : holder[ItemLock(i)] = c /\ good[i].stock >= 1 => good'[i] = good[i]
    BY <1>3, <2>4, <2>5
  <2>10. ASSUME NEW g \in Guilds, holder[WalletLock(g)] = c
         PROVE  /\ wallets'.total[g] = wallets.total[g]
                /\ wallets'.reserved[g] = wallets.reserved[g]
                /\ spent'[g] = spent[g]
                /\ \A k \in ListingIds : listing'[k].buyer = g =>
                     listing[k].buyer = g /\ listing'[k].soldAt = listing[k].soldAt
    <3>1. g # b /\ g # seller
      BY <1>3, <2>10
    <3> QED BY <2>2, <2>3, <2>6, <2>7, <3>1
  <2> QED BY <1>1, <1>4, <1>5, <2>8, <2>9, <2>10 DEF Spares
<1> QED BY <1>6, <1>7

LEMMA CommitKeeps ==
  ASSUME BuyInv, NEW s \in Sessions, CommitPurchase(s)
  PROVE  BuyTypeOK' /\ \A c \in Sessions : SessionInv(c)'
<1>1. tx' = [tx EXCEPT ![s] = NoTx] /\ ReleaseLocks(s) /\ tx \in [Sessions -> TxRow]
  BY DEF CommitPurchase, Ends, BuyInv, BuyTypeOK
<1>2. BuyTypeOK'
  BY <1>1, NoTxType, Frees DEF BuyTypeOK
<1>3. SessionInv(s)'
  <2>1. tx'[s].next = "begin"
    BY <1>1 DEF NoTx
  <2> QED BY <2>1, IdleSession
<1>4. ASSUME NEW c \in Sessions, c # s PROVE SessionInv(c)'
  BY <1>4, CommitSpares, SparedSession
<1> QED BY <1>2, <1>3, <1>4

LEMMA WaitsKeeps ==
  ASSUME BuyInv, NEW s \in Sessions, Waits(s)
  PROVE  UNCHANGED lvars /\ BuyTypeOK' /\ \A c \in Sessions : SessionInv(c)'
<1>1. UNCHANGED <<lvars, tx, holder>>
  BY DEF Waits, WaitFor
<1>2. now \in Nat
  BY ListingAssumption DEF BuyInv, TradeInv, ListingsTypeOK
<1>3. BuyTypeOK'
  BY <1>1 DEF BuyInv, BuyTypeOK
<1>4. \A c \in Sessions : Spares(c)
  BY <1>1, <1>2 DEF Spares, lvars
<1> QED BY <1>1, <1>3, <1>4, SparedSession

(* Steps of no session: they add rows, or the time passes.                 *)
LEMMA OutsideSpares ==
  ASSUME BuyInv, UNCHANGED <<locks, tx>>, NEW c \in Sessions,
         \/ \E g \in Guilds, i \in Goods, p \in Prices, l \in ListingIds : CreateListing(g, i, p, l)
         \/ Seed
         \/ \E g \in Guilds, p \in Products, tier \in NewTiers, n \in Stocks : CreateItem(g, p, tier, n)
         \/ ClockTick
  PROVE  Spares(c)
<1>1. /\ now \in Nat /\ listing \in [ListingIds -> ListingRow] /\ good \in [Goods -> GoodRow]
  BY ListingAssumption DEF BuyInv, TradeInv, ListingsTypeOK
<1>2. UNCHANGED <<holder, tx>>
  BY DEF locks
<1>3. \A i \in Goods : good[i].stock >= 1 => good[i].status # "absent"
  BY DEF BuyInv, TradeInv, RowsConsistent, NoGood
<1>4. ASSUME NEW g \in Guilds, NEW i \in Goods, NEW p \in Prices, NEW l \in ListingIds,
             CreateListing(g, i, p, l)
      PROVE  Spares(c)
  <2>1. /\ listing[l].status = "absent" /\ UNCHANGED <<now, wallets, good, spent>>
        /\ listing' = [listing EXCEPT ![l] =
             [item |-> i, seller |-> g, price |-> p, status |-> "open", buyer |-> Null, soldAt |-> 0]]
    BY <1>4 DEF CreateListing
  <2>2. \A k \in ListingIds : k # l => listing'[k] = listing[k]
    BY <1>1, <2>1
  <2>3. \A h \in Guilds : listing'[l].buyer # h
    BY <1>1, <2>1, ListingAssumption
  <2> QED BY <1>1, <1>2, <2>1, <2>2, <2>3 DEF Spares
<1>5. CASE Seed
  <2>1. UNCHANGED <<now, wallets, listing, spent>>
        /\ \A i \in Goods : good[i].status # "absent" => good'[i] = good[i]
    BY <1>5 DEF Seed
  <2> QED BY <1>1, <1>2, <1>3, <2>1 DEF Spares
<1>6. ASSUME NEW g \in Guilds, NEW p \in Products, NEW tier \in NewTiers, NEW n \in Stocks,
             CreateItem(g, p, tier, n)
      PROVE  Spares(c)
  <2>1. UNCHANGED <<now, wallets, listing, spent>>
        /\ \A i \in Goods : good[i].status # "absent" => good'[i] = good[i]
    BY <1>1, <1>6 DEF CreateItem, CanInsert
  <2> QED BY <1>1, <1>2, <1>3, <2>1 DEF Spares
<1>7. CASE ClockTick
  BY <1>1, <1>2, <1>7 DEF ClockTick, Spares
<1> QED BY <1>4, <1>5, <1>6, <1>7

LEMMA BuyStep ==
  ASSUME BuyInv, [BuyNext]_buyvars
  PROVE  BuyInv' /\ [ListingsNext]_lvars
<1> DEFINE Kept == BuyTypeOK' /\ \A c \in Sessions : SessionInv(c)'
<1> SUFFICES Kept /\ [ListingsNext]_lvars
  BY TradeStep DEF BuyInv
<1>1. ASSUME NEW s \in Sessions, NEW g \in Guilds, NEW i \in Goods, BuyByItem(s, g, i)
      PROVE  Kept /\ UNCHANGED lvars
  BY <1>1, RequestKeeps
<1>2. ASSUME NEW s \in Sessions,
             LockListing(s) \/ LockItem(s) \/ LockBuyer(s) \/ DebitBuyer(s) \/ CreditSeller(s)
      PROVE  Kept /\ UNCHANGED lvars
  BY <1>2, LockListingKeeps, LockItemKeeps, LockBuyerKeeps, DebitBuyerKeeps, CreditSellerKeeps
<1>3. ASSUME NEW s \in Sessions, CommitPurchase(s)
      PROVE  Kept /\ ListingsNext
  <2>1. Kept
    BY <1>3, CommitKeeps
  <2>2. Ready(s)
    BY <1>3, CommitReady DEF CommitPurchase
  <2>3. tx[s].guild \in Guilds /\ tx[s].listing \in ListingIds /\ tx[s].at \in 0 .. now
    BY <2>2 DEF Ready
  <2>4. PICK u \in 0 .. now, sold \in 0 .. now :
          Buy(tx[s].guild, tx[s].listing, tx[s].at, u, sold)
    BY <1>3, CommitIsBuy
  <2>5. Trade
    BY <2>3, <2>4 DEF Trade
  <2> QED BY <2>1, <2>5 DEF ListingsNext
<1>4. ASSUME NEW s \in Sessions, Waits(s) \/ DeadlockVictim(s) \/ Fails(s)
      PROVE  Kept /\ UNCHANGED lvars
  BY <1>4, WaitsKeeps, Quits DEF DeadlockVictim, Fails
<1>5. ASSUME (\E g \in Guilds, i \in Goods, p \in Prices : Lists(g, i, p)) \/ Registers \/ Clock
      PROVE  Kept /\ ListingsNext
  <2>1. UNCHANGED <<locks, tx>> /\
        (\/ \E g \in Guilds, i \in Goods, p \in Prices, l \in ListingIds : CreateListing(g, i, p, l)
         \/ Seed
         \/ \E g \in Guilds, p \in Products, tier \in NewTiers, n \in Stocks : CreateItem(g, p, tier, n)
         \/ ClockTick)
    BY <1>5 DEF Lists, Registers, Clock
  <2>2. \A c \in Sessions : SessionInv(c)'
    BY <2>1, OutsideSpares, SparedSession
  <2>3. BuyTypeOK'
    BY <2>1 DEF BuyInv, BuyTypeOK, locks
  <2>4. ListingsNext
    BY <2>1 DEF ListingsNext, Trade
  <2> QED BY <2>2, <2>3, <2>4
<1>6. CASE UNCHANGED buyvars
  <2>1. UNCHANGED lvars /\ UNCHANGED <<holder, tx>>
    BY <1>6 DEF buyvars, locks
  <2>2. now \in Nat
    BY ListingAssumption DEF BuyInv, TradeInv, ListingsTypeOK
  <2>3. \A c \in Sessions : Spares(c)
    BY <2>1, <2>2 DEF Spares, lvars
  <2>4. BuyTypeOK'
    BY <2>1 DEF BuyInv, BuyTypeOK
  <2> QED BY <2>1, <2>3, <2>4, SparedSession
<1>7. CASE BuyNext
  BY <1>1, <1>2, <1>3, <1>4, <1>5, <1>7 DEF BuyNext, Request, Statement
<1> QED BY <1>6, <1>7

LEMMA BuyInitial == BuyInit => BuyInv /\ ListingsInit
<1> SUFFICES ASSUME BuyInit PROVE BuyInv /\ ListingsInit
  OBVIOUS
<1>1. ListingsInit /\ TradeInv /\ tx = [s \in Sessions |-> NoTx] /\ DOMAIN holder = Rows
  BY TradeInit DEF BuyInit, LocksInit
<1>2. BuyTypeOK
  BY <1>1, NoTxType DEF BuyTypeOK
<1>3. \A s \in Sessions : SessionInv(s)
  BY <1>1 DEF SessionInv, Named, ListingHeld, ItemHeld, BuyerHeld, Debited, Noted, Credited, NoTx
<1> QED BY <1>1, <1>2, <1>3 DEF BuyInv

(* However many sessions buy at once, every committed state is one that    *)
(* Listings reaches in whole purchases: the locks of                       *)
(* internal/service/listing.go make its purchases serial.                  *)
THEOREM PurchasesAreSerial == BuySpec => ImplementsListings
<1>1. BuyInit => BuyInv /\ ListingsInit
  BY BuyInitial
<1>2. BuyInv /\ [BuyNext]_buyvars => BuyInv' /\ [ListingsNext]_lvars
  BY BuyStep
<1> QED BY <1>1, <1>2, PTL DEF BuySpec, ImplementsListings, ListingsSpec
=============================================================================
