------------------------ MODULE AuctionHouseTheorems ------------------------
(***************************************************************************)
(* Theorems about AuctionHouse, for every set of guilds, items, auctions   *)
(* and bids, every balance, amount, window and extension.                  *)
(***************************************************************************)
EXTENDS AuctionHouse, WalletTheorems, TLAPS

Money == SumFunctionOnSet(InitTotal, Guilds)

(* The inductive core: what the accounting rests on. *)
CoreInv ==
  /\ TypeOK
  /\ RowsConsistent
  /\ ReservedBacked
  /\ WalletSound
  /\ MoneyConserved

(* The money in the market is a natural number an int64 holds, 5% added. *)
LEMMA MoneyNat == Money \in Nat /\ 105 * Money + 99 < Half /\ Money < Half
<1>1. Money \in Nat
  BY SumNat, GuildsAssumption, AuctionAssumption DEF Money
<1> QED BY <1>1, MoneyFits, HalfAssumption DEF Money

(* No balance exceeds the money in the market, so wallets never overflow. *)
LEMMA WalletBound ==
  ASSUME TypeOK, WalletSound, MoneyConserved
  PROVE  \A g \in Guilds : /\ wallets.total[g] \in Nat /\ wallets.reserved[g] \in Nat
                           /\ wallets.total[g] <= Money
                           /\ RowSound(wallets, g)
<1> TAKE g \in Guilds
<1>1. \A h \in Guilds : wallets.total[h] \in Nat /\ wallets.reserved[h] \in Nat
  BY DEF TypeOK, WalletsType, WalletSound
<1>2. wallets.total[g] <= SumFunctionOnSet(wallets.total, Guilds)
  BY <1>1, AuctionAssumption, SumBoundsSummand
<1>3. wallets.total[g] <= Money
  BY <1>2 DEF MoneyConserved, Money
<1> QED BY <1>1, <1>3, MoneyNat, HalfAssumption DEF RowSound, WalletSound

(* No two wallets together hold more than the money in the market. *)
LEMMA TwoBalances ==
  ASSUME CoreInv, NEW g \in Guilds, NEW h \in Guilds, g # h
  PROVE  wallets.total[g] + wallets.total[h] <= Money
<1> DEFINE f == wallets.total
<1>1. IsFiniteSet(Guilds) /\ \A x \in Guilds : f[x] \in Nat
  BY WalletBound, AuctionAssumption DEF CoreInv
<1> HIDE DEF f
<1>2. f[g] + f[h] <= SumFunctionOnSet(f, Guilds)
  BY <1>1, SumBoundsTwo
<1> QED BY <1>2 DEF CoreInv, MoneyConserved, Money, f

(* What a bid holds of a guild is a natural number. *)
LEMMA HeldNat ==
  ASSUME TypeOK, RowsConsistent, NEW g \in Guilds
  PROVE  \A b \in Bids : HeldBy(g)[b] \in Nat
  BY DEF TypeOK, RowsConsistent, HeldBy, BidRow

(* Every active bid is covered by its bidder's reservation. *)
LEMMA ActiveCovered ==
  ASSUME TypeOK, RowsConsistent, ReservedBacked,
         NEW b \in Bids, bid[b].status = "active"
  PROVE  /\ bid[b].bidder \in Guilds /\ bid[b].amount > 0 /\ bid[b].amount \in Int
         /\ bid[b].amount <= wallets.reserved[bid[b].bidder]
<1> DEFINE g == bid[b].bidder
<1>1. g \in Guilds /\ bid[b].amount > 0 /\ bid[b].amount \in Int
  BY DEF RowsConsistent, TypeOK, BidRow
<1>2. HeldBy(g)[b] <= SumFunctionOnSet(HeldBy(g), Bids)
  BY <1>1, AuctionAssumption, HeldNat, SumBoundsSummand
<1>3. HeldBy(g)[b] = bid[b].amount
  BY DEF HeldBy
<1> QED BY <1>1, <1>2, <1>3 DEF ReservedBacked

(* The leader of an open auction is one of its active bids. *)
LEMMA LeaderActive ==
  ASSUME TypeOK, RowsConsistent, NEW a \in Auctions,
         auction[a].status = "active", auction[a].highest # Null
  PROVE  /\ auction[a].highest \in Bids
         /\ bid[auction[a].highest].status = "active"
         /\ bid[auction[a].highest].auction = a
         /\ bid[auction[a].highest].bidder # auction[a].seller
  BY DEF TypeOK, RowsConsistent, AuctionRow

(* In a state that satisfies the core invariant no settlement and no *)
(* release of an outbid leader can fail for want of reserved money.  *)
THEOREM LeaderAlwaysFunded ==
  ASSUME CoreInv
  PROVE  LeaderFunded
<1> SUFFICES ASSUME NEW a \in Auctions, auction[a].status = "active", auction[a].highest # Null
             PROVE  CanSettleReserved(wallets, bid[auction[a].highest].bidder,
                                      bid[auction[a].highest].amount)
  BY DEF LeaderFunded
<1>1. auction[a].highest \in Bids /\ bid[auction[a].highest].status = "active"
  BY LeaderActive DEF CoreInv
<1> QED
  BY <1>1, ActiveCovered DEF CoreInv, CanSettleReserved, EnsureCanRelease, EnsurePositive

-----------------------------------------------------------------------------
(* PlaceBid.  What the action does, with exact arithmetic. *)
PlaceBidMoney(a, g, x, b, t) ==
  /\ x \in Int /\ x > 0 /\ t \in Nat
  /\ wallets' \in WalletsType
  /\ wallets'.total = wallets.total
  /\ auction[a].highest = Null =>
       /\ wallets'.reserved = [wallets.reserved EXCEPT ![g] = wallets.reserved[g] + x]
       /\ wallets'.ledger = Recorded(wallets, g, "reserve_bid", x)
       /\ bid' = [bid EXCEPT ![b] = NewBid(a, g, x)]
  /\ auction[a].highest # Null =>
       LET p == bid[auction[a].highest]
           r == [wallets.reserved EXCEPT ![g] = wallets.reserved[g] + x]
           v == Reserve(wallets, g, x, "reserve_bid")
       IN  /\ p.bidder \in Guilds /\ p.amount \in Int /\ p.amount > 0
           /\ wallets'.reserved = [r EXCEPT ![p.bidder] = r[p.bidder] - p.amount]
           /\ p.amount <= r[p.bidder]
           /\ v \in WalletsType
           /\ v.ledger = Recorded(wallets, g, "reserve_bid", x)
           /\ wallets'.ledger = Recorded(v, p.bidder, "release_bid", p.amount)
  /\ wallets.reserved[g] + x <= wallets.total[g]
  /\ \A h \in Guilds : 0 <= wallets'.reserved[h] /\ wallets'.reserved[h] <= wallets'.total[h]

(* What PlaceBid does to the wallets, its int64 arithmetic being exact. *)
LEMMA PlaceBidEffect ==
  ASSUME CoreInv, NEW a \in Auctions, NEW g \in Guilds, NEW x \in Amounts,
         NEW b \in Bids, NEW t \in 0 .. now, PlaceBid(a, g, x, b, t)
  PROVE  PlaceBidMoney(a, g, x, b, t)
<1> DEFINE held == Reserve(wallets, g, x, "reserve_bid")
           prev == auction[a].highest
<1>1. x \in Int /\ t \in Nat /\ now \in Nat
  BY HalfAssumption, AuctionAssumption DEF CoreInv, TypeOK, Time
<1>2. wallets \in WalletsType /\ \A h \in Guilds : RowSound(wallets, h)
  BY WalletBound DEF CoreInv, TypeOK
<1>3. CanReserve(wallets, g, x)
  BY DEF PlaceBid
<1>4. /\ held \in WalletsType
      /\ held.total = wallets.total
      /\ held.reserved = [wallets.reserved EXCEPT ![g] = wallets.reserved[g] + x]
      /\ held.ledger = Recorded(wallets, g, "reserve_bid", x)
      /\ x > 0 /\ wallets.reserved[g] + x <= wallets.total[g]
  BY <1>1, <1>2, <1>3, ReserveExact DEF LedgerKinds
<1>5. \A h \in Guilds : RowSound(held, h)
  <2> TAKE h \in Guilds
  <2>1. /\ wallets.reserved \in [Guilds -> Int] /\ wallets.reserved[h] \in Int
        /\ wallets.reserved[g] \in Int /\ wallets.total[h] \in Int
    BY <1>2 DEF WalletsType
  <2>2. held.total[h] = wallets.total[h]
        /\ held.reserved[h] = IF h = g THEN wallets.reserved[g] + x ELSE wallets.reserved[h]
    BY <1>4, <2>1
  <2> HIDE DEF held
  <2> QED BY <1>1, <1>2, <1>4, <2>1, <2>2 DEF RowSound
<1>6. CASE prev = Null
  <2>1. wallets' = held /\ bid' = [bid EXCEPT ![b] = NewBid(a, g, x)]
    BY <1>6 DEF PlaceBid
  <2> HIDE DEF held
  <2> QED BY <1>1, <1>4, <1>5, <1>6, <2>1 DEF RowSound, PlaceBidMoney
<1>7. CASE prev # Null
  <2> DEFINE p == bid[prev]
  <2>1. prev \in Bids /\ p.status = "active"
    BY <1>7, LeaderActive DEF CoreInv, PlaceBid
  <2>2. p.bidder \in Guilds /\ p.amount \in Int /\ p.amount > 0
    BY <2>1, ActiveCovered DEF CoreInv
  <2>3. /\ CanRelease(held, p.bidder, p.amount)
        /\ wallets' = Release(held, p.bidder, p.amount, "release_bid")
    BY <1>7 DEF PlaceBid
  <2> HIDE DEF held, p
  <2>4. /\ wallets' \in WalletsType
        /\ wallets'.total = held.total
        /\ wallets'.reserved = [held.reserved EXCEPT ![p.bidder] = held.reserved[p.bidder] - p.amount]
        /\ wallets'.ledger = Recorded(held, p.bidder, "release_bid", p.amount)
        /\ p.amount <= held.reserved[p.bidder]
    <3>1. RowSound(held, p.bidder) /\ "release_bid" \in LedgerKinds /\ held \in WalletsType
      BY <1>4, <1>5, <2>2 DEF LedgerKinds
    <3> QED BY <2>2, <2>3, <3>1, ReleaseExact
  <2>5. \A h \in Guilds : 0 <= wallets'.reserved[h] /\ wallets'.reserved[h] <= wallets'.total[h]
    BY <1>4, <1>5, <2>2, <2>4 DEF RowSound, WalletsType
  <2> QED BY <1>1, <1>4, <1>7, <2>2, <2>4, <2>5 DEF held, p, PlaceBidMoney
<1> QED BY <1>6, <1>7

PlaceBidTables(a, g, x, b, t) ==
  /\ auction[a].status = "active" /\ auction[a].item \in Items
  /\ auction[a].seller \in Guilds /\ auction[a].seller # g
  /\ bid[b].status = "absent" /\ b # auction[a].highest
  /\ auction' \in [Auctions -> AuctionRow] /\ bid' \in [Bids -> BidRow]
  /\ auction'[a] = [item |-> auction[a].item, seller |-> auction[a].seller,
                    status |-> "active",
                    endsAt |-> MaybeExtend(t, auction[a].endsAt, Extension, Extension),
                    highest |-> b, winner |-> auction[a].winner, updatedAt |-> t]
  /\ \A c \in Auctions : c # a => auction'[c] = auction[c]
  /\ bid'[b] = NewBid(a, g, x)
  /\ auction[a].highest # Null =>
       bid'[auction[a].highest] =
         [auction |-> a, bidder |-> bid[auction[a].highest].bidder,
          amount |-> bid[auction[a].highest].amount, status |-> "released"]
  /\ \A d \in Bids : d # b /\ d # auction[a].highest => bid'[d] = bid[d]

(* What PlaceBid does to the auctions and bids tables. *)
LEMMA PlaceBidRows ==
  ASSUME CoreInv, NEW a \in Auctions, NEW g \in Guilds, NEW x \in Amounts,
         NEW b \in Bids, NEW t \in 0 .. now, PlaceBid(a, g, x, b, t)
  PROVE  PlaceBidTables(a, g, x, b, t)
<1> DEFINE prev == auction[a].highest
           e == MaybeExtend(t, auction[a].endsAt, Extension, Extension)
<1>1. /\ auction \in [Auctions -> AuctionRow] /\ bid \in [Bids -> BidRow]
      /\ auction[a] \in AuctionRow
      /\ now \in Nat /\ t \in Nat /\ x \in Int
  BY HalfAssumption, AuctionAssumption DEF CoreInv, TypeOK, Time
<1>2. e \in Nat
  BY <1>1, AuctionAssumption, MaybeExtendBounds DEF AuctionRow, Time
<1>3. /\ auction[a].status = "active" /\ bid[b].status = "absent" /\ auction[a].seller # g
      /\ auction' = Led(a, b, t)
  BY DEF PlaceBid, EnsureNotSelfBid
<1>4. auction[a].item \in Items /\ auction[a].seller \in Guilds
  BY <1>3 DEF CoreInv, RowsConsistent
<1>5. b # prev
  BY <1>3, LeaderActive, AuctionAssumption DEF CoreInv
<1>6. /\ auction'[a] = [item |-> auction[a].item, seller |-> auction[a].seller,
                           status |-> "active", endsAt |-> e,
                           highest |-> b, winner |-> auction[a].winner, updatedAt |-> t]
      /\ \A c \in Auctions : c # a => auction'[c] = auction[c]
      /\ DOMAIN auction' = Auctions
      /\ auction' = [c \in Auctions |-> auction'[c]]
  <2> HIDE DEF e
  <2> QED BY <1>1, <1>3 DEF Led, AuctionRow, e
<1>7. auction' \in [Auctions -> AuctionRow]
  <2>1. auction'[a] \in AuctionRow
    <3> HIDE DEF e
    <3> QED BY <1>1, <1>2, <1>6 DEF AuctionRow, Time
  <2> QED BY <1>1, <1>6, <2>1
<1>8. NewBid(a, g, x) \in BidRow
  BY <1>1 DEF NewBid, BidRow
<1>9. CASE prev = Null
  <2>1. bid' = [bid EXCEPT ![b] = NewBid(a, g, x)]
    BY <1>9 DEF PlaceBid
  <2> QED BY <1>1, <1>3, <1>4, <1>5, <1>6, <1>7, <1>8, <1>9, <2>1 DEF PlaceBidTables
<1>10. CASE prev # Null
  <2>1. /\ prev \in Bids /\ bid[prev].auction = a
        /\ bid' = [bid EXCEPT ![prev].status = "released", ![b] = NewBid(a, g, x)]
    BY <1>3, <1>10, LeaderActive DEF CoreInv, PlaceBid
  <2>2. bid'[prev] = [auction |-> a, bidder |-> bid[prev].bidder,
                      amount |-> bid[prev].amount, status |-> "released"]
    BY <1>1, <1>5, <2>1 DEF BidRow
  <2>3. bid'[prev] \in BidRow
    BY <1>1, <2>1, <2>2 DEF BidRow
  <2>4. /\ bid'[b] = NewBid(a, g, x)
        /\ \A d \in Bids : d # b /\ d # prev => bid'[d] = bid[d]
        /\ bid' = [d \in Bids |-> bid'[d]]
    BY <1>1, <1>5, <2>1
  <2>5. bid' \in [Bids -> BidRow]
    BY <1>1, <1>8, <2>3, <2>4
  <2> QED BY <1>3, <1>4, <1>5, <1>6, <1>7, <2>2, <2>4, <2>5 DEF PlaceBidTables
<1> QED BY <1>9, <1>10

(* PlaceBid preserves the core invariant. *)
LEMMA PlaceBidCore ==
  ASSUME CoreInv, NEW a \in Auctions, NEW g \in Guilds, NEW x \in Amounts,
         NEW b \in Bids, NEW t \in 0 .. now, PlaceBid(a, g, x, b, t)
  PROVE  CoreInv'
<1> DEFINE prev == auction[a].highest
<1>0. /\ auction \in [Auctions -> AuctionRow] /\ bid \in [Bids -> BidRow]
      /\ wallets \in WalletsType /\ RowsConsistent /\ TypeOK
  BY DEF CoreInv, TypeOK
<1>m. PlaceBidMoney(a, g, x, b, t)
  BY PlaceBidEffect
<1>r. PlaceBidTables(a, g, x, b, t)
  BY PlaceBidRows
<1>n. Null \notin Bids /\ Null \notin Auctions /\ IsFiniteSet(Bids)
  BY AuctionAssumption
<1>a. x \in Int /\ x > 0
  BY <1>m DEF PlaceBidMoney
<1>b. prev = Null \/ (prev \in Bids /\ bid[prev].status = "active" /\ bid[prev].auction = a)
  BY <1>0, LeaderActive, <1>r DEF PlaceBidTables
<1>1. TypeOK'
  BY <1>0, <1>m, <1>r DEF TypeOK, PlaceBid, PlaceBidMoney, PlaceBidTables
<1>2. RowsConsistent'
  <2>1. ASSUME NEW c \in Auctions
        PROVE  /\ auction'[c].status = "absent" => auction'[c].highest = Null
               /\ auction'[c].status # "absent" => auction'[c].item \in Items /\ auction'[c].seller \in Guilds
               /\ auction'[c].highest # Null =>
                    /\ bid'[auction'[c].highest].auction = c
                    /\ auction'[c].status = "active" => bid'[auction'[c].highest].status = "active"
                    /\ auction'[c].status = "settled" => bid'[auction'[c].highest].status = "won"
    <3>1. CASE c = a
      BY <3>1, <1>r DEF NewBid, PlaceBidTables
    <3>2. CASE c # a
      <4>1. auction'[c] = auction[c]
        BY <3>2, <1>r DEF PlaceBidTables
      <4>2. auction[c].highest # Null => auction[c].highest # b /\ auction[c].highest # prev
                                          /\ auction[c].highest \in Bids
        BY <1>n, <1>0, <1>b, <3>2, <1>r DEF RowsConsistent, AuctionRow, PlaceBidTables
      <4>3. auction[c].highest # Null => bid'[auction[c].highest] = bid[auction[c].highest]
        BY <4>2, <1>r DEF PlaceBidTables
      <4> QED BY <1>0, <4>1, <4>3 DEF RowsConsistent
    <3> QED BY <3>1, <3>2
  <2>2. ASSUME NEW d \in Bids
        PROVE  /\ bid'[d].status = "absent" => bid'[d].auction = Null
               /\ bid'[d].status # "absent" =>
                    /\ bid'[d].auction \in Auctions /\ bid'[d].bidder \in Guilds /\ bid'[d].amount > 0
                    /\ bid'[d].bidder # auction'[bid'[d].auction].seller
                    /\ auction'[bid'[d].auction].status # "absent"
               /\ bid'[d].status = "active" =>
                    /\ auction'[bid'[d].auction].status = "active"
                    /\ auction'[bid'[d].auction].highest = d
    <3>0. \A c \in Auctions : auction'[c].seller = auction[c].seller /\ auction'[c].status = auction[c].status
      BY <1>r DEF PlaceBidTables
    <3>1. CASE d = b
      <4>1. bid'[d] = NewBid(a, g, x)
        BY <3>1, <1>r DEF PlaceBidTables
      <4> QED BY <1>a, <3>1, <4>1, <1>r DEF NewBid, PlaceBidTables
    <3>2. CASE d # b /\ d = prev
      <4>1. /\ prev \in Bids /\ bid[prev].auction = a /\ bid[prev].status = "active"
            /\ bid'[prev] = [auction |-> a, bidder |-> bid[prev].bidder,
                             amount |-> bid[prev].amount, status |-> "released"]
        BY <1>b, <1>n, <3>2, <1>r DEF PlaceBidTables
      <4>2. bid[prev].bidder \in Guilds /\ bid[prev].amount > 0 /\ bid[prev].bidder # auction[a].seller
        BY <1>0, <4>1 DEF RowsConsistent
      <4>a. auction[a].status = "active"
        BY <1>r DEF PlaceBidTables
      <4>3. /\ bid'[d].auction = a /\ bid'[d].bidder = bid[prev].bidder
            /\ bid'[d].amount = bid[prev].amount /\ bid'[d].status = "released"
        BY <3>2, <4>1
      <4> QED BY <3>0, <4>a, <4>2, <4>3
    <3>3. CASE d # b /\ d # prev
      <4>1. bid'[d] = bid[d]
        BY <3>3, <1>r DEF PlaceBidTables
      <4>2. bid[d].status = "active" => bid[d].auction # a
        BY <1>0, <3>3 DEF RowsConsistent
      <4>3. bid[d].status # "absent" => bid[d].auction \in Auctions
        BY <1>0 DEF RowsConsistent
      <4>4. bid[d].status = "active" => auction'[bid[d].auction] = auction[bid[d].auction]
        BY <4>2, <4>3, <1>r DEF PlaceBidTables
      <4> QED BY <1>0, <3>0, <4>1, <4>3, <4>4 DEF RowsConsistent
    <3> QED BY <3>1, <3>2, <3>3
  <2> QED BY <2>1, <2>2 DEF RowsConsistent
<1>3. ReservedBacked'
  <2> SUFFICES ASSUME NEW h \in Guilds
               PROVE  wallets'.reserved[h] = SumFunctionOnSet(HeldBy(h)', Bids)
    BY DEF ReservedBacked
  <2>1. wallets.reserved[h] = SumFunctionOnSet(HeldBy(h), Bids)
    BY DEF CoreInv, ReservedBacked
  <2>2. \A d \in Bids : HeldBy(h)[d] \in Int
    BY <1>0, HeldNat
  <2>3. \A d \in Bids : HeldBy(h)'[d] \in Int
    BY <1>1, <1>2 DEF HeldBy, TypeOK, BidRow
  <2>4. /\ HeldBy(h)[b] = 0
        /\ HeldBy(h)'[b] = IF h = g THEN x ELSE 0
    BY <1>r DEF HeldBy, NewBid, PlaceBidTables
  <2>5. CASE prev = Null
    <3>1. \A d \in Bids \ {b} : HeldBy(h)'[d] = HeldBy(h)[d]
      BY <2>5, <1>n, <1>r DEF HeldBy, PlaceBidTables
    <3>2. SumFunctionOnSet(HeldBy(h)', Bids) =
            SumFunctionOnSet(HeldBy(h), Bids) - HeldBy(h)[b] + HeldBy(h)'[b]
      BY <2>2, <2>3, <3>1, <1>n, SumChangeOne
    <3>3. wallets'.reserved[h] = wallets.reserved[h] + (IF h = g THEN x ELSE 0)
      <4>1. wallets'.reserved = [wallets.reserved EXCEPT ![g] = wallets.reserved[g] + x]
        BY <2>5, <1>m DEF PlaceBidMoney
      <4>2. wallets.reserved \in [Guilds -> Int]
        BY <1>0 DEF WalletsType
      <4> QED BY <1>a, <4>1, <4>2
    <3>4. wallets.reserved[h] \in Int
      BY <1>0 DEF WalletsType
    <3> QED BY <1>a, <2>1, <2>4, <3>2, <3>3, <3>4
  <2>6. CASE prev # Null
    <3> DEFINE p == bid[prev]
               r == [wallets.reserved EXCEPT ![g] = wallets.reserved[g] + x]
    <3>0. prev \in Bids /\ b # prev /\ p.status = "active"
      BY <1>b, <2>6, <1>r DEF PlaceBidTables
    <3>1. \A d \in Bids \ {b, prev} : HeldBy(h)'[d] = HeldBy(h)[d]
      BY <2>6, <1>r DEF HeldBy, PlaceBidTables
    <3>2. SumFunctionOnSet(HeldBy(h)', Bids) =
            SumFunctionOnSet(HeldBy(h), Bids) - HeldBy(h)[b] - HeldBy(h)[prev]
              + HeldBy(h)'[b] + HeldBy(h)'[prev]
      <4> HIDE DEF prev, p
      <4> QED BY <2>2, <2>3, <3>0, <3>1, <1>n, SumChangeTwo
    <3>3. /\ HeldBy(h)[prev] = IF h = p.bidder THEN p.amount ELSE 0
          /\ HeldBy(h)'[prev] = 0
      <4>1. bid'[prev].status = "released"
        BY <2>6, <1>r DEF PlaceBidTables
      <4> QED BY <3>0, <4>1 DEF HeldBy
    <3>4. /\ p.bidder \in Guilds /\ p.amount \in Int
          /\ wallets'.reserved = [r EXCEPT ![p.bidder] = r[p.bidder] - p.amount]
      BY <2>6, <1>m DEF PlaceBidMoney
    <3>5. wallets.reserved \in [Guilds -> Int] /\ wallets.reserved[h] \in Int
      BY <1>0 DEF WalletsType
    <3>6. /\ r \in [Guilds -> Int]
          /\ r[h] = wallets.reserved[h] + (IF h = g THEN x ELSE 0)
      BY <1>a, <3>5
    <3>7. wallets'.reserved[h] = r[h] - (IF h = p.bidder THEN p.amount ELSE 0)
      <4> HIDE DEF r, p
      <4> QED BY <3>4, <3>6
    <3> HIDE DEF p, r, prev
    <3> QED BY <1>a, <2>1, <2>4, <3>2, <3>3, <3>4, <3>5, <3>6, <3>7
  <2> QED BY <2>5, <2>6
<1>4. WalletSound'
  BY <1>m DEF WalletSound, PlaceBidMoney
<1>5. MoneyConserved'
  BY <1>m DEF CoreInv, MoneyConserved, PlaceBidMoney
<1> QED BY <1>1, <1>2, <1>3, <1>4, <1>5 DEF CoreInv
-----------------------------------------------------------------------------
(* CreateAuction touches no bid and no wallet. *)
LEMMA CreateAuctionCore ==
  ASSUME CoreInv, NEW g \in Guilds, NEW i \in Items, NEW a \in Auctions,
         NEW t \in 0 .. now, CreateAuction(g, i, a, t)
  PROVE  CoreInv'
<1>0. /\ auction \in [Auctions -> AuctionRow] /\ bid \in [Bids -> BidRow]
      /\ item \in [Items -> ItemRow] /\ RowsConsistent /\ TypeOK /\ now \in Nat
  BY DEF CoreInv, TypeOK, Time
<1>1. /\ bid' = bid /\ wallets' = wallets /\ now' = now
      /\ item' = [item EXCEPT ![i].status = "in_auction"]
      /\ auction[a].status = "absent"
  BY DEF CreateAuction
<1>n. Window \in Nat /\ Null \notin Bids /\ Null \notin Auctions
  BY AuctionAssumption
<1>2. /\ auction'[a] = [item |-> i, seller |-> g, status |-> "active",
                        endsAt |-> t + Window, highest |-> Null, winner |-> Null,
                        updatedAt |-> t]
      /\ \A c \in Auctions : c # a => auction'[c] = auction[c]
      /\ auction' = [c \in Auctions |-> auction'[c]]
  BY <1>0 DEF CreateAuction
<1>3. auction' \in [Auctions -> AuctionRow]
  <2>1. auction'[a] \in AuctionRow
    BY <1>0, <1>2, <1>n DEF AuctionRow, Time
  <2> QED BY <1>0, <1>2, <2>1
<1>4. item' \in [Items -> ItemRow]
  BY <1>0, <1>1 DEF ItemRow
<1>5. TypeOK'
  BY <1>0, <1>1, <1>3, <1>4 DEF TypeOK
<1>6. \A b \in Bids : bid[b].status # "absent" => bid[b].auction # a
  BY <1>0, <1>1 DEF RowsConsistent
<1>7. RowsConsistent'
  BY <1>0, <1>1, <1>2, <1>6 DEF RowsConsistent
<1>8. ReservedBacked' /\ WalletSound' /\ MoneyConserved'
  BY <1>1 DEF CoreInv, ReservedBacked, HeldBy, WalletSound, MoneyConserved
<1> QED BY <1>5, <1>7, <1>8 DEF CoreInv

(* CancelBid never meets an active bid that does not lead, so it moves no money. *)
LEMMA CancelBidEffect ==
  ASSUME CoreInv, NEW a \in Auctions, NEW b \in Bids, NEW g \in Guilds, CancelBid(a, b, g)
  PROVE  /\ auction[a].status = "active" /\ auction[a].highest # b
         /\ bid[b].auction = a /\ bid[b].status \notin {"active", "absent"}
         /\ wallets' = wallets /\ auction' = auction /\ item' = item /\ now' = now
         /\ bid' = [bid EXCEPT ![b].status = "cancelled"]
<1>1. /\ auction[a].status = "active" /\ auction[a].highest # b /\ bid[b].auction = a
      /\ auction' = auction /\ item' = item /\ now' = now
      /\ bid' = [bid EXCEPT ![b].status = "cancelled"]
  BY DEF CancelBid, EnsureCanCancelBid
<1>2. bid[b].status # "active" /\ bid[b].status # "absent"
  BY <1>1, AuctionAssumption DEF CoreInv, RowsConsistent
<1>3. wallets' = wallets
  BY <1>2 DEF CancelBid
<1> QED BY <1>1, <1>2, <1>3

(* CancelBid preserves the core invariant. *)
LEMMA CancelBidCore ==
  ASSUME CoreInv, NEW a \in Auctions, NEW b \in Bids, NEW g \in Guilds, CancelBid(a, b, g)
  PROVE  CoreInv'
<1>0. /\ auction \in [Auctions -> AuctionRow] /\ bid \in [Bids -> BidRow]
      /\ RowsConsistent /\ TypeOK
  BY DEF CoreInv, TypeOK
<1>1. /\ auction[a].status = "active" /\ auction[a].highest # b
      /\ bid[b].auction = a /\ bid[b].status # "active" /\ bid[b].status # "absent"
      /\ wallets' = wallets /\ auction' = auction /\ item' = item /\ now' = now
      /\ bid' = [bid EXCEPT ![b].status = "cancelled"]
  BY CancelBidEffect
<1>2. /\ bid'[b] = [auction |-> a, bidder |-> bid[b].bidder, amount |-> bid[b].amount,
                    status |-> "cancelled"]
      /\ \A d \in Bids : d # b => bid'[d] = bid[d]
      /\ bid' = [d \in Bids |-> bid'[d]]
  BY <1>0, <1>1 DEF BidRow
<1>3. bid' \in [Bids -> BidRow]
  <2>1. bid'[b] \in BidRow
    BY <1>0, <1>2 DEF BidRow
  <2> QED BY <1>0, <1>2, <2>1
<1>4. TypeOK'
  BY <1>0, <1>1, <1>3 DEF TypeOK
<1>5. \A c \in Auctions : auction[c].highest # Null => auction[c].highest \in Bids /\ auction[c].highest # b
  BY <1>0, <1>1 DEF RowsConsistent, AuctionRow
<1>6. RowsConsistent'
  <2>1. \A c \in Auctions : auction[c].highest # Null =>
           bid'[auction[c].highest] = bid[auction[c].highest]
    BY <1>2, <1>5
  <2>2. \A d \in Bids : d # b => bid'[d] = bid[d]
    BY <1>2
  <2>3. /\ bid'[b].status = "cancelled" /\ bid'[b].auction = bid[b].auction
        /\ bid'[b].bidder = bid[b].bidder /\ bid'[b].amount = bid[b].amount
    BY <1>1, <1>2
  <2> QED BY <1>0, <1>1, <2>1, <2>2, <2>3 DEF RowsConsistent
<1>7. ReservedBacked'
  <2>1. \A h \in Guilds : HeldBy(h)' = HeldBy(h)
    BY <1>1, <1>2 DEF HeldBy
  <2> QED BY <1>1, <2>1 DEF CoreInv, ReservedBacked
<1>8. WalletSound' /\ MoneyConserved'
  BY <1>1 DEF CoreInv, WalletSound, MoneyConserved
<1> QED BY <1>4, <1>6, <1>7, <1>8 DEF CoreInv
-----------------------------------------------------------------------------
(* SettleAuction moves the winner's reserved amount to the seller. *)
SettleMoney(a) ==
  LET win == bid[auction[a].highest]
      seller == auction[a].seller
      paid == SettleReserved(wallets, win.bidder, win.amount, "debit_auction")
  IN  /\ win.bidder \in Guilds /\ seller \in Guilds /\ win.bidder # seller
      /\ win.amount \in Int /\ win.amount > 0
      /\ wallets' \in WalletsType
      /\ \A h \in Guilds :
           /\ wallets'.total[h] = IF h = win.bidder THEN wallets.total[h] - win.amount
                                  ELSE IF h = seller THEN wallets.total[h] + win.amount
                                  ELSE wallets.total[h]
           /\ wallets'.reserved[h] = IF h = win.bidder THEN wallets.reserved[h] - win.amount
                                     ELSE wallets.reserved[h]
      /\ win.amount <= wallets.reserved[win.bidder]
      /\ SumFunctionOnSet(wallets'.total, Guilds) = SumFunctionOnSet(wallets.total, Guilds)
      /\ paid \in WalletsType
      /\ paid.ledger = Recorded(wallets, win.bidder, "debit_auction", win.amount)
      /\ wallets'.ledger = Recorded(paid, seller, "credit_auction", win.amount)

(* What a settlement with a winner does to the wallets. *)
LEMMA SettleMoneyMoves ==
  ASSUME CoreInv, NEW a \in Auctions, NEW t \in 0 .. now, SettleAuction(a, t),
         auction[a].highest # Null
  PROVE  SettleMoney(a)
<1> DEFINE win == bid[auction[a].highest]
           seller == auction[a].seller
           x == win.amount
           paid == SettleReserved(wallets, win.bidder, x, "debit_auction")
<1>0. /\ wallets \in WalletsType /\ TypeOK /\ auction[a].status = "active"
      /\ \A h \in Guilds : RowSound(wallets, h)
      /\ IsFiniteSet(Guilds)
      /\ "debit_auction" \in LedgerKinds /\ "credit_auction" \in LedgerKinds
  BY WalletBound, AuctionAssumption DEF CoreInv, TypeOK, SettleAuction, LedgerKinds
<1>1. /\ auction[a].highest \in Bids /\ win.status = "active" /\ win.bidder # seller
  BY <1>0, LeaderActive DEF CoreInv
<1>2. /\ win.bidder \in Guilds /\ x \in Int /\ x > 0 /\ x <= wallets.reserved[win.bidder]
  BY <1>1, ActiveCovered DEF CoreInv
<1>3. seller \in Guilds
  BY <1>0 DEF CoreInv, RowsConsistent
<1>4. /\ CanSettleReserved(wallets, win.bidder, x) /\ CanCredit(x)
      /\ wallets' = Credit(paid, seller, x, "credit_auction")
  BY DEF SettleAuction
<1> HIDE DEF win, seller, x, paid
<1>5. /\ paid \in WalletsType
      /\ paid.total = [wallets.total EXCEPT ![win.bidder] = wallets.total[win.bidder] - x]
      /\ paid.reserved = [wallets.reserved EXCEPT ![win.bidder] = wallets.reserved[win.bidder] - x]
      /\ paid.ledger = Recorded(wallets, win.bidder, "debit_auction", x)
  <2>1. RowSound(wallets, win.bidder)
    BY <1>0, <1>2
  <2> QED BY <1>0, <1>2, <1>4, <2>1, SettleReservedExact DEF paid
<1>6. \A h \in Guilds : wallets.total[h] \in Nat /\ wallets.reserved[h] \in Int /\ paid.total[h] \in Nat
  <2> TAKE h \in Guilds
  <2>1. wallets.total[h] \in Int /\ wallets.reserved[h] \in Int /\ wallets.total \in [Guilds -> Int]
    BY <1>0 DEF WalletsType
  <2>2. 0 <= wallets.reserved[h] /\ wallets.reserved[h] <= wallets.total[h]
    BY <1>0 DEF RowSound
  <2> QED BY <1>2, <1>5, <2>1, <2>2
<1>7. SumFunctionOnSet(paid.total, Guilds) = SumFunctionOnSet(wallets.total, Guilds) - x
  <2>1. paid.total[win.bidder] = wallets.total[win.bidder] - x
    BY <1>0, <1>2, <1>5 DEF WalletsType
  <2>2. \A h \in Guilds \ {win.bidder} : paid.total[h] = wallets.total[h]
    BY <1>0, <1>5 DEF WalletsType
  <2>3. SumFunctionOnSet(paid.total, Guilds) =
          SumFunctionOnSet(wallets.total, Guilds) - wallets.total[win.bidder] + paid.total[win.bidder]
    BY <1>0, <1>2, <1>6, <2>2, SumChangeOne
  <2>4. SumFunctionOnSet(wallets.total, Guilds) \in Int
    BY <1>0, <1>6, SumInt
  <2> QED BY <1>2, <1>6, <2>1, <2>3, <2>4
<1>8. paid.total[seller] + x <= Money
  <2>1. paid.total[seller] <= SumFunctionOnSet(paid.total, Guilds)
    BY <1>0, <1>3, <1>6, SumBoundsSummand
  <2>2. SumFunctionOnSet(wallets.total, Guilds) = Money
    BY DEF CoreInv, MoneyConserved, Money
  <2> QED BY <1>2, <1>3, <1>6, <1>7, <2>1, <2>2, MoneyNat
<1>9. /\ wallets' \in WalletsType
      /\ wallets'.total = [paid.total EXCEPT ![seller] = paid.total[seller] + x]
      /\ wallets'.reserved = paid.reserved
      /\ wallets'.ledger = Recorded(paid, seller, "credit_auction", x)
  <2>1. paid.total[seller] + x < Half /\ 0 <= paid.total[seller]
    BY <1>2, <1>3, <1>6, <1>8, MoneyNat, HalfAssumption
  <2>2. /\ paid \in WalletsType /\ seller \in Guilds /\ "credit_auction" \in LedgerKinds
        /\ x \in Int /\ CanCredit(x)
    BY <1>0, <1>2, <1>3, <1>4, <1>5
  <2> DEFINE v == Credit(paid, seller, x, "credit_auction")
  <2>3. /\ v \in WalletsType
        /\ v.total = [paid.total EXCEPT ![seller] = paid.total[seller] + x]
        /\ v.reserved = paid.reserved
        /\ v.ledger = Recorded(paid, seller, "credit_auction", x)
    BY <2>1, <2>2, CreditExact
  <2> QED BY <1>4, <2>3
<1>10. SumFunctionOnSet(wallets'.total, Guilds) = SumFunctionOnSet(wallets.total, Guilds)
  <2>1. /\ wallets'.total[seller] = paid.total[seller] + x
        /\ \A h \in Guilds \ {seller} : wallets'.total[h] = paid.total[h]
        /\ \A h \in Guilds : wallets'.total[h] \in Int
    BY <1>3, <1>5, <1>9 DEF WalletsType
  <2>2. SumFunctionOnSet(wallets'.total, Guilds) =
          SumFunctionOnSet(paid.total, Guilds) - paid.total[seller] + wallets'.total[seller]
    BY <1>0, <1>3, <1>6, <2>1, SumChangeOne
  <2>3. SumFunctionOnSet(wallets.total, Guilds) \in Int
    BY <1>0, <1>6, SumInt
  <2> QED BY <1>2, <1>3, <1>6, <1>7, <2>1, <2>2, <2>3
<1>11. \A h \in Guilds :
         /\ wallets'.total[h] = IF h = win.bidder THEN wallets.total[h] - x
                                ELSE IF h = seller THEN wallets.total[h] + x
                                ELSE wallets.total[h]
         /\ wallets'.reserved[h] = IF h = win.bidder THEN wallets.reserved[h] - x
                                   ELSE wallets.reserved[h]
  <2>1. /\ wallets.total \in [Guilds -> Int] /\ wallets.reserved \in [Guilds -> Int]
        /\ paid.total \in [Guilds -> Int]
    BY <1>0, <1>5 DEF WalletsType
  <2>2. \A h \in Guilds :
          /\ paid.total[h] = IF h = win.bidder THEN wallets.total[h] - x ELSE wallets.total[h]
          /\ paid.reserved[h] = IF h = win.bidder THEN wallets.reserved[h] - x ELSE wallets.reserved[h]
    BY <1>5, <2>1
  <2>3. \A h \in Guilds :
          wallets'.total[h] = IF h = seller THEN paid.total[h] + x ELSE paid.total[h]
    BY <1>9, <2>1
  <2>4. win.bidder # seller
    BY <1>1 DEF win, seller
  <2> QED BY <1>9, <2>2, <2>3, <2>4
<1> QED BY <1>1, <1>2, <1>3, <1>5, <1>9, <1>10, <1>11 DEF SettleMoney, win, seller, x, paid

SettleTables(a, t) ==
  /\ auction[a].status = "active" /\ auction[a].item \in Items
  /\ auction[a].endsAt <= t
  /\ auction'[a] = [item |-> auction[a].item, seller |-> auction[a].seller,
                    status |-> "settled", endsAt |-> auction[a].endsAt,
                    highest |-> auction[a].highest,
                    winner |-> IF auction[a].highest = Null THEN auction[a].winner
                               ELSE bid[auction[a].highest].bidder,
                    updatedAt |-> t]
  /\ auction' \in [Auctions -> AuctionRow] /\ bid' \in [Bids -> BidRow]
  /\ item' \in [Items -> ItemRow]
  /\ \A c \in Auctions : c # a => auction'[c] = auction[c]
  /\ auction[a].highest # Null =>
       /\ bid'[auction[a].highest] =
            [auction |-> a, bidder |-> bid[auction[a].highest].bidder,
             amount |-> bid[auction[a].highest].amount, status |-> "won"]
       /\ item'[auction[a].item] =
            [owner |-> bid[auction[a].highest].bidder, status |-> "available"]
  /\ auction[a].highest = Null =>
       item'[auction[a].item] =
         [owner |-> item[auction[a].item].owner, status |-> "available"]
  /\ \A d \in Bids : d # auction[a].highest => bid'[d] = bid[d]
  /\ \A i \in Items : i # auction[a].item => item'[i] = item[i]

(* What a settlement does to the auctions, bids and items tables. *)
LEMMA SettleRows ==
  ASSUME CoreInv, NEW a \in Auctions, NEW t \in 0 .. now, SettleAuction(a, t)
  PROVE  SettleTables(a, t)
<1> DEFINE b == auction[a].highest
<1>0. /\ auction \in [Auctions -> AuctionRow] /\ bid \in [Bids -> BidRow]
      /\ item \in [Items -> ItemRow] /\ auction[a] \in AuctionRow
      /\ TypeOK /\ RowsConsistent /\ t \in Nat
  BY DEF CoreInv, TypeOK, Time
<1>1. auction[a].status = "active" /\ auction[a].endsAt <= t
  BY <1>0 DEF SettleAuction, AuctionEnded, AuctionRow, Time
<1>2. auction[a].item \in Items
  BY <1>0, <1>1 DEF RowsConsistent
<1>3. CASE b = Null
  <2>1. /\ bid' = bid
        /\ item' = [item EXCEPT ![auction[a].item].status = "available"]
        /\ auction' = [auction EXCEPT ![a].status = "settled", ![a].updatedAt = t]
    BY <1>3 DEF SettleAuction
  <2>2. /\ auction'[a] = [item |-> auction[a].item, seller |-> auction[a].seller,
                    status |-> "settled", endsAt |-> auction[a].endsAt,
                    highest |-> b, winner |-> auction[a].winner, updatedAt |-> t]
        /\ \A c \in Auctions : c # a => auction'[c] = auction[c]
        /\ auction' = [c \in Auctions |-> auction'[c]]
    BY <1>0, <2>1 DEF AuctionRow
  <2>3. auction' \in [Auctions -> AuctionRow]
    <3>1. auction'[a] \in AuctionRow
      BY <1>0, <2>2 DEF AuctionRow, Time
    <3> QED BY <1>0, <2>2, <3>1
  <2>4. /\ item' \in [Items -> ItemRow]
        /\ item'[auction[a].item] = [owner |-> item[auction[a].item].owner, status |-> "available"]
        /\ \A i \in Items : i # auction[a].item => item'[i] = item[i]
    BY <1>0, <1>2, <2>1 DEF ItemRow
  <2> QED BY <1>0, <1>1, <1>2, <1>3, <2>1, <2>2, <2>3, <2>4 DEF SettleTables
<1>4. CASE b # Null
  <2>0. b \in Bids /\ bid[b].auction = a /\ bid[b].bidder \in Guilds
    BY <1>0, <1>1, <1>4, LeaderActive, ActiveCovered DEF CoreInv
  <2>1. /\ bid' = [bid EXCEPT ![b].status = "won"]
        /\ item' = [item EXCEPT ![auction[a].item] = [owner |-> bid[b].bidder, status |-> "available"]]
        /\ auction' = [auction EXCEPT ![a].winner = bid[b].bidder,
                         ![a].status = "settled", ![a].updatedAt = t]
    BY <1>4 DEF SettleAuction
  <2>2. /\ auction'[a] = [item |-> auction[a].item, seller |-> auction[a].seller,
                    status |-> "settled", endsAt |-> auction[a].endsAt,
                    highest |-> b, winner |-> bid[b].bidder, updatedAt |-> t]
        /\ \A c \in Auctions : c # a => auction'[c] = auction[c]
        /\ auction' = [c \in Auctions |-> auction'[c]]
    BY <1>0, <2>1 DEF AuctionRow
  <2>3. auction' \in [Auctions -> AuctionRow]
    <3>1. auction'[a] \in AuctionRow
      BY <1>0, <2>0, <2>2 DEF AuctionRow, Time
    <3> QED BY <1>0, <2>2, <3>1
  <2>4. /\ item' \in [Items -> ItemRow]
        /\ item'[auction[a].item] = [owner |-> bid[b].bidder, status |-> "available"]
        /\ \A i \in Items : i # auction[a].item => item'[i] = item[i]
    BY <1>0, <1>2, <2>0, <2>1 DEF ItemRow
  <2>5. /\ bid'[b] = [auction |-> a, bidder |-> bid[b].bidder, amount |-> bid[b].amount,
                      status |-> "won"]
        /\ \A d \in Bids : d # b => bid'[d] = bid[d]
        /\ bid' = [d \in Bids |-> bid'[d]]
    BY <1>0, <2>0, <2>1 DEF BidRow
  <2>6. bid' \in [Bids -> BidRow]
    <3>1. bid'[b] \in BidRow
      BY <1>0, <2>0, <2>5 DEF BidRow
    <3> QED BY <1>0, <2>5, <3>1
  <2> QED BY <1>1, <1>2, <1>4, <2>2, <2>3, <2>4, <2>5, <2>6 DEF SettleTables
<1> QED BY <1>3, <1>4

(* SettleAuction preserves the core invariant. *)
LEMMA SettleCore ==
  ASSUME CoreInv, NEW a \in Auctions, NEW t \in 0 .. now, SettleAuction(a, t)
  PROVE  CoreInv'
<1> DEFINE b == auction[a].highest
<1>0. /\ auction \in [Auctions -> AuctionRow] /\ bid \in [Bids -> BidRow]
      /\ wallets \in WalletsType /\ RowsConsistent /\ TypeOK /\ now' = now
  BY DEF CoreInv, TypeOK, SettleAuction
<1>r. SettleTables(a, t)
  BY SettleRows
<1>n. Null \notin Bids /\ Null \notin Auctions /\ IsFiniteSet(Bids)
  BY AuctionAssumption
<1>b. b # Null => /\ b \in Bids /\ bid[b].status = "active" /\ bid[b].auction = a
                  /\ bid[b].bidder # auction[a].seller
  BY LeaderActive, <1>r DEF SettleTables, CoreInv
<1>m. b # Null => SettleMoney(a)
  BY SettleMoneyMoves
<1>u. b = Null => wallets' = wallets /\ bid' = bid
  BY DEF SettleAuction
<1>1. TypeOK'
  BY <1>0, <1>r, <1>m, <1>u DEF TypeOK, SettleTables, SettleMoney
<1>2. RowsConsistent'
  <2>1. \A c \in Auctions : /\ auction'[c].highest = auction[c].highest
                            /\ auction'[c].item = auction[c].item
                            /\ auction'[c].seller = auction[c].seller
                            /\ auction'[c].status = IF c = a THEN "settled" ELSE auction[c].status
    BY <1>r DEF SettleTables
  <2>2. \A d \in Bids : /\ bid'[d].auction = bid[d].auction /\ bid'[d].bidder = bid[d].bidder
                        /\ bid'[d].amount = bid[d].amount
                        /\ bid'[d].status = IF d = b THEN "won" ELSE bid[d].status
    BY <1>r, <1>b, <1>n DEF SettleTables
  <2>3. auction[a].status = "active"
    BY <1>r DEF SettleTables
  <2>4. \A c \in Auctions : auction[c].highest # Null => auction[c].highest \in Bids
    BY <1>0 DEF AuctionRow
  <2>5. \A c \in Auctions : auction[c].highest # Null /\ auction[c].highest = b => c = a
    BY <1>0, <1>b DEF RowsConsistent
  <2> HIDE DEF b
  <2>6. ASSUME NEW c \in Auctions
        PROVE  /\ auction'[c].status = "absent" => auction'[c].highest = Null
               /\ auction'[c].status # "absent" => auction'[c].item \in Items /\ auction'[c].seller \in Guilds
               /\ auction'[c].highest # Null =>
                    /\ bid'[auction'[c].highest].auction = c
                    /\ auction'[c].status = "active" => bid'[auction'[c].highest].status = "active"
                    /\ auction'[c].status = "settled" => bid'[auction'[c].highest].status = "won"
    <3>1. CASE c = a
      BY <1>0, <2>1, <2>2, <2>3, <2>4, <3>1 DEF RowsConsistent, b
    <3>2. CASE c # a
      BY <1>0, <2>1, <2>2, <2>4, <2>5, <3>2 DEF RowsConsistent
    <3> QED BY <3>1, <3>2
  <2>7. ASSUME NEW d \in Bids
        PROVE  /\ bid'[d].status = "absent" => bid'[d].auction = Null
               /\ bid'[d].status # "absent" =>
                    /\ bid'[d].auction \in Auctions /\ bid'[d].bidder \in Guilds /\ bid'[d].amount > 0
                    /\ bid'[d].bidder # auction'[bid'[d].auction].seller
                    /\ auction'[bid'[d].auction].status # "absent"
               /\ bid'[d].status = "active" =>
                    /\ auction'[bid'[d].auction].status = "active"
                    /\ auction'[bid'[d].auction].highest = d
    <3>1. CASE d = b
      BY <1>0, <1>n, <1>b, <2>1, <2>2, <2>3, <3>1 DEF RowsConsistent
    <3>2. CASE d # b
      <4>1. bid[d].status = "active" => bid[d].auction # a
        BY <1>0, <3>2 DEF RowsConsistent, b
      <4> QED BY <1>0, <2>1, <2>2, <3>2, <4>1 DEF RowsConsistent
    <3> QED BY <3>1, <3>2
  <2> QED BY <2>6, <2>7 DEF RowsConsistent
<1>3. ReservedBacked'
  <2> SUFFICES ASSUME NEW h \in Guilds
               PROVE  wallets'.reserved[h] = SumFunctionOnSet(HeldBy(h)', Bids)
    BY DEF ReservedBacked
  <2>1. wallets.reserved[h] = SumFunctionOnSet(HeldBy(h), Bids)
    BY DEF CoreInv, ReservedBacked
  <2>2. \A d \in Bids : HeldBy(h)[d] \in Int
    BY <1>0, HeldNat
  <2>3. \A d \in Bids : HeldBy(h)'[d] \in Int
    BY <1>1, <1>2 DEF HeldBy, TypeOK, BidRow
  <2>4. \A d \in Bids \ {b} : HeldBy(h)'[d] = HeldBy(h)[d]
    BY <1>r DEF HeldBy, SettleTables
  <2>5. CASE b = Null
    <3>1. HeldBy(h)' = HeldBy(h)
      BY <1>u, <2>5 DEF HeldBy
    <3> QED BY <1>u, <2>1, <2>5, <3>1
  <2>6. CASE b # Null
    <3>1. b \in Bids /\ bid[b].status = "active"
      BY <1>b, <2>6
    <3>2. SumFunctionOnSet(HeldBy(h)', Bids) =
            SumFunctionOnSet(HeldBy(h), Bids) - HeldBy(h)[b] + HeldBy(h)'[b]
      <4> HIDE DEF b
      <4> QED BY <1>n, <2>2, <2>3, <2>4, <3>1, SumChangeOne
    <3>3. /\ HeldBy(h)[b] = IF h = bid[b].bidder THEN bid[b].amount ELSE 0
          /\ HeldBy(h)'[b] = 0
      <4>1. bid'[b].status = "won"
        BY <1>r, <2>6 DEF SettleTables
      <4> QED BY <3>1, <4>1 DEF HeldBy
    <3>4. /\ wallets'.reserved[h] = IF h = bid[b].bidder THEN wallets.reserved[h] - bid[b].amount
                                    ELSE wallets.reserved[h]
          /\ bid[b].amount \in Int /\ wallets.reserved[h] \in Int
      BY <1>0, <1>m, <2>6 DEF SettleMoney, WalletsType
    <3> HIDE DEF b
    <3> QED BY <2>1, <3>2, <3>3, <3>4
  <2> QED BY <2>5, <2>6
<1>4. WalletSound'
  <2>1. WalletSound /\ \A h \in Guilds : wallets.total[h] \in Int /\ wallets.reserved[h] \in Int
    BY <1>0 DEF CoreInv, WalletsType
  <2>2. CASE b = Null
    BY <1>u, <2>1, <2>2 DEF WalletSound
  <2>3. CASE b # Null
    BY <1>m, <2>1, <2>3 DEF WalletSound, SettleMoney
  <2> QED BY <2>2, <2>3
<1>5. MoneyConserved'
  BY <1>m, <1>u DEF CoreInv, MoneyConserved, SettleMoney
<1> QED BY <1>1, <1>2, <1>3, <1>4, <1>5 DEF CoreInv
-----------------------------------------------------------------------------
(* The market opens in a state that satisfies the core invariant. *)
LEMMA InitCore == Init => CoreInv
<1> SUFFICES ASSUME Init PROVE CoreInv
  OBVIOUS
<1>n. /\ IsFiniteSet(Bids) /\ IsFiniteSet(Guilds) /\ InitTotal \in [Guilds -> Nat]
      /\ InitOwner \in [Items -> Guilds] /\ Null \notin Bids
  BY AuctionAssumption, GuildsAssumption
<1>1. wallets \in WalletsType
  BY <1>n DEF Init, WalletsInit, WalletsType
<1>2. TypeOK
  <2>1. NoAuction \in AuctionRow /\ NoBid \in BidRow
    BY DEF NoAuction, AuctionRow, NoBid, BidRow, Time
  <2> QED BY <1>n, <1>1, <2>1 DEF Init, TypeOK, Time, ItemRow
<1>3. RowsConsistent
  BY DEF Init, RowsConsistent, NoAuction, NoBid
<1>4. ReservedBacked
  <2> SUFFICES ASSUME NEW g \in Guilds
               PROVE  wallets.reserved[g] = SumFunctionOnSet(HeldBy(g), Bids)
    BY DEF ReservedBacked
  <2>1. \A b \in Bids : HeldBy(g)[b] = 0
    BY DEF Init, HeldBy, NoBid
  <2> QED BY <1>n, <2>1, SumZero DEF Init, WalletsInit
<1>5. WalletSound
  BY <1>n DEF Init, WalletsInit, WalletSound
<1>6. MoneyConserved
  BY DEF Init, WalletsInit, MoneyConserved
<1> QED BY <1>2, <1>3, <1>4, <1>5, <1>6 DEF CoreInv

(* Every step preserves the core invariant. *)
LEMMA NextCore == CoreInv /\ [Next]_vars => CoreInv'
<1> SUFFICES ASSUME CoreInv, [Next]_vars PROVE CoreInv'
  OBVIOUS
<1>1. ASSUME NEW g \in Guilds, NEW i \in Items, NEW a \in Auctions, NEW t \in 0 .. now,
             CreateAuction(g, i, a, t)
      PROVE  CoreInv'
  BY <1>1, CreateAuctionCore
<1>2. ASSUME NEW a \in Auctions, NEW g \in Guilds, NEW x \in Amounts, NEW b \in Bids,
             NEW t \in 0 .. now, PlaceBid(a, g, x, b, t)
      PROVE  CoreInv'
  BY <1>2, PlaceBidCore
<1>3. ASSUME NEW a \in Auctions, NEW b \in Bids, NEW g \in Guilds, CancelBid(a, b, g)
      PROVE  CoreInv'
  BY <1>3, CancelBidCore
<1>4. ASSUME NEW a \in Auctions, NEW t \in 0 .. now, SettleAuction(a, t)
      PROVE  CoreInv'
  BY <1>4, SettleCore
<1>5. CASE Tick \/ UNCHANGED vars
  <2>1. wallets' = wallets /\ item' = item /\ auction' = auction /\ bid' = bid /\ now' \in Nat
    BY <1>5 DEF Tick, vars, CoreInv, TypeOK, Time
  <2> QED
    BY <2>1 DEF CoreInv, TypeOK, Time, RowsConsistent, ReservedBacked, HeldBy, WalletSound,
                MoneyConserved
<1> QED BY <1>1, <1>2, <1>3, <1>4, <1>5 DEF Next

(* The core invariant holds in every reachable state: types, references   *)
(* between rows, reservations, solvency and money together are inductive. *)
THEOREM CoreInvariant == Spec => []CoreInv
<1>1. Init => CoreInv
  BY InitCore
<1>2. CoreInv /\ [Next]_vars => CoreInv'
  BY NextCore
<1> QED BY <1>1, <1>2, PTL DEF Spec

(* Every reservation is backed by exactly the guild's active bids, in every *)
(* reachable state of every instance: no operation of auction.go leaks or   *)
(* double-releases reserved money.                                          *)
THEOREM ReservedAlwaysBacked == Spec => []ReservedBacked
<1>1. CoreInv => ReservedBacked
  BY DEF CoreInv
<1> QED BY <1>1, CoreInvariant, PTL

(* No wallet is ever over-committed or negative. *)
THEOREM WalletsAlwaysSound == Spec => []WalletSound
<1>1. CoreInv => WalletSound
  BY DEF CoreInv
<1> QED BY <1>1, CoreInvariant, PTL

(* Bidding and settling never create or destroy money. *)
THEOREM MoneyAlwaysConserved == Spec => []MoneyConserved
<1>1. CoreInv => MoneyConserved
  BY DEF CoreInv
<1> QED BY <1>1, CoreInvariant, PTL

(* The reserve of the leader of an open auction always covers its bid: a due *)
(* settlement and the release of an outbid leader cannot fail.               *)
THEOREM LeadersAlwaysFunded == Spec => []LeaderFunded
<1>1. CoreInv => LeaderFunded
  BY LeaderAlwaysFunded
<1> QED BY <1>1, CoreInvariant, PTL

(* A bid is active exactly while it leads an open auction. *)
THEOREM ActiveBidsAlwaysLead == Spec => []ActiveBidLeads
<1>1. CoreInv => ActiveBidLeads
  <2> SUFFICES ASSUME TypeOK, RowsConsistent PROVE ActiveBidLeads
    BY DEF CoreInv
  <2>1. ASSUME NEW b \in Bids, bid[b].status = "active"
        PROVE  \E a \in Auctions : auction[a].status = "active" /\ auction[a].highest = b
                                   /\ bid[b].auction = a
    BY <2>1 DEF RowsConsistent
  <2>2. ASSUME NEW b \in Bids, NEW a \in Auctions, auction[a].status = "active",
               auction[a].highest = b
        PROVE  bid[b].status = "active"
    BY <2>2, AuctionAssumption DEF RowsConsistent
  <2> QED BY <2>1, <2>2 DEF ActiveBidLeads
<1> QED BY <1>1, CoreInvariant, PTL
-----------------------------------------------------------------------------
(* Action properties.  Only PlaceBid changes a leader or moves an end. *)
LEMMA OnlyBidsLead ==
  ASSUME CoreInv, [Next]_vars, NEW c \in Auctions,
         \/ auction'[c].highest # auction[c].highest
         \/ auction[c].status = "active" /\ auction'[c].endsAt # auction[c].endsAt
  PROVE  \E g \in Guilds, x \in Amounts, b \in Bids, t \in 0 .. now : PlaceBid(c, g, x, b, t)
<1>0. auction \in [Auctions -> AuctionRow] /\ RowsConsistent
  BY DEF CoreInv, TypeOK
<1>1. ASSUME NEW g \in Guilds, NEW i \in Items, NEW a \in Auctions, NEW t \in 0 .. now,
             CreateAuction(g, i, a, t)
      PROVE  FALSE
  <2>1. auction[a].status = "absent" /\ auction[a].highest = Null
    BY <1>0, <1>1 DEF CreateAuction, RowsConsistent
  <2>2. c # a => auction'[c] = auction[c]
    BY <1>0, <1>1 DEF CreateAuction
  <2>3. auction'[a].highest = Null
    BY <1>0, <1>1 DEF CreateAuction
  <2> QED BY <2>1, <2>2, <2>3
<1>2. ASSUME NEW a \in Auctions, NEW g \in Guilds, NEW x \in Amounts, NEW b \in Bids,
             NEW t \in 0 .. now, PlaceBid(a, g, x, b, t)
      PROVE  a = c
  <2>1. PlaceBidTables(a, g, x, b, t)
    BY <1>2, PlaceBidRows
  <2> QED BY <2>1 DEF PlaceBidTables
<1>3. ASSUME NEW a \in Auctions, NEW b \in Bids, NEW g \in Guilds, CancelBid(a, b, g)
      PROVE  FALSE
  BY <1>3 DEF CancelBid
<1>4. ASSUME NEW a \in Auctions, NEW t \in 0 .. now, SettleAuction(a, t)
      PROVE  FALSE
  <2>1. SettleTables(a, t)
    BY <1>4, SettleRows
  <2>2. auction'[c].highest = auction[c].highest /\ auction'[c].endsAt = auction[c].endsAt
    BY <2>1 DEF SettleTables
  <2> QED BY <2>2
<1>5. ~Tick /\ ~UNCHANGED vars
  BY DEF Tick, vars
<1> QED BY <1>1, <1>2, <1>3, <1>4, <1>5 DEF Next

(* An accepted bid exceeds the leader it replaces by at least 5%. *)
LEMMA PlaceBidRaises ==
  ASSUME CoreInv, NEW a \in Auctions, NEW g \in Guilds, NEW x \in Amounts,
         NEW b \in Bids, NEW t \in 0 .. now, PlaceBid(a, g, x, b, t),
         auction[a].highest # Null
  PROVE  /\ bid[auction[a].highest].amount \in Nat /\ x \in Int
         /\ 100 * x >= 105 * bid[auction[a].highest].amount
<1> DEFINE lead == bid[auction[a].highest]
           current == lead.amount
<1>1. /\ x \in Int /\ x >= MinNextBid(current) /\ auction[a].status = "active"
  BY HalfAssumption, AuctionAssumption DEF PlaceBid, EnsureBidBeatsCurrent, CurrentAmount
<1>2. auction[a].highest \in Bids /\ lead.status = "active"
  BY <1>1, LeaderActive DEF CoreInv
<1>3. /\ current > 0 /\ current \in Int /\ lead.bidder \in Guilds
      /\ current <= wallets.reserved[lead.bidder]
  BY <1>2, ActiveCovered DEF CoreInv
<1>4. /\ wallets.total[lead.bidder] \in Nat /\ wallets.reserved[lead.bidder] \in Nat
      /\ wallets.total[lead.bidder] <= Money /\ RowSound(wallets, lead.bidder)
  BY <1>3, WalletBound DEF CoreInv
<1> HIDE DEF current, lead
<1>5. current \in Nat /\ 105 * current + 99 < Half
  <2>1. current <= Money
    BY <1>3, <1>4, MoneyNat DEF RowSound
  <2> QED BY <1>3, <2>1, MoneyNat, HalfAssumption
<1>6. 100 * x >= 105 * current
  BY <1>1, <1>5, MinNextBidExact
<1> QED BY <1>1, <1>5, <1>6 DEF current, lead

(* The new leader's amount against that of the leader it replaces. *)
LEMMA RaiseStep ==
  ASSUME CoreInv, [Next]_vars, NEW a \in Auctions,
         auction'[a].highest # auction[a].highest, auction[a].highest # Null
  PROVE  100 * bid'[auction'[a].highest].amount >= 105 * bid[auction[a].highest].amount
<1>1. PICK g \in Guilds, x \in Amounts, b \in Bids, t \in 0 .. now : PlaceBid(a, g, x, b, t)
  BY OnlyBidsLead
<1>2. auction'[a].highest = b /\ bid'[b].amount = x
  <2>1. PlaceBidTables(a, g, x, b, t)
    BY <1>1, PlaceBidRows
  <2> QED BY <2>1 DEF PlaceBidTables, NewBid
<1> QED BY <1>1, <1>2, PlaceBidRaises

(* Whoever takes the lead bids at least 5% more, exactly: the rounding of   *)
(* MinNextBid and the width of int64 never let a smaller raise through.     *)
THEOREM AlwaysRaisedByFivePercent == Spec => RaisedByFivePercent
<1>1. CoreInv /\ [Next]_vars =>
        [\A a \in Auctions :
           LET old == auction[a].highest
               new == auction'[a].highest
           IN  new # old /\ old # Null => 100 * bid'[new].amount >= 105 * bid[old].amount]_vars
  BY RaiseStep
<1> QED BY <1>1, CoreInvariant, PTL DEF Spec, RaisedByFivePercent

(* When a bid takes the lead and what it does to the end of the auction. *)
LEMMA EndStep ==
  ASSUME CoreInv, [Next]_vars, NEW a \in Auctions, auction[a].status = "active"
  PROVE  LET t == auction'[a].updatedAt
         IN  /\ auction'[a].highest # auction[a].highest =>
                   /\ t < auction[a].endsAt
                   /\ auction'[a].endsAt >= t + Extension
             /\ auction'[a].endsAt # auction[a].endsAt =>
                   /\ auction'[a].highest # auction[a].highest
                   /\ auction'[a].endsAt > auction[a].endsAt
                   /\ auction'[a].endsAt = t + Extension
<1> SUFFICES ASSUME \/ auction'[a].highest # auction[a].highest
                    \/ auction'[a].endsAt # auction[a].endsAt
             PROVE  LET t == auction'[a].updatedAt
                        e == auction'[a].endsAt
                    IN  /\ auction'[a].highest # auction[a].highest
                        /\ t < auction[a].endsAt /\ e >= t + Extension
                        /\ e # auction[a].endsAt => e > auction[a].endsAt /\ e = t + Extension
  OBVIOUS
<1>1. PICK g \in Guilds, x \in Amounts, b \in Bids, t \in 0 .. now : PlaceBid(a, g, x, b, t)
  BY OnlyBidsLead
<1>2. PlaceBidTables(a, g, x, b, t)
  BY <1>1, PlaceBidRows
<1>3. auction[a].endsAt \in Nat /\ t \in Nat /\ Extension \in Nat
  BY AuctionAssumption DEF CoreInv, TypeOK, AuctionRow, Time
<1> DEFINE e == MaybeExtend(t, auction[a].endsAt, Extension, Extension)
<1>4. /\ e \in Nat /\ e >= auction[a].endsAt /\ e >= t + Extension
      /\ e \in {auction[a].endsAt, t + Extension}
  BY <1>3, MaybeExtendBounds
<1>5. t < auction[a].endsAt
  BY <1>1, <1>3 DEF PlaceBid, AuctionEnded
<1>6. /\ auction'[a].updatedAt = t /\ auction'[a].endsAt = e /\ auction'[a].highest = b
      /\ b # auction[a].highest
  BY <1>2 DEF PlaceBidTables
<1> HIDE DEF e
<1> QED BY <1>3, <1>4, <1>5, <1>6

(* Anti-snipe: a bid is taken before the end and leaves Extension on the    *)
(* clock; the end moves only with a bid, and only later.                    *)
THEOREM AlwaysAntiSnipe == Spec => AntiSnipe
<1>1. CoreInv /\ [Next]_vars =>
        [\A a \in Auctions : auction[a].status = "active" =>
           LET t == auction'[a].updatedAt
           IN  /\ auction'[a].highest # auction[a].highest =>
                     /\ t < auction[a].endsAt
                     /\ auction'[a].endsAt >= t + Extension
               /\ auction'[a].endsAt # auction[a].endsAt =>
                     /\ auction'[a].highest # auction[a].highest
                     /\ auction'[a].endsAt > auction[a].endsAt
                     /\ auction'[a].endsAt = t + Extension]_vars
  BY EndStep
<1> QED BY <1>1, CoreInvariant, PTL DEF Spec, AntiSnipe
-----------------------------------------------------------------------------
(* Items, leaders and ends.  The same facts as ItemInOneAuction, without    *)
(* sets of auctions.                                                        *)
OneOpen ==
  /\ \A a \in Auctions : auction[a].status = "active" =>
       /\ item[auction[a].item].status = "in_auction"
       /\ auction[a].seller = item[auction[a].item].owner
  /\ \A a, c \in Auctions :
       auction[a].status = "active" /\ auction[c].status = "active"
         /\ auction[a].item = auction[c].item => a = c
  /\ \A i \in Items : item[i].status = "in_auction" =>
       \E a \in Auctions : auction[a].status = "active" /\ auction[a].item = i

(* The inductive form of ItemInOneAuction implies it. *)
LEMMA OneOpenIsItemInOneAuction ==
  ASSUME CoreInv, OneOpen
  PROVE  ItemInOneAuction
<1> SUFFICES ASSUME NEW i \in Items
             PROVE LET open == {a \in Auctions : auction[a].status = "active" /\ auction[a].item = i}
                   IN  /\ item[i].status = "in_auction" <=> open # {}
                       /\ \A a, c \in open : a = c
                       /\ \A a \in open : auction[a].seller = item[i].owner
  BY DEF ItemInOneAuction
<1> QED BY DEF OneOpen

MarketInv == CoreInv /\ OneOpen /\ HighestIsMax /\ NeverSettledEarly

(* CreateAuction preserves the market invariant. *)
LEMMA CreateAuctionMarket ==
  ASSUME MarketInv, NEW g \in Guilds, NEW i \in Items, NEW a \in Auctions,
         NEW t \in 0 .. now, CreateAuction(g, i, a, t)
  PROVE  MarketInv'
<1>0. /\ CoreInv /\ auction \in [Auctions -> AuctionRow] /\ item \in [Items -> ItemRow]
      /\ RowsConsistent
  BY DEF MarketInv, CoreInv, TypeOK
<1>1. /\ bid' = bid /\ item[i].owner = g /\ item[i].status = "available"
      /\ auction[a].status = "absent"
      /\ item'[i].status = "in_auction" /\ item'[i].owner = g
      /\ \A j \in Items : j # i => item'[j] = item[j]
      /\ auction'[a].item = i /\ auction'[a].seller = g /\ auction'[a].status = "active"
      /\ \A c \in Auctions : c # a => auction'[c] = auction[c]
  BY <1>0 DEF CreateAuction, ItemRow
<1>2. \A c \in Auctions : auction[c].status = "active" => auction[c].item # i /\ auction[c].item \in Items
  BY <1>0, <1>1 DEF MarketInv, OneOpen, RowsConsistent
<1>3. OneOpen'
  <2>1. \A c \in Auctions : auction'[c].status = "active" =>
          /\ item'[auction'[c].item].status = "in_auction"
          /\ auction'[c].seller = item'[auction'[c].item].owner
    BY <1>1, <1>2 DEF MarketInv, OneOpen
  <2>2. \A c, d \in Auctions :
          auction'[c].status = "active" /\ auction'[d].status = "active"
            /\ auction'[c].item = auction'[d].item => c = d
    BY <1>1, <1>2 DEF MarketInv, OneOpen
  <2>3. ASSUME NEW j \in Items, item'[j].status = "in_auction"
        PROVE  \E c \in Auctions : auction'[c].status = "active" /\ auction'[c].item = j
    <3>1. CASE j = i
      BY <1>1, <3>1
    <3>2. CASE j # i
      <4>1. PICK c \in Auctions : auction[c].status = "active" /\ auction[c].item = j
        BY <1>1, <2>3, <3>2 DEF MarketInv, OneOpen
      <4> QED BY <1>1, <4>1
    <3> QED BY <3>1, <3>2
  <2> QED BY <2>1, <2>2, <2>3 DEF OneOpen
<1>4. HighestIsMax'
  <2>1. \A b \in Bids : bid[b].status # "absent" => bid[b].auction # a
    BY <1>0, <1>1 DEF RowsConsistent
  <2> QED BY <1>1, <2>1 DEF MarketInv, HighestIsMax
<1>5. NeverSettledEarly'
  BY <1>1 DEF MarketInv, NeverSettledEarly
<1>6. CoreInv'
  BY <1>0, CreateAuctionCore
<1> QED BY <1>3, <1>4, <1>5, <1>6 DEF MarketInv

(* PlaceBid preserves the market invariant. *)
LEMMA PlaceBidMarket ==
  ASSUME MarketInv, NEW a \in Auctions, NEW g \in Guilds, NEW x \in Amounts,
         NEW b \in Bids, NEW t \in 0 .. now, PlaceBid(a, g, x, b, t)
  PROVE  MarketInv'
<1>0. CoreInv /\ RowsConsistent /\ bid \in [Bids -> BidRow]
  BY DEF MarketInv, CoreInv, TypeOK
<1>r. PlaceBidTables(a, g, x, b, t)
  BY <1>0, PlaceBidRows
<1>n. Null \notin Bids
  BY AuctionAssumption
<1>1. /\ item' = item /\ auction'[a].status = "active" /\ auction[a].status = "active"
      /\ auction'[a].highest = b /\ bid'[b].amount = x /\ bid'[b].auction = a
      /\ \A c \in Auctions : /\ auction'[c].item = auction[c].item
                             /\ auction'[c].seller = auction[c].seller
                             /\ auction'[c].status = auction[c].status
                             /\ c # a => auction'[c] = auction[c]
      /\ \A d \in Bids : d # b => /\ bid'[d].auction = bid[d].auction
                                  /\ bid'[d].amount = bid[d].amount
                                  /\ bid'[d].status # "absent" <=> bid[d].status # "absent"
  <2>1. auction[a].highest # Null =>
          /\ auction[a].highest \in Bids /\ bid[auction[a].highest].auction = a
          /\ bid[auction[a].highest].status = "active"
    BY <1>0, <1>r, LeaderActive DEF CoreInv, PlaceBidTables
  <2>2. ASSUME NEW d \in Bids, d # b
        PROVE  /\ bid'[d].auction = bid[d].auction /\ bid'[d].amount = bid[d].amount
               /\ bid'[d].status # "absent" <=> bid[d].status # "absent"
    <3>1. CASE d = auction[a].highest
      BY <1>n, <1>r, <2>1, <2>2, <3>1 DEF PlaceBidTables
    <3>2. CASE d # auction[a].highest
      BY <1>r, <2>2, <3>2 DEF PlaceBidTables
    <3> QED BY <3>1, <3>2
  <2>3. item' = item
    BY DEF PlaceBid
  <2> QED BY <1>r, <2>2, <2>3 DEF PlaceBidTables, NewBid
<1>2. OneOpen'
  BY <1>1 DEF MarketInv, OneOpen
<1>3. HighestIsMax'
  <2> SUFFICES ASSUME NEW c \in Auctions, NEW d \in Bids, bid'[d].status # "absent",
                      bid'[d].auction = c
               PROVE  auction'[c].highest # Null
                      /\ bid'[d].amount <= bid'[auction'[c].highest].amount
    BY DEF HighestIsMax
  <2>x. x \in Int
    BY HalfAssumption, AuctionAssumption
  <2>1. CASE d = b
    BY <1>1, <1>n, <2>1, <2>x
  <2>2. CASE d # b /\ c = a
    <3>1. bid[d].status # "absent" /\ bid[d].auction = a /\ bid'[d].amount = bid[d].amount
      BY <1>1, <2>2
    <3>2. /\ auction[a].highest # Null
          /\ bid[d].amount <= bid[auction[a].highest].amount
      BY <3>1 DEF MarketInv, HighestIsMax
    <3>3. /\ bid[auction[a].highest].amount \in Nat /\ bid[d].amount \in Int
          /\ 100 * x >= 105 * bid[auction[a].highest].amount
      BY <1>0, <3>2, PlaceBidRaises DEF BidRow
    <3> QED BY <1>1, <1>n, <2>2, <2>x, <3>1, <3>2, <3>3
  <2>3. CASE d # b /\ c # a
    <3>1. /\ bid[d].status # "absent" /\ bid[d].auction = c /\ bid'[d].amount = bid[d].amount
          /\ auction'[c] = auction[c]
      BY <1>1, <2>3
    <3>2. auction[c].highest # Null /\ bid[d].amount <= bid[auction[c].highest].amount
      BY <3>1 DEF MarketInv, HighestIsMax
    <3>3. auction[c].highest \in Bids /\ auction[c].highest # b
      BY <1>0, <1>r, <2>3, <3>2, AuctionAssumption
         DEF RowsConsistent, PlaceBidTables, CoreInv, TypeOK, AuctionRow
    <3> QED BY <1>1, <3>1, <3>2, <3>3
  <2> QED BY <2>1, <2>2, <2>3
<1>4. NeverSettledEarly'
  BY <1>1 DEF MarketInv, NeverSettledEarly
<1>5. CoreInv'
  BY <1>0, PlaceBidCore
<1> QED BY <1>2, <1>3, <1>4, <1>5 DEF MarketInv

(* CancelBid preserves the market invariant. *)
LEMMA CancelBidMarket ==
  ASSUME MarketInv, NEW a \in Auctions, NEW b \in Bids, NEW g \in Guilds, CancelBid(a, b, g)
  PROVE  MarketInv'
<1>0. CoreInv /\ bid \in [Bids -> BidRow]
  BY DEF MarketInv, CoreInv, TypeOK
<1>1. /\ auction' = auction /\ item' = item /\ bid[b].status # "absent"
      /\ bid' = [bid EXCEPT ![b].status = "cancelled"]
  BY <1>0, CancelBidEffect
<1>2. \A d \in Bids : /\ bid'[d].auction = bid[d].auction /\ bid'[d].amount = bid[d].amount
                      /\ bid'[d].status # "absent" <=> bid[d].status # "absent"
  BY <1>0, <1>1 DEF BidRow
<1>3. HighestIsMax'
  <2>1. \A c \in Auctions : auction[c].highest # Null => auction[c].highest \in Bids
    BY <1>0 DEF CoreInv, TypeOK, AuctionRow
  <2> QED BY <1>1, <1>2, <2>1 DEF MarketInv, HighestIsMax
<1>4. OneOpen' /\ NeverSettledEarly'
  BY <1>1 DEF MarketInv, OneOpen, NeverSettledEarly
<1> QED BY <1>0, <1>3, <1>4, CancelBidCore DEF MarketInv

(* SettleAuction preserves the market invariant. *)
LEMMA SettleMarket ==
  ASSUME MarketInv, NEW a \in Auctions, NEW t \in 0 .. now, SettleAuction(a, t)
  PROVE  MarketInv'
<1> DEFINE i == auction[a].item
<1>0. CoreInv /\ RowsConsistent /\ bid \in [Bids -> BidRow] /\ auction \in [Auctions -> AuctionRow]
  BY DEF MarketInv, CoreInv, TypeOK
<1>r. SettleTables(a, t)
  BY <1>0, SettleRows
<1>1. /\ auction[a].status = "active" /\ auction'[a].status = "settled" /\ i \in Items
      /\ item'[i].status = "available"
      /\ \A j \in Items : j # i => item'[j] = item[j]
      /\ \A c \in Auctions : /\ c # a => auction'[c] = auction[c]
                             /\ auction'[c].highest = auction[c].highest
  BY <1>r DEF SettleTables
<1>2. \A d \in Bids : /\ bid'[d].auction = bid[d].auction /\ bid'[d].amount = bid[d].amount
                      /\ bid'[d].status # "absent" <=> bid[d].status # "absent"
  <2> TAKE d \in Bids
  <2>1. CASE d = auction[a].highest
    <3>1. auction[a].highest # Null /\ bid[d].auction = a /\ bid[d].status = "active"
      BY <1>0, <1>1, <2>1, LeaderActive, AuctionAssumption DEF CoreInv
    <3> QED BY <1>r, <2>1, <3>1 DEF SettleTables
  <2>2. CASE d # auction[a].highest
    BY <1>r, <2>2 DEF SettleTables
  <2> QED BY <2>1, <2>2
<1>3. OneOpen'
  <2>1. \A c \in Auctions : c # a /\ auction[c].status = "active" =>
          auction[c].item # i /\ auction[c].item \in Items
    BY <1>0, <1>1 DEF MarketInv, OneOpen, RowsConsistent
  <2> HIDE DEF i
  <2>2. \A c \in Auctions : auction'[c].status = "active" =>
          /\ item'[auction'[c].item].status = "in_auction"
          /\ auction'[c].seller = item'[auction'[c].item].owner
    BY <1>1, <2>1 DEF MarketInv, OneOpen
  <2>3. \A c, d \in Auctions :
          auction'[c].status = "active" /\ auction'[d].status = "active"
            /\ auction'[c].item = auction'[d].item => c = d
    BY <1>1 DEF MarketInv, OneOpen
  <2>4. ASSUME NEW j \in Items, item'[j].status = "in_auction"
        PROVE  \E c \in Auctions : auction'[c].status = "active" /\ auction'[c].item = j
    <3>1. j # i
      BY <1>1, <2>4
    <3>2. PICK c \in Auctions : auction[c].status = "active" /\ auction[c].item = j
      BY <1>1, <2>4, <3>1 DEF MarketInv, OneOpen
    <3>3. c # a
      BY <3>1, <3>2 DEF i
    <3> QED BY <1>1, <3>2, <3>3
  <2> QED BY <2>2, <2>3, <2>4 DEF OneOpen
<1>4. HighestIsMax'
  <2>1. \A c \in Auctions : auction[c].highest # Null => auction[c].highest \in Bids
    BY <1>0 DEF AuctionRow
  <2> QED BY <1>1, <1>2, <2>1 DEF MarketInv, HighestIsMax
<1>5. NeverSettledEarly'
  BY <1>r DEF SettleTables, MarketInv, NeverSettledEarly
<1>6. CoreInv'
  BY <1>0, SettleCore
<1> QED BY <1>3, <1>4, <1>5, <1>6 DEF MarketInv

LEMMA HouseInitial == Init => MarketInv
<1> SUFFICES ASSUME Init PROVE MarketInv
  OBVIOUS
<1>1. OneOpen /\ HighestIsMax /\ NeverSettledEarly
  BY DEF Init, OneOpen, HighestIsMax, NeverSettledEarly, NoAuction, NoBid
<1> QED BY <1>1, InitCore DEF MarketInv

LEMMA HouseStep == MarketInv /\ [Next]_vars => MarketInv'
<1> SUFFICES ASSUME MarketInv, [Next]_vars PROVE MarketInv'
  OBVIOUS
<1>1. CASE Tick \/ UNCHANGED vars
  <2>1. item' = item /\ auction' = auction /\ bid' = bid
    BY <1>1 DEF Tick, vars
  <2>2. CoreInv'
    BY NextCore DEF MarketInv
  <2> QED BY <2>1, <2>2 DEF MarketInv, OneOpen, HighestIsMax, NeverSettledEarly
<1> QED
  BY <1>1, CreateAuctionMarket, PlaceBidMarket, CancelBidMarket, SettleMarket DEF Next

(* The core invariant together with one open auction per item, the *)
(* highest bid leading and no early settlement is inductive.       *)
THEOREM MarketInvariant == Spec => []MarketInv
  BY HouseInitial, HouseStep, PTL DEF Spec

(* One open auction per item, sold by the item's owner, and every item      *)
(* marked in_auction has it: the partial unique index never fires.          *)
THEOREM ItemsAlwaysInOneAuction == Spec => []ItemInOneAuction
<1>1. MarketInv => ItemInOneAuction
  BY OneOpenIsItemInOneAuction DEF MarketInv
<1> QED BY <1>1, MarketInvariant, PTL

(* The leader, and so the winner, made the highest bid ever taken. *)
THEOREM HighestAlwaysMax == Spec => []HighestIsMax
<1>1. MarketInv => HighestIsMax
  BY DEF MarketInv
<1> QED BY <1>1, MarketInvariant, PTL

(* Every variable keeps its type: no reference to a row goes astray. *)
THEOREM TypeAlwaysOK == Spec => []TypeOK
<1>1. CoreInv => TypeOK
  BY DEF CoreInv
<1> QED BY <1>1, CoreInvariant, PTL

(* No auction is settled before its end, extended or not. *)
THEOREM NeverSettledBeforeEnd == Spec => []NeverSettledEarly
<1>1. MarketInv => NeverSettledEarly
  BY DEF MarketInv
<1> QED BY <1>1, MarketInvariant, PTL

-----------------------------------------------------------------------------
(* Only a settlement with a winner moves a balance or an item. *)
LEMMA OnlySettlementsTransfer ==
  ASSUME CoreInv, [Next]_vars,
         \/ wallets'.total # wallets.total
         \/ \E i \in Items : item'[i].owner # item[i].owner
  PROVE  \E a \in Auctions, t \in 0 .. now : SettleAuction(a, t) /\ auction[a].highest # Null
<1>0. item \in [Items -> ItemRow]
  BY DEF CoreInv, TypeOK
<1>1. ASSUME NEW g \in Guilds, NEW i \in Items, NEW a \in Auctions, NEW t \in 0 .. now,
             CreateAuction(g, i, a, t)
      PROVE  FALSE
  BY <1>0, <1>1 DEF CreateAuction, ItemRow
<1>2. ASSUME NEW a \in Auctions, NEW g \in Guilds, NEW x \in Amounts, NEW b \in Bids,
             NEW t \in 0 .. now, PlaceBid(a, g, x, b, t)
      PROVE  FALSE
  <2>1. PlaceBidMoney(a, g, x, b, t)
    BY <1>2, PlaceBidEffect
  <2> QED BY <1>2, <2>1 DEF PlaceBid, PlaceBidMoney
<1>3. ASSUME NEW a \in Auctions, NEW b \in Bids, NEW g \in Guilds, CancelBid(a, b, g)
      PROVE  FALSE
  BY <1>3, CancelBidEffect
<1>4. ASSUME NEW a \in Auctions, NEW t \in 0 .. now, SettleAuction(a, t), auction[a].highest = Null
      PROVE  FALSE
  BY <1>0, <1>4 DEF SettleAuction, ItemRow
<1>5. ~Tick /\ ~UNCHANGED vars
  BY DEF Tick, vars
<1> QED BY <1>1, <1>2, <1>3, <1>4, <1>5 DEF Next

(* What the step that gives an item a new owner does to the money. *)
LEMMA TransferStep ==
  ASSUME MarketInv, [Next]_vars, NEW i \in Items, item'[i].owner # item[i].owner
  PROVE  \E a \in Auctions :
           LET win == bid[auction[a].highest]
           IN  /\ auction[a].item = i
               /\ auction[a].status = "active" /\ auction'[a].status = "settled"
               /\ item'[i].owner = win.bidder
               /\ wallets'.total[win.bidder] = wallets.total[win.bidder] - win.amount
               /\ wallets'.total[item[i].owner] = wallets.total[item[i].owner] + win.amount
<1>1. PICK a \in Auctions, t \in 0 .. now : SettleAuction(a, t) /\ auction[a].highest # Null
  BY OnlySettlementsTransfer DEF MarketInv
<1>2. SettleTables(a, t) /\ SettleMoney(a)
  BY <1>1, SettleRows, SettleMoneyMoves DEF MarketInv
<1>3. /\ auction[a].item = i /\ auction[a].status = "active" /\ auction'[a].status = "settled"
      /\ item'[i].owner = bid[auction[a].highest].bidder
  BY <1>1, <1>2 DEF SettleTables
<1>4. auction[a].seller = item[i].owner
  BY <1>3 DEF MarketInv, OneOpen
<1> QED BY <1>2, <1>3, <1>4 DEF SettleMoney

(* An item changes hands only when its auction is settled, and then the old *)
(* owner gains exactly what the new owner loses.                            *)
THEOREM AlwaysTransferWithPayment == Spec => TransferWithPayment
<1>1. MarketInv /\ [Next]_vars =>
        [\A i \in Items : item'[i].owner # item[i].owner =>
           \E a \in Auctions :
             LET win == bid[auction[a].highest]
             IN  /\ auction[a].item = i
                 /\ auction[a].status = "active" /\ auction'[a].status = "settled"
                 /\ item'[i].owner = win.bidder
                 /\ wallets'.total[win.bidder] = wallets.total[win.bidder] - win.amount
                 /\ wallets'.total[item[i].owner] = wallets.total[item[i].owner] + win.amount]_vars
  BY TransferStep
<1> QED BY <1>1, MarketInvariant, PTL DEF Spec, TransferWithPayment

(* Settled auctions and their bids never change again. *)
LEMMA SettledFinal ==
  ASSUME CoreInv, [Next]_vars, NEW c \in Auctions, auction[c].status = "settled"
  PROVE  /\ auction'[c] = auction[c]
         /\ \A d \in Bids : bid[d].auction = c => bid'[d] = bid[d]
<1>0. /\ auction \in [Auctions -> AuctionRow] /\ bid \in [Bids -> BidRow] /\ RowsConsistent
      /\ Null \notin Auctions
  BY AuctionAssumption DEF CoreInv, TypeOK
<1>1. ASSUME NEW g \in Guilds, NEW i \in Items, NEW a \in Auctions, NEW t \in 0 .. now,
             CreateAuction(g, i, a, t)
      PROVE  /\ auction'[c] = auction[c]
             /\ \A d \in Bids : bid[d].auction = c => bid'[d] = bid[d]
  BY <1>0, <1>1 DEF CreateAuction
<1>2. ASSUME NEW a \in Auctions, NEW g \in Guilds, NEW x \in Amounts, NEW b \in Bids,
             NEW t \in 0 .. now, PlaceBid(a, g, x, b, t)
      PROVE  /\ auction'[c] = auction[c]
             /\ \A d \in Bids : bid[d].auction = c => bid'[d] = bid[d]
  <2>1. PlaceBidTables(a, g, x, b, t)
    BY <1>2, PlaceBidRows
  <2>2. c # a /\ bid[b].auction # c
    BY <1>0, <2>1 DEF PlaceBidTables, RowsConsistent
  <2>3. \A d \in Bids : d = auction[a].highest => bid[d].auction # c
    BY <1>0, <2>1, <2>2, LeaderActive, AuctionAssumption DEF PlaceBidTables, CoreInv
  <2> QED BY <2>1, <2>2, <2>3 DEF PlaceBidTables
<1>3. ASSUME NEW a \in Auctions, NEW b \in Bids, NEW g \in Guilds, CancelBid(a, b, g)
      PROVE  /\ auction'[c] = auction[c]
             /\ \A d \in Bids : bid[d].auction = c => bid'[d] = bid[d]
  <2>1. /\ auction[a].status = "active" /\ bid[b].auction = a /\ auction' = auction
        /\ bid' = [bid EXCEPT ![b].status = "cancelled"]
    BY <1>3, CancelBidEffect
  <2> QED BY <1>0, <2>1
<1>4. ASSUME NEW a \in Auctions, NEW t \in 0 .. now, SettleAuction(a, t)
      PROVE  /\ auction'[c] = auction[c]
             /\ \A d \in Bids : bid[d].auction = c => bid'[d] = bid[d]
  <2>1. SettleTables(a, t)
    BY <1>4, SettleRows
  <2>2. c # a
    BY <2>1 DEF SettleTables
  <2>3. \A d \in Bids : d = auction[a].highest => bid[d].auction # c
    BY <1>0, <2>1, <2>2, LeaderActive, AuctionAssumption DEF SettleTables, CoreInv
  <2> QED BY <2>1, <2>2, <2>3 DEF SettleTables
<1>5. CASE Tick \/ UNCHANGED vars
  BY <1>5 DEF Tick, vars
<1> QED BY <1>1, <1>2, <1>3, <1>4, <1>5 DEF Next

(* Whose balance a step moves, and by how much. *)
LEMMA PayStep ==
  ASSUME CoreInv, [Next]_vars, NEW g \in Guilds, wallets'.total[g] # wallets.total[g]
  PROVE  \E a \in Auctions :
           LET paid == bid[auction[a].highest].amount
           IN  /\ auction[a].status = "active" /\ auction'[a].status = "settled"
               /\ auction'[a].seller = auction[a].seller /\ paid \in Int
               /\ \/ g = auction'[a].winner /\ wallets'.total[g] = wallets.total[g] - paid
                  \/ g = auction[a].seller /\ wallets'.total[g] = wallets.total[g] + paid
<1>1. PICK a \in Auctions, t \in 0 .. now : SettleAuction(a, t) /\ auction[a].highest # Null
  BY OnlySettlementsTransfer
<1>2. SettleTables(a, t) /\ SettleMoney(a)
  BY <1>1, SettleRows, SettleMoneyMoves
<1>3. /\ auction[a].status = "active" /\ auction'[a].status = "settled"
      /\ auction'[a].seller = auction[a].seller
      /\ auction'[a].winner = bid[auction[a].highest].bidder
  BY <1>1, <1>2 DEF SettleTables
<1> DEFINE paid == bid[auction[a].highest].amount
<1>4. /\ paid \in Int
      /\ \/ g = bid[auction[a].highest].bidder /\ wallets'.total[g] = wallets.total[g] - paid
         \/ g = auction[a].seller /\ wallets'.total[g] = wallets.total[g] + paid
  BY <1>2 DEF SettleMoney
<1> HIDE DEF paid
<1>5. /\ auction[a].status = "active" /\ auction'[a].status = "settled"
      /\ auction'[a].seller = auction[a].seller /\ paid \in Int
      /\ \/ g = auction'[a].winner /\ wallets'.total[g] = wallets.total[g] - paid
         \/ g = auction[a].seller /\ wallets'.total[g] = wallets.total[g] + paid
  BY <1>3, <1>4
<1> QED BY <1>5 DEF paid

(* Balances move only between the two parties of an auction settled in that *)
(* step, and a settled auction is never touched again: a buyer pays once.   *)
THEOREM AlwaysPaidOnce == Spec => PaidOnce
<1>1. ASSUME CoreInv, [Next]_vars, NEW g \in Guilds, wallets'.total[g] # wallets.total[g]
      PROVE  \E a \in Auctions : /\ auction[a].status = "active" /\ auction'[a].status = "settled"
                                /\ g \in {auction'[a].seller, auction'[a].winner}
  BY <1>1, PayStep
<1>2. CoreInv /\ [Next]_vars =>
        [/\ \A g \in Guilds : wallets'.total[g] # wallets.total[g] =>
               \E a \in Auctions :
                  /\ auction[a].status = "active" /\ auction'[a].status = "settled"
                  /\ g \in {auction'[a].seller, auction'[a].winner}
         /\ \A a \in Auctions : auction[a].status = "settled" =>
               /\ auction'[a] = auction[a]
               /\ \A b \in Bids : bid[b].auction = a => bid'[b] = bid[b]]_vars
  BY <1>1, SettledFinal
<1> QED BY <1>2, CoreInvariant, PTL DEF Spec, PaidOnce
-----------------------------------------------------------------------------
(* The ledger rows a step adds for guild h explain the change of its row.  *)
LedgerExplains(h) ==
  LET l == wallets.ledger[h]
      m == wallets'.ledger[h]
      gained == m["credit_auction"] - l["credit_auction"]
      paid == m["debit_auction"] - l["debit_auction"]
  IN  /\ wallets'.total[h] = wallets.total[h] + gained - paid
      /\ wallets'.reserved[h] = wallets.reserved[h] + (m["reserve_bid"] - l["reserve_bid"])
                                - (m["release_bid"] - l["release_bid"]) - paid
      /\ m["credit_listing"] = l["credit_listing"] /\ m["debit_listing"] = l["debit_listing"]

LEMMA LedgerMoves ==
  ASSUME CoreInv, [Next]_vars
  PROVE  \A h \in Guilds : LedgerExplains(h)
<1>0. wallets \in WalletsType
  BY DEF CoreInv, TypeOK
<1>k. /\ "reserve_bid" \in LedgerKinds /\ "release_bid" \in LedgerKinds
      /\ "debit_auction" \in LedgerKinds /\ "credit_auction" \in LedgerKinds
      /\ "debit_listing" \in LedgerKinds /\ "credit_listing" \in LedgerKinds
  BY DEF LedgerKinds
<1>t. ASSUME NEW h \in Guilds
      PROVE  /\ wallets.total[h] \in Int /\ wallets.reserved[h] \in Int
             /\ \A k \in LedgerKinds : wallets.ledger[h][k] \in Nat
  BY <1>0 DEF WalletsType
<1>u. ASSUME wallets' = wallets PROVE \A h \in Guilds : LedgerExplains(h)
  BY <1>k, <1>t, <1>u DEF LedgerExplains
<1>2. ASSUME NEW a \in Auctions, NEW g \in Guilds, NEW x \in Amounts, NEW b \in Bids,
             NEW t \in 0 .. now, PlaceBid(a, g, x, b, t)
      PROVE  \A h \in Guilds : LedgerExplains(h)
  <2>1. PlaceBidMoney(a, g, x, b, t)
    BY <1>2, PlaceBidEffect
  <2>2. x \in Nat /\ wallets'.total = wallets.total
    BY <2>1 DEF PlaceBidMoney
  <2>3. CASE auction[a].highest = Null
    <3>1. /\ wallets'.reserved = [wallets.reserved EXCEPT ![g] = wallets.reserved[g] + x]
          /\ wallets'.ledger = Recorded(wallets, g, "reserve_bid", x)
      BY <2>1, <2>3 DEF PlaceBidMoney
    <3>2. \A h \in Guilds, j \in LedgerKinds :
            wallets'.ledger[h][j] = IF h = g /\ j = "reserve_bid"
                                    THEN wallets.ledger[h][j] + x ELSE wallets.ledger[h][j]
      <4>1. wallets'.ledger = Recorded(wallets, g, "reserve_bid", x)
        BY <3>1
      <4> QED BY <1>0, <1>k, <2>2, <4>1, LedgerAfter
    <3>3. \A h \in Guilds : wallets'.reserved[h] =
                              IF h = g THEN wallets.reserved[h] + x ELSE wallets.reserved[h]
      BY <1>0, <3>1 DEF WalletsType
    <3> QED BY <1>k, <1>t, <2>2, <3>2, <3>3 DEF LedgerExplains
  <2>4. CASE auction[a].highest # Null
    <3> DEFINE p == bid[auction[a].highest]
               r == [wallets.reserved EXCEPT ![g] = wallets.reserved[g] + x]
               v == Reserve(wallets, g, x, "reserve_bid")
    <3>1. /\ p.bidder \in Guilds /\ p.amount \in Nat
          /\ wallets'.reserved = [r EXCEPT ![p.bidder] = r[p.bidder] - p.amount]
          /\ v \in WalletsType
          /\ v.ledger = Recorded(wallets, g, "reserve_bid", x)
          /\ wallets'.ledger = Recorded(v, p.bidder, "release_bid", p.amount)
      BY <2>1, <2>4 DEF PlaceBidMoney
    <3>2. /\ r \in [Guilds -> Int]
          /\ \A h \in Guilds : r[h] = IF h = g THEN wallets.reserved[h] + x ELSE wallets.reserved[h]
      BY <1>0, <2>2 DEF WalletsType
    <3> HIDE DEF p, r, v
    <3>3. \A h \in Guilds, j \in LedgerKinds :
            v.ledger[h][j] = IF h = g /\ j = "reserve_bid"
                             THEN wallets.ledger[h][j] + x ELSE wallets.ledger[h][j]
      <4>1. v.ledger = Recorded(wallets, g, "reserve_bid", x)
        BY <3>1
      <4> QED BY <1>0, <1>k, <2>2, <4>1, LedgerAfter
    <3>4. \A h \in Guilds, j \in LedgerKinds :
            wallets'.ledger[h][j] = IF h = p.bidder /\ j = "release_bid"
                                    THEN v.ledger[h][j] + p.amount ELSE v.ledger[h][j]
      <4>1. wallets'.ledger = Recorded(v, p.bidder, "release_bid", p.amount)
        BY <3>1
      <4>2. v \in WalletsType /\ p.bidder \in Guilds /\ p.amount \in Nat
        BY <3>1
      <4> QED BY <1>k, <4>1, <4>2, LedgerAfter
    <3>5. \A h \in Guilds : wallets'.reserved[h] =
                              IF h = p.bidder THEN r[h] - p.amount ELSE r[h]
      BY <3>1, <3>2
    <3>6. ASSUME NEW h \in Guilds
          PROVE  /\ wallets'.ledger[h]["credit_listing"] = wallets.ledger[h]["credit_listing"]
                 /\ wallets'.ledger[h]["debit_listing"] = wallets.ledger[h]["debit_listing"]
                 /\ wallets'.ledger[h]["credit_auction"] = wallets.ledger[h]["credit_auction"]
                 /\ wallets'.ledger[h]["debit_auction"] = wallets.ledger[h]["debit_auction"]
                 /\ wallets'.ledger[h]["reserve_bid"] =
                      wallets.ledger[h]["reserve_bid"] + (IF h = g THEN x ELSE 0)
                 /\ wallets'.ledger[h]["release_bid"] =
                      wallets.ledger[h]["release_bid"] + (IF h = p.bidder THEN p.amount ELSE 0)
                 /\ wallets'.reserved[h] = wallets.reserved[h] + (IF h = g THEN x ELSE 0)
                                           - (IF h = p.bidder THEN p.amount ELSE 0)
      <4>1. /\ v.ledger[h]["credit_listing"] = wallets.ledger[h]["credit_listing"]
            /\ v.ledger[h]["debit_listing"] = wallets.ledger[h]["debit_listing"]
            /\ v.ledger[h]["credit_auction"] = wallets.ledger[h]["credit_auction"]
            /\ v.ledger[h]["debit_auction"] = wallets.ledger[h]["debit_auction"]
            /\ v.ledger[h]["release_bid"] = wallets.ledger[h]["release_bid"]
            /\ v.ledger[h]["reserve_bid"] =
                 IF h = g THEN wallets.ledger[h]["reserve_bid"] + x
                 ELSE wallets.ledger[h]["reserve_bid"]
        BY <1>k, <3>3
      <4>2. /\ wallets'.ledger[h]["credit_listing"] = v.ledger[h]["credit_listing"]
            /\ wallets'.ledger[h]["debit_listing"] = v.ledger[h]["debit_listing"]
            /\ wallets'.ledger[h]["credit_auction"] = v.ledger[h]["credit_auction"]
            /\ wallets'.ledger[h]["debit_auction"] = v.ledger[h]["debit_auction"]
            /\ wallets'.ledger[h]["reserve_bid"] = v.ledger[h]["reserve_bid"]
            /\ wallets'.ledger[h]["release_bid"] =
                 IF h = p.bidder THEN v.ledger[h]["release_bid"] + p.amount
                 ELSE v.ledger[h]["release_bid"]
        BY <1>k, <3>4
      <4>3. wallets'.reserved[h] = wallets.reserved[h] + (IF h = g THEN x ELSE 0)
                                   - (IF h = p.bidder THEN p.amount ELSE 0)
        BY <1>t, <2>2, <3>1, <3>2, <3>5
      <4>4. /\ wallets.ledger[h]["reserve_bid"] \in Nat /\ wallets.ledger[h]["release_bid"] \in Nat
            /\ x \in Nat /\ p.amount \in Nat
        BY <1>k, <1>t, <2>2, <3>1
      <4> QED BY <4>1, <4>2, <4>3, <4>4
    <3>7. ASSUME NEW h \in Guilds PROVE LedgerExplains(h)
      <4> DEFINE l == wallets.ledger[h]
                 m == wallets'.ledger[h]
                 up == IF h = g THEN x ELSE 0
                 down == IF h = p.bidder THEN p.amount ELSE 0
      <4>1. /\ l["reserve_bid"] \in Nat /\ l["release_bid"] \in Nat /\ l["debit_auction"] \in Nat
            /\ l["credit_auction"] \in Nat /\ up \in Nat /\ down \in Nat
            /\ wallets.total[h] \in Int /\ wallets.reserved[h] \in Int
        BY <1>k, <1>t, <2>2, <3>1
      <4>2. wallets'.total[h] = wallets.total[h]
        BY <2>2
      <4>3. /\ m["credit_auction"] = l["credit_auction"] /\ m["debit_auction"] = l["debit_auction"]
            /\ m["reserve_bid"] = l["reserve_bid"] + up
            /\ m["release_bid"] = l["release_bid"] + down
            /\ wallets'.reserved[h] = wallets.reserved[h] + up - down
            /\ m["credit_listing"] = l["credit_listing"] /\ m["debit_listing"] = l["debit_listing"]
        BY <3>6
      <4> HIDE DEF up, down
      <4> QED BY <4>1, <4>2, <4>3 DEF LedgerExplains
    <3> QED BY <3>7
  <2> QED BY <2>3, <2>4
<1>4. ASSUME NEW a \in Auctions, NEW t \in 0 .. now, SettleAuction(a, t)
      PROVE  \A h \in Guilds : LedgerExplains(h)
  <2>1. CASE auction[a].highest = Null
    BY <1>4, <1>u, <2>1 DEF SettleAuction
  <2>2. CASE auction[a].highest # Null
    <3> DEFINE win == bid[auction[a].highest]
               seller == auction[a].seller
               paid == SettleReserved(wallets, win.bidder, win.amount, "debit_auction")
    <3>1. SettleMoney(a)
      BY <1>4, <2>2, SettleMoneyMoves
    <3>2. /\ win.bidder \in Guilds /\ seller \in Guilds /\ win.bidder # seller
          /\ win.amount \in Nat /\ paid \in WalletsType
          /\ paid.ledger = Recorded(wallets, win.bidder, "debit_auction", win.amount)
          /\ wallets'.ledger = Recorded(paid, seller, "credit_auction", win.amount)
          /\ \A h \in Guilds :
               /\ wallets'.total[h] = IF h = win.bidder THEN wallets.total[h] - win.amount
                                      ELSE IF h = seller THEN wallets.total[h] + win.amount
                                      ELSE wallets.total[h]
               /\ wallets'.reserved[h] = IF h = win.bidder THEN wallets.reserved[h] - win.amount
                                         ELSE wallets.reserved[h]
      <4>1. win.amount \in Nat
        BY <3>1 DEF SettleMoney
      <4>2. /\ win.bidder \in Guilds /\ seller \in Guilds /\ win.bidder # seller
            /\ paid \in WalletsType
            /\ paid.ledger = Recorded(wallets, win.bidder, "debit_auction", win.amount)
            /\ wallets'.ledger = Recorded(paid, seller, "credit_auction", win.amount)
        BY <3>1 DEF SettleMoney
      <4>3. \A h \in Guilds :
              /\ wallets'.total[h] = IF h = win.bidder THEN wallets.total[h] - win.amount
                                     ELSE IF h = seller THEN wallets.total[h] + win.amount
                                     ELSE wallets.total[h]
              /\ wallets'.reserved[h] = IF h = win.bidder THEN wallets.reserved[h] - win.amount
                                        ELSE wallets.reserved[h]
        BY <3>1 DEF SettleMoney
      <4> HIDE DEF win, seller, paid
      <4> QED BY <4>1, <4>2, <4>3
    <3> HIDE DEF win, seller, paid
    <3>3. \A h \in Guilds, j \in LedgerKinds :
            paid.ledger[h][j] = IF h = win.bidder /\ j = "debit_auction"
                                THEN wallets.ledger[h][j] + win.amount ELSE wallets.ledger[h][j]
      <4>1. paid.ledger = Recorded(wallets, win.bidder, "debit_auction", win.amount)
        BY <3>2
      <4>2. win.bidder \in Guilds /\ win.amount \in Nat
        BY <3>2
      <4> QED BY <1>0, <1>k, <4>1, <4>2, LedgerAfter
    <3>4. \A h \in Guilds, j \in LedgerKinds :
            wallets'.ledger[h][j] = IF h = seller /\ j = "credit_auction"
                                    THEN paid.ledger[h][j] + win.amount ELSE paid.ledger[h][j]
      <4>1. wallets'.ledger = Recorded(paid, seller, "credit_auction", win.amount)
        BY <3>2
      <4>2. paid \in WalletsType /\ seller \in Guilds /\ win.amount \in Nat
        BY <3>2
      <4> QED BY <1>k, <4>1, <4>2, LedgerAfter
    <3>5. ASSUME NEW h \in Guilds
          PROVE  /\ wallets'.ledger[h]["credit_listing"] = wallets.ledger[h]["credit_listing"]
                 /\ wallets'.ledger[h]["debit_listing"] = wallets.ledger[h]["debit_listing"]
                 /\ wallets'.ledger[h]["reserve_bid"] = wallets.ledger[h]["reserve_bid"]
                 /\ wallets'.ledger[h]["release_bid"] = wallets.ledger[h]["release_bid"]
                 /\ wallets'.ledger[h]["debit_auction"] =
                      wallets.ledger[h]["debit_auction"] + (IF h = win.bidder THEN win.amount ELSE 0)
                 /\ wallets'.ledger[h]["credit_auction"] =
                      wallets.ledger[h]["credit_auction"] + (IF h = seller THEN win.amount ELSE 0)
      <4>1. /\ paid.ledger[h]["credit_listing"] = wallets.ledger[h]["credit_listing"]
            /\ paid.ledger[h]["debit_listing"] = wallets.ledger[h]["debit_listing"]
            /\ paid.ledger[h]["reserve_bid"] = wallets.ledger[h]["reserve_bid"]
            /\ paid.ledger[h]["release_bid"] = wallets.ledger[h]["release_bid"]
            /\ paid.ledger[h]["credit_auction"] = wallets.ledger[h]["credit_auction"]
            /\ paid.ledger[h]["debit_auction"] =
                 IF h = win.bidder THEN wallets.ledger[h]["debit_auction"] + win.amount
                 ELSE wallets.ledger[h]["debit_auction"]
        BY <1>k, <3>3
      <4>2. /\ wallets'.ledger[h]["credit_listing"] = paid.ledger[h]["credit_listing"]
            /\ wallets'.ledger[h]["debit_listing"] = paid.ledger[h]["debit_listing"]
            /\ wallets'.ledger[h]["reserve_bid"] = paid.ledger[h]["reserve_bid"]
            /\ wallets'.ledger[h]["release_bid"] = paid.ledger[h]["release_bid"]
            /\ wallets'.ledger[h]["debit_auction"] = paid.ledger[h]["debit_auction"]
            /\ wallets'.ledger[h]["credit_auction"] =
                 IF h = seller THEN paid.ledger[h]["credit_auction"] + win.amount
                 ELSE paid.ledger[h]["credit_auction"]
        BY <1>k, <3>4
      <4>3. /\ wallets.ledger[h]["credit_auction"] \in Nat
            /\ wallets.ledger[h]["debit_auction"] \in Nat /\ win.amount \in Nat
        BY <1>k, <1>t, <3>2
      <4> QED BY <4>1, <4>2, <4>3
    <3>6. ASSUME NEW h \in Guilds PROVE LedgerExplains(h)
      <4> DEFINE l == wallets.ledger[h]
                 m == wallets'.ledger[h]
                 spent == IF h = win.bidder THEN win.amount ELSE 0
                 gained == IF h = seller THEN win.amount ELSE 0
      <4>1. /\ l["reserve_bid"] \in Nat /\ l["release_bid"] \in Nat /\ l["debit_auction"] \in Nat
            /\ l["credit_auction"] \in Nat
            /\ spent \in Nat /\ gained \in Nat
            /\ wallets.total[h] \in Int /\ wallets.reserved[h] \in Int
        BY <1>k, <1>t, <3>2
      <4>3. /\ m["credit_auction"] = l["credit_auction"] + gained
            /\ m["debit_auction"] = l["debit_auction"] + spent
            /\ m["reserve_bid"] = l["reserve_bid"]
            /\ m["release_bid"] = l["release_bid"]
            /\ m["credit_listing"] = l["credit_listing"] /\ m["debit_listing"] = l["debit_listing"]
        BY <3>5
      <4>5. /\ wallets'.total[h] = wallets.total[h] - spent + gained
            /\ wallets'.reserved[h] = wallets.reserved[h] - spent
        BY <1>t, <3>2
      <4> HIDE DEF spent, gained
      <4> QED BY <4>1, <4>3, <4>5 DEF LedgerExplains
    <3> QED BY <3>6
  <2> QED BY <2>1, <2>2
<1>1. ASSUME NEW g \in Guilds, NEW i \in Items, NEW a \in Auctions, NEW t \in 0 .. now,
             CreateAuction(g, i, a, t)
      PROVE  \A h \in Guilds : LedgerExplains(h)
  BY <1>1, <1>u DEF CreateAuction
<1>3. ASSUME NEW a \in Auctions, NEW b \in Bids, NEW g \in Guilds, CancelBid(a, b, g)
      PROVE  \A h \in Guilds : LedgerExplains(h)
  BY <1>3, <1>u, CancelBidEffect
<1>5. CASE Tick \/ UNCHANGED vars
  BY <1>5, <1>u DEF Tick, vars
<1> QED BY <1>1, <1>2, <1>3, <1>4, <1>5 DEF Next

(* So what the ledger explains it goes on explaining. *)
LEMMA LedgerStep ==
  ASSUME CoreInv, LedgerReconciles, [Next]_vars
  PROVE  LedgerReconciles'
<1>1. wallets \in WalletsType /\ wallets' \in WalletsType
  BY NextCore DEF CoreInv, TypeOK
<1>2. /\ "reserve_bid" \in LedgerKinds /\ "release_bid" \in LedgerKinds
      /\ "debit_auction" \in LedgerKinds /\ "credit_auction" \in LedgerKinds
  BY DEF LedgerKinds
<1> SUFFICES ASSUME NEW g \in Guilds
             PROVE  LET l == wallets'.ledger[g]
                    IN  /\ wallets'.total[g] = InitTotal[g] + l["credit_auction"] - l["debit_auction"]
                        /\ wallets'.reserved[g] =
                             l["reserve_bid"] - l["release_bid"] - l["debit_auction"]
  BY DEF LedgerReconciles
<1>3. \A k \in LedgerKinds : wallets.ledger[g][k] \in Int /\ wallets'.ledger[g][k] \in Int
  BY <1>1 DEF WalletsType
<1>4. LedgerExplains(g) /\ InitTotal[g] \in Int
  BY LedgerMoves, GuildsAssumption
<1> QED BY <1>2, <1>3, <1>4 DEF LedgerReconciles, LedgerExplains

(* In every reachable state the ledger explains every wallet. *)
THEOREM LedgerAlwaysReconciles == Spec => []LedgerReconciles
<1>1. Init => LedgerReconciles
  BY GuildsAssumption DEF Init, WalletsInit, LedgerReconciles, LedgerKinds
<1>2. CoreInv /\ LedgerReconciles /\ [Next]_vars => LedgerReconciles'
  BY LedgerStep
<1> QED BY <1>1, <1>2, CoreInvariant, PTL DEF Spec
=============================================================================
