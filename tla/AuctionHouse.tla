---------------------------- MODULE AuctionHouse ----------------------------
(***************************************************************************)
(* The auction flow of internal/service/auction.go as its transactions     *)
(* commit: one action per operation, one committed transaction per step.   *)
(* An operation the service rejects rolls back and changes nothing, so it  *)
(* is a stuttering step.                                                   *)
(*                                                                         *)
(* A transaction reads the clock once it holds its row locks and commits   *)
(* later, so an action takes the time t it read, which may lie in the past *)
(* but not before the last change of the row it locked.                    *)
(***************************************************************************)
EXTENDS Wallets, Functions, FiniteSets

CONSTANTS
  Items,       \* items in the catalogue
  Tier,        \* tier of each item
  InitOwner,   \* owner of each item when the market opens
  Auctions,    \* ids of the auctions table
  Bids,        \* ids of the bids table
  Amounts,     \* amounts a request may carry
  Window,      \* how long an auction stays open
  Extension,   \* anti-snipe threshold and extension
  MaxTime,     \* bound on the clock
  Null         \* SQL NULL

ASSUME AuctionAssumption ==
  /\ Tier \in [Items -> {"common", "rare", "legendary"}]
  /\ InitOwner \in [Items -> Guilds]
  /\ Amounts \subseteq -Half .. Half - 1
  /\ Window \in Nat \ {0} /\ Extension \in Nat \ {0} /\ MaxTime \in Nat
  /\ Null \notin Guilds \cup Items \cup Auctions \cup Bids
  /\ IsFiniteSet(Guilds) /\ IsFiniteSet(Bids)

(* All the money in the market, raised by 5%, fits an int64. *)
ASSUME MoneyFits == 105 * SumFunctionOnSet(InitTotal, Guilds) + 99 < Half

VARIABLES
  now,         \* the wall clock
  item,        \* items table: owner_guild_id and status
  auction,     \* auctions table
  bid          \* bids table

vars == <<now, wallets, item, auction, bid>>

Time == Nat

ItemRow == [owner : Guilds, status : {"available", "in_auction"}]

AuctionRow == [item : Items \cup {Null}, seller : Guilds \cup {Null},
               status : {"absent", "active", "settled"},
               endsAt : Time, highest : Bids \cup {Null},
               winner : Guilds \cup {Null}, updatedAt : Time]

BidRow == [auction : Auctions \cup {Null}, bidder : Guilds \cup {Null},
           amount : Int,
           status : {"absent", "active", "released", "cancelled", "won"}]

NoAuction == [item |-> Null, seller |-> Null, status |-> "absent", endsAt |-> 0,
              highest |-> Null, winner |-> Null, updatedAt |-> 0]

NoBid == [auction |-> Null, bidder |-> Null, amount |-> 0, status |-> "absent"]

TypeOK ==
  /\ now \in Time
  /\ wallets \in WalletsType
  /\ item \in [Items -> ItemRow]
  /\ auction \in [Auctions -> AuctionRow]
  /\ bid \in [Bids -> BidRow]

Init ==
  /\ now = 0
  /\ WalletsInit
  /\ item = [i \in Items |-> [owner |-> InitOwner[i], status |-> "available"]]
  /\ auction = [a \in Auctions |-> NoAuction]
  /\ bid = [b \in Bids |-> NoBid]
-----------------------------------------------------------------------------
(* The latest update of an auction of item i: the item row was locked then. *)
ReadAfterLastAuction(i, t) ==
  \A a \in Auctions : auction[a].item = i => auction[a].updatedAt <= t

(* Fault: an item already in an auction is auctioned again. *)
CreateAuctionAgain(g, i, a, t) ==
  /\ item[i].owner = g
  /\ Tier[i] = "legendary"
  /\ auction[a].status = "absent"
  /\ ReadAfterLastAuction(i, t)
  /\ auction' = [auction EXCEPT ![a] =
       [item |-> i, seller |-> g, status |-> "active", endsAt |-> t + Window,
        highest |-> Null, winner |-> Null, updatedAt |-> t]]
  /\ item' = [item EXCEPT ![i].status = "in_auction"]
  /\ UNCHANGED <<now, wallets, bid>>

CreateAuction(g, i, a, t) ==
  /\ item[i].owner = g
  /\ Tier[i] = "legendary"
  /\ item[i].status = "available"
  /\ auction[a].status = "absent"
  /\ ReadAfterLastAuction(i, t)
  /\ auction' = [auction EXCEPT ![a] =
       [item |-> i, seller |-> g, status |-> "active", endsAt |-> t + Window,
        highest |-> Null, winner |-> Null, updatedAt |-> t]]
  /\ item' = [item EXCEPT ![i].status = "in_auction"]
  /\ UNCHANGED <<now, wallets, bid>>

CurrentAmount(a) ==
  IF auction[a].highest = Null THEN 0 ELSE bid[auction[a].highest].amount

(* An accepted bid replaces the leader and may push out the end. *)
Led(a, b, t) ==
  [auction EXCEPT ![a].highest = b,
                  ![a].endsAt = MaybeExtend(t, @, Extension, Extension),
                  ![a].updatedAt = t]

NewBid(a, g, amount) ==
  [auction |-> a, bidder |-> g, amount |-> amount, status |-> "active"]

(* The bidder's full amount is reserved before the outbid leader, who may  *)
(* be the same guild, gets its own reservation back.                       *)
PlaceBid(a, g, amount, b, t) ==
  /\ auction[a].status = "active"
  /\ auction[a].updatedAt <= t
  /\ ~AuctionEnded(t, auction[a].endsAt)
  /\ EnsureNotSelfBid(auction[a].seller, g)
  /\ EnsureBidBeatsCurrent(CurrentAmount(a), amount)
  /\ CanReserve(wallets, g, amount)
  /\ bid[b].status = "absent"
  /\ LET prev == auction[a].highest
         held == Reserve(wallets, g, amount, "reserve_bid")
     IN  \/ /\ prev = Null
            /\ wallets' = held
            /\ bid' = [bid EXCEPT ![b] = NewBid(a, g, amount)]
         \/ /\ prev # Null
            /\ CanRelease(held, bid[prev].bidder, bid[prev].amount)
            /\ wallets' = Release(held, bid[prev].bidder, bid[prev].amount, "release_bid")
            /\ bid' = [bid EXCEPT ![prev].status = "released",
                                  ![b] = NewBid(a, g, amount)]
  /\ auction' = Led(a, b, t)
  /\ UNCHANGED <<now, item>>

(* No look at the clock, and a cancelled bid may be cancelled again. *)
CancelBid(a, b, g) ==
  /\ auction[a].status = "active"
  /\ bid[b].auction = a
  /\ bid[b].bidder = g
  /\ EnsureCanCancelBid(auction[a].highest = b)
  /\ IF bid[b].status = "active"
     THEN /\ CanRelease(wallets, g, bid[b].amount)
          /\ wallets' = Release(wallets, g, bid[b].amount, "release_bid")
     ELSE UNCHANGED wallets
  /\ bid' = [bid EXCEPT ![b].status = "cancelled"]
  /\ UNCHANGED <<now, item, auction>>

(* The code reads the clock again for updated_at; t is that reading, since *)
(* an auction that had ended at the first has ended at the second.         *)
SettleAuction(a, t) ==
  /\ auction[a].status = "active"
  /\ auction[a].updatedAt <= t
  /\ AuctionEnded(t, auction[a].endsAt)
  /\ LET i == auction[a].item
         b == auction[a].highest
         seller == auction[a].seller
         buyer == bid[b].bidder
         paid == SettleReserved(wallets, buyer, bid[b].amount, "debit_auction")
     IN  \/ /\ b # Null
            /\ CanSettleReserved(wallets, buyer, bid[b].amount)
            /\ CanCredit(bid[b].amount)
            /\ wallets' = Credit(paid, seller, bid[b].amount, "credit_auction")
            /\ item' = [item EXCEPT ![i] = [owner |-> buyer, status |-> "available"]]
            /\ bid' = [bid EXCEPT ![b].status = "won"]
            /\ auction' = [auction EXCEPT ![a].winner = buyer,
                             ![a].status = "settled", ![a].updatedAt = t]
         \/ /\ b = Null
            /\ item' = [item EXCEPT ![i].status = "available"]
            /\ auction' = [auction EXCEPT ![a].status = "settled", ![a].updatedAt = t]
            /\ UNCHANGED <<wallets, bid>>
  /\ UNCHANGED now

Tick ==
  /\ now < MaxTime
  /\ now' = now + 1
  /\ UNCHANGED <<wallets, item, auction, bid>>

Next ==
  \/ \E g \in Guilds, i \in Items, a \in Auctions, t \in 0 .. now : CreateAuction(g, i, a, t)
  \/ \E a \in Auctions, g \in Guilds, x \in Amounts, b \in Bids, t \in 0 .. now :
       PlaceBid(a, g, x, b, t)
  \/ \E a \in Auctions, b \in Bids, g \in Guilds : CancelBid(a, b, g)
  \/ \E a \in Auctions, t \in 0 .. now : SettleAuction(a, t)
  \/ Tick

Spec == Init /\ [][Next]_vars
-----------------------------------------------------------------------------
(* Every guild's reserved_amount is exactly the sum of its active bids: a  *)
(* reservation made by PlaceBid is given back (outbid, cancel) or spent    *)
(* (settlement) once, whatever the order of the operations.                *)
HeldBy(g) ==
  [b \in Bids |-> IF bid[b].status = "active" /\ bid[b].bidder = g THEN bid[b].amount ELSE 0]

ReservedBacked ==
  \A g \in Guilds : wallets.reserved[g] = SumFunctionOnSet(HeldBy(g), Bids)

(* chk_wallet_nonneg can never fire: no wallet is over-committed, although *)
(* one guild may lead several auctions out of one balance.                 *)
WalletSound ==
  \A g \in Guilds : 0 <= wallets.reserved[g] /\ wallets.reserved[g] <= wallets.total[g]

(* A bid holds money exactly while it leads an auction that is still open. *)
ActiveBidLeads ==
  \A b \in Bids : bid[b].status = "active" <=>
     \E a \in Auctions : /\ auction[a].status = "active"
                         /\ auction[a].highest = b
                         /\ bid[b].auction = a

(* SettleAuction cannot fail for want of reserved money, and PlaceBid      *)
(* cannot fail when it releases the outbid leader: every leader of an open *)
(* auction still has its amount reserved.                                  *)
LeaderFunded ==
  \A a \in Auctions : auction[a].status = "active" /\ auction[a].highest # Null =>
     CanSettleReserved(wallets, bid[auction[a].highest].bidder, bid[auction[a].highest].amount)

(* uniq_active_auction_per_item can never fire, an item marked in_auction  *)
(* has its auction, and the seller of an open auction still owns the item. *)
ItemInOneAuction ==
  \A i \in Items :
    LET open == {a \in Auctions : auction[a].status = "active" /\ auction[a].item = i}
    IN  /\ item[i].status = "in_auction" <=> open # {}
        /\ \A a, c \in open : a = c
        /\ \A a \in open : auction[a].seller = item[i].owner

(* No operation creates or destroys money. *)
MoneyConserved ==
  SumFunctionOnSet(wallets.total, Guilds) = SumFunctionOnSet(InitTotal, Guilds)

(* The ledger explains both columns of every wallet. *)
LedgerReconciles ==
  \A g \in Guilds :
    LET l == wallets.ledger[g]
    IN  /\ wallets.total[g] = InitTotal[g] + l["credit_auction"] - l["debit_auction"]
        /\ wallets.reserved[g] = l["reserve_bid"] - l["release_bid"] - l["debit_auction"]

(* The leader of an auction, and so its winner, made the highest bid the   *)
(* auction ever took, cancelled bids included.                             *)
HighestIsMax ==
  \A a \in Auctions, b \in Bids : bid[b].status # "absent" /\ bid[b].auction = a =>
     /\ auction[a].highest # Null
     /\ bid[b].amount <= bid[auction[a].highest].amount

(* Rows refer to rows that exist: the leader recorded in an auction is one *)
(* of its own bids, in the status that fits the auction's, and never the   *)
(* seller's; an open bid is the leader recorded in its auction.            *)
RowsConsistent ==
  /\ \A a \in Auctions :
       /\ auction[a].status = "absent" => auction[a].highest = Null
       /\ auction[a].status # "absent" => auction[a].item \in Items /\ auction[a].seller \in Guilds
       /\ auction[a].highest # Null =>
            /\ bid[auction[a].highest].auction = a
            /\ auction[a].status = "active" => bid[auction[a].highest].status = "active"
            /\ auction[a].status = "settled" => bid[auction[a].highest].status = "won"
  /\ \A b \in Bids :
       /\ bid[b].status = "absent" => bid[b].auction = Null
       /\ bid[b].status # "absent" =>
            /\ bid[b].auction \in Auctions /\ bid[b].bidder \in Guilds /\ bid[b].amount > 0
            /\ bid[b].bidder # auction[bid[b].auction].seller
            /\ auction[bid[b].auction].status # "absent"
       /\ bid[b].status = "active" =>
            /\ auction[bid[b].auction].status = "active"
            /\ auction[bid[b].auction].highest = b

(* An auction is settled at or after its (extended) end, never before. *)
NeverSettledEarly ==
  \A a \in Auctions : auction[a].status = "settled" => auction[a].endsAt <= auction[a].updatedAt

(* Each new leader bids at least 5% more than the one it replaces, as a    *)
(* statement about the exact rational, not about the rounded rule.         *)
RaisedByFivePercent ==
  [][\A a \in Auctions :
       LET old == auction[a].highest
           new == auction'[a].highest
       IN  new # old /\ old # Null => 100 * bid'[new].amount >= 105 * bid[old].amount]_vars

(* A bid is taken only before the end, and leaves at least Extension on    *)
(* the clock after the moment it was made; the end moves at no other time  *)
(* and never backwards.                                                    *)
AntiSnipe ==
  [][\A a \in Auctions : auction[a].status = "active" =>
       LET t == auction'[a].updatedAt
       IN  /\ auction'[a].highest # auction[a].highest =>
                 /\ t < auction[a].endsAt
                 /\ auction'[a].endsAt >= t + Extension
           /\ auction'[a].endsAt # auction[a].endsAt =>
                 /\ auction'[a].highest # auction[a].highest
                 /\ auction'[a].endsAt > auction[a].endsAt
                 /\ auction'[a].endsAt = t + Extension]_vars

(* An item changes hands only in the step that settles its auction, and in *)
(* that step the old owner is paid what the new one loses.                 *)
TransferWithPayment ==
  [][\A i \in Items : item'[i].owner # item[i].owner =>
       \E a \in Auctions :
         LET win == bid[auction[a].highest]
         IN  /\ auction[a].item = i
             /\ auction[a].status = "active" /\ auction'[a].status = "settled"
             /\ item'[i].owner = win.bidder
             /\ wallets'.total[win.bidder] = wallets.total[win.bidder] - win.amount
             /\ wallets'.total[item[i].owner] = wallets.total[item[i].owner] + win.amount]_vars

(* No balance moves except between the two parties of an auction that is   *)
(* settled in that step, and a settled auction and its bids are final.     *)
PaidOnce ==
  [][/\ \A g \in Guilds : wallets'.total[g] # wallets.total[g] =>
          \E a \in Auctions :
             /\ auction[a].status = "active" /\ auction'[a].status = "settled"
             /\ g \in {auction'[a].seller, auction'[a].winner}
     /\ \A a \in Auctions : auction[a].status = "settled" =>
          /\ auction'[a] = auction[a]
          /\ \A b \in Bids : bid[b].auction = a => bid'[b] = bid[b]]_vars
=============================================================================
