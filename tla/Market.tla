------------------------------- MODULE Market -------------------------------
(***************************************************************************)
(* The whole market over one database: the auction flow (AuctionHouse) and *)
(* the fixed-price flow (Listings) share the wallets and the clock, so     *)
(* that money a guild has reserved for a bid competes with its purchases.  *)
(*                                                                         *)
(* The legendaries are the rows of item, the items sold at a fixed price   *)
(* those of good: one table in the database, split by tier here.           *)
(***************************************************************************)
EXTENDS AuctionHouse

CONSTANTS
  MaxItems, SeedGoods, Products, NewTiers, Stocks,  \* of Listings, as are
  ListingIds, Prices, Cap, Day, Days                \* these

VARIABLES good, seq, listing, spent

Shop == INSTANCE Listings

ASSUME MarketAssumption ==
  /\ Shop!ListingAssumption
  /\ Items \cap Shop!Goods = {}
  /\ \A i \in Items : Tier[i] = "legendary"
  /\ "legendary" \notin NewTiers
  /\ \A i \in DOMAIN SeedGoods : SeedGoods[i].tier # "legendary"

houseTables == <<item, auction, bid>>

shopTables == <<good, seq, listing, spent>>

marketvars == <<vars, shopTables>>

MarketInit == Init /\ Shop!ListingsInit

(* The operations of the auction flow.                                     *)
Deal ==
  \/ \E g \in Guilds, i \in Items, a \in Auctions, t \in 0 .. now : CreateAuction(g, i, a, t)
  \/ \E a \in Auctions, g \in Guilds, x \in Amounts, b \in Bids, t \in 0 .. now :
       PlaceBid(a, g, x, b, t)
  \/ \E a \in Auctions, b \in Bids, g \in Guilds : CancelBid(a, b, g)
  \/ \E a \in Auctions, t \in 0 .. now : SettleAuction(a, t)

MarketNext ==
  \/ Deal /\ UNCHANGED shopTables
  \/ Shop!Trade /\ UNCHANGED houseTables
  \/ Tick /\ UNCHANGED shopTables

MarketSpec == MarketInit /\ [][MarketNext]_marketvars
-----------------------------------------------------------------------------
(* The ledger explains both columns of every wallet over both flows:       *)
(* purchases and auctions of one guild, whatever their order, never lose   *)
(* each other's change to its row.                                         *)
MarketReconciles ==
  \A g \in Guilds :
    LET l == wallets.ledger[g]
    IN  /\ wallets.total[g] = InitTotal[g] + l["credit_auction"] - l["debit_auction"]
                                           + l["credit_listing"] - l["debit_listing"]
        /\ wallets.reserved[g] = l["reserve_bid"] - l["release_bid"] - l["debit_auction"]

(* A balance changes only as one side of one trade: of a settlement, by    *)
(* the winning bid, or of the sale of a unit, by the price of its listing. *)
MoneyMovesByTrade ==
  [][\A g \in Guilds :
       LET gained == wallets'.total[g] - wallets.total[g]
           Trades(buyer, seller, price) ==
             \/ g = buyer /\ gained = -price
             \/ g = seller /\ gained = price
       IN  gained # 0 =>
             \/ \E a \in Auctions :
                  /\ auction[a].status = "active" /\ auction'[a].status = "settled"
                  /\ Trades(auction'[a].winner, auction[a].seller, bid[auction[a].highest].amount)
             \/ \E l \in ListingIds, seller, buyer \in Guilds :
                  /\ Shop!Sells(l, seller, buyer)
                  /\ Trades(buyer, seller, listing[l].price)]_marketvars
=============================================================================
