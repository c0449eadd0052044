----------------------------- MODULE MCListings -----------------------------
(***************************************************************************)
(* Small instances of Listings for TLC.                                    *)
(***************************************************************************)
EXTENDS Listings, TLC

CONSTANTS g1, g2, p1

(* Two guilds that trade one product back and forth.  7 fits below Half =  *)
(* 8, but the turnover of a day does not: 2 + 6 wraps around.              *)
TradeTotal == g1 :> 1 @@ g2 :> 6
TradeCap == g1 :> 0 @@ g2 :> 4

(* Midnight falls between the instants 0 and 1.                            *)
Midnight == 0 :> 0 @@ 1 :> 1

(* The seed registers the first item.                                      *)
OneSeed == 1 :> [product |-> p1, tier |-> "rare", owner |-> g1, stock |-> 2,
                 status |-> "available"]

Ids == Permutations(ListingIds)
=============================================================================
