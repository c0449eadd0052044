------------------------------- MODULE MCApi -------------------------------
(***************************************************************************)
(* Small instances of Api for TLC.                                         *)
(***************************************************************************)
EXTENDS Api, TLC

CONSTANTS g1, g2, g3, i1, p1

(* g2 sells its legendary by auction and its rare item at a fixed price;   *)
(* g1 can pay for either, not always for both, and g3, whose cap is too    *)
(* low to buy, bids against it.                                            *)
ApiTotal == g1 :> 5 @@ g2 :> 0 @@ g3 :> 3
ApiTier == i1 :> "legendary"
ApiOwner == i1 :> g2
ApiCap == g1 :> 0 @@ g2 :> 0 @@ g3 :> 2
OneDay == 0 :> 0 @@ 1 :> 0

OneSeed == 1 :> [product |-> p1, tier |-> "rare", owner |-> g2, stock |-> 1,
                 status |-> "available"]

Ids == Permutations(Bids) \cup Permutations(Auctions)
=============================================================================
