--------------------------- MODULE MCAuctionHouse ---------------------------
(***************************************************************************)
(* Small instances of AuctionHouse for TLC.                                *)
(***************************************************************************)
EXTENDS AuctionHouse, TLC

CONSTANTS g1, g2, g3, i1, i2

(* Two legendaries of two owners: each owner can bid on the other's item,  *)
(* and the third guild can lead only one auction at a time.                *)
TwoTier == i1 :> "legendary" @@ i2 :> "legendary"
TwoOwner == i1 :> g1 @@ i2 :> g2
TwoTotal == g1 :> 32 @@ g2 :> 34 @@ g3 :> 61

Ids == Permutations(Auctions) \cup Permutations(Bids)
=============================================================================
