------------------------------ MODULE MCBuyTx ------------------------------
(***************************************************************************)
(* Small instances of BuyTx for TLC.                                       *)
(***************************************************************************)
EXTENDS BuyTx, TLC

CONSTANTS g1, g2, p1

(* Two guilds that can buy from each other; g1 can pay for both items of   *)
(* g2 on one day, and its cap allows one.                                  *)
ShopTotal == g1 :> 4 @@ g2 :> 2
ShopCap == g1 :> 3 @@ g2 :> 0

Midnight == 0 :> 0 @@ 1 :> 1

SeedOf(g, n) == [product |-> p1, tier |-> "rare", owner |-> g, stock |-> n, status |-> "available"]

(* The first three purchases find their ids taken and roll back; two more  *)
(* succeed.                                                                *)
ThreeSeeds == 1 :> SeedOf(g2, 1) @@ 2 :> SeedOf(g2, 1) @@ 3 :> SeedOf(g1, 1)
=============================================================================
