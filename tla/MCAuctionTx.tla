---------------------------- MODULE MCAuctionTx ----------------------------
(***************************************************************************)
(* Small instances of AuctionTx for TLC.                                   *)
(***************************************************************************)
EXTENDS AuctionTx, TLC

CONSTANTS g1, g2, g3, i1, i2, s1, s2, s3, s4

TxTotal == [g \in Guilds |-> IF g = g3 THEN 3 ELSE 5]
TxTier == [i \in Items |-> "legendary"]
TxOwner == [i \in Items |-> IF i = i1 THEN g3 ELSE g2]

TxIds == Permutations(Clients) \cup Permutations(Workers)
         \cup Permutations(Auctions) \cup Permutations(Bids)

BidderIds == TxIds \cup Permutations({g1, g2})
=============================================================================
