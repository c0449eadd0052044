---------------------------- MODULE MCOracleFeed ----------------------------
(***************************************************************************)
(* Small instances of OracleFeed for TLC: snapshots of one or two prices,  *)
(* also of the same item, of good, bad and deviating amounts.              *)
(***************************************************************************)
EXTENDS OracleFeed, TLC

CONSTANTS t1, t2

Quote == [item : Things, amount : {0, 1, 2, 3, 9}]

Quotes == {<<q>> : q \in Quote} \cup {<<q, r>> : q, r \in Quote}

Swaps == Permutations(Things)

(* Nothing is lost, or everything may happen.                              *)
Surroundings == {{"db", "crash"}, {"db", "ack", "warm", "crash"}}

(* Only the load at the start may fail.                                    *)
ColdStarts == {{"warm", "crash"}}
=============================================================================
