------------------------------ MODULE MCServer ------------------------------
(***************************************************************************)
(* Small instances of Server for TLC: r2 is a retry of r1 at another       *)
(* process, and r3 reuses their key with another body.                     *)
(***************************************************************************)
EXTENDS Server

CONSTANTS r1, r2, r3, k1, h1, h2, p1, p2

KeyOf == [r \in Requests |-> k1]
HashOf == [r \in Requests |-> IF r = r3 THEN h2 ELSE h1]
HomeOf == [r \in Requests |-> IF r = r2 THEN p2 ELSE p1]

(* Whatever ends a request; everything.                                    *)
Surroundings ==
  {{"cancel", "panic", "crash"}, {"db", "ack", "panic", "crash"}}
=============================================================================
