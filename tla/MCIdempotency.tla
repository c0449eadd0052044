--------------------------- MODULE MCIdempotency ---------------------------
(***************************************************************************)
(* A small instance of Idempotency for TLC: r2 is a retry of r1, and r3    *)
(* reuses their key with another body.                                     *)
(***************************************************************************)
EXTENDS Idempotency

CONSTANTS r1, r2, r3, k1, h1, h2

KeyOf == [r \in Requests |-> k1]
HashOf == [r \in Requests |-> IF r = r3 THEN h2 ELSE h1]

Disconnects == {{"cancel"}}
=============================================================================
