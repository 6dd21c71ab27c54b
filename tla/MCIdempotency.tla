--------------------------- MODULE MCIdempotency ---------------------------
(* Three retries of one key, a request without a key and one whose key is  *)
(* too long.                                                               *)
EXTENDS Idempotency, TLC

CONSTANTS r1, r2, r3, r4, r5, k1

MCRequests == {r1, r2, r3, r4, r5}
MCKeys == {k1}
MCKeyOf == (r1 :> k1) @@ (r2 :> k1) @@ (r3 :> k1) @@ (r4 :> NoKey) @@ (r5 :> LongKey)
AllFaults == {"crash", "late", "delete"}
=============================================================================
