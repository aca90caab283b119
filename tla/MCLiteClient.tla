----------------------------- MODULE MCLiteClient -----------------------------
(* Liteservers of which at most the last has the block. *)
EXTENDS LiteClient

MCHoldings == {[srv \in Servers |-> IF srv = a THEN "state"
                                    ELSE IF srv = 0 THEN "gcd" ELSE "noblock"] :
                  a \in {N - 1, N}}
=============================================================================
