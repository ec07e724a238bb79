----------------------------- MODULE MCCorrective -----------------------------
(* Panels of up to three passes; framings a-b-c of which only neighbours    *)
(* are alike; two computations that may be told apart.                      *)
EXTENDS Corrective

MCFramings == {"a", "b", "c"}
MCAlike == {<<"a", "b">>, <<"b", "c">>}
MCSpecs == {"s", "t"}
=============================================================================
