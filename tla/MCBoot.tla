-------------------------------- MODULE MCBoot ---------------------------------
(* Two processes over one database.  The environments: everything on, then  *)
(* each setting off or wrong, and the routings of two sites and a tier.     *)
EXTENDS Boot, TLC

MCProcesses == {"p1", "p2"}
MCMemories == {"m1"}
MCCallEfforts == {NoEffort, "low"}

Plain == [backend |-> "anthropic", key |-> "set", base |-> "default", default |-> "big",
          scalars |-> "valid", voyage |-> "set", brave |-> "set", root |-> "set",
          otel |-> "off", models |-> <<>>, efforts |-> <<>>]

Settings ==
    {Plain,
     [Plain EXCEPT !.backend = "typo"],
     [Plain EXCEPT !.key = "blank"],
     [Plain EXCEPT !.backend = "openai_compat", !.key = "unset", !.base = "local"],
     [Plain EXCEPT !.backend = "openai_compat", !.key = "unset"],
     [Plain EXCEPT !.backend = "openai_compat", !.efforts = "JUDGMENT" :> "high"],
     [Plain EXCEPT !.scalars = "invalid"],
     [Plain EXCEPT !.voyage = "blank"],
     [Plain EXCEPT !.brave = "blank"],
     [Plain EXCEPT !.root = "blank"],
     [Plain EXCEPT !.root = "missing"],
     [Plain EXCEPT !.otel = "malformed"],
     [Plain EXCEPT !.models = ("VERIFI" :> "small")]}

Routings ==
    {[Plain EXCEPT !.models = m, !.efforts = e] :
        m \in {<<>>, "VERIFY" :> "small", "JUDGMENT" :> "small", "JUDGMENT" :> "small" @@ "VERIFY" :> "big"},
        e \in {<<>>, "JUDGMENT" :> "high", "DECIDE" :> "low"}}

MCEnvironments == Settings \cup Routings
=============================================================================
