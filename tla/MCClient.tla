------------------------------- MODULE MCClient -------------------------------
(* One call of any adapter: calls share no state.                           *)
EXTENDS Client

MCCalls == {"c1"}
MCStructured == RungNames \cup {"auto"}
=============================================================================
