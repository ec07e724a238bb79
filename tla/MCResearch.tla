----------------------------- MODULE MCResearch -----------------------------
(* The research run; its constants are numbers, given in the cfg.           *)
EXTENDS Research
=============================================================================
