---------------------------- MODULE MCCheckpoint ----------------------------
(* The sets the checkpoint runs instantiate: one signal of each kind.       *)
EXTENDS Checkpoint

OneSession == {"s1"}
OneSignal == {<<"repetition", "cargo test">>}
TwoSignals == OneSignal \cup {<<"repeated_failure", "cargo test">>}
MCStatements == {"reversible"}
OneMemory == {"m1"}
NoMemory == {}
AllBoundaries == {"batch", "action", "turn"}
BatchOnly == {"batch"}
TurnOnly == {"turn"}
=============================================================================
