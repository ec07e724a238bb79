---------------------------- MODULE RecordLedger ----------------------------
(***************************************************************************)
(* What the server promises about its invocation ledger: the entry of an   *)
(* invocation is settled once, either to the outcome the ledger keeps for  *)
(* it or to nothing, and a settled entry never changes.                    *)
(***************************************************************************)
CONSTANTS
    Invocations,    \* the tool calls
    Outcomes,       \* the outcome classes a row can carry
    Open,           \* the entry of an invocation that may still get a row
    Missing         \* the entry of an invocation that will never get one

VARIABLE ledger

Init == ledger = [i \in Invocations |-> Open]

Settle(i) ==
    /\ ledger[i] = Open
    /\ \E entry \in Outcomes \cup {Missing} : ledger' = [ledger EXCEPT ![i] = entry]

Next == \E i \in Invocations : Settle(i)

Spec == Init /\ [][Next]_ledger
=============================================================================
