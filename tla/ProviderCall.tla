----------------------------- MODULE ProviderCall -----------------------------
(***************************************************************************)
(* What a provider client promises its caller (traits/client.rs): however  *)
(* many requests it sends, a call settles once, to one answer or to one    *)
(* error, and the usage it reports was charged.                            *)
(***************************************************************************)
EXTENDS Naturals

CONSTANTS
    Calls,      \* the calls of complete(), embed_*() and search()
    Classes,    \* the ways a call can end
    MaxCharge,  \* what one request may be charged
    Open        \* the reply of a call that is not over

VARIABLES
    charged,    \* what the provider charged for each call
    reply       \* how each call ended, and the usage it reported

Init ==
    /\ charged = [c \in Calls |-> 0]
    /\ reply = [c \in Calls |-> Open]

(* A request of an open call is charged, or not, and may settle the call.   *)
Request(c) ==
    /\ reply[c] = Open
    /\ \E u \in 0..MaxCharge :
        /\ charged' = [charged EXCEPT ![c] = @ + u]
        /\ \/ UNCHANGED reply
           \/ \E class \in Classes, usage \in 0..(charged[c] + u) :
                reply' = [reply EXCEPT ![c] = [class |-> class, usage |-> usage]]

Next == \E c \in Calls : Request(c)

Spec == Init /\ [][Next]_<<charged, reply>>
=============================================================================
