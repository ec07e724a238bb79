-------------------------------- MODULE Client --------------------------------
(***************************************************************************)
(* A call through one of the four provider adapters: complete() of         *)
(* client/anthropic.rs and client/openai_compat.rs, embed() of             *)
(* client/voyage.rs, search() of client/brave.rs.                          *)
(*                                                                         *)
(* The four share a retry loop: a transport failure, a 429 and a 5xx are   *)
(* retried after a backoff, a timeout and any other 4xx end the call.      *)
(* OpenAI-compatible endpoints run that loop once per rung of a ladder of  *)
(* structured-output strategies, and go down a rung when the provider      *)
(* rejects the parameter the rung sends.  A response that was read is      *)
(* interpreted: it is the answer, or a failure that was billed.            *)
(***************************************************************************)
EXTENDS Naturals, Sequences, FiniteSets

CONSTANTS
    Calls,          \* the calls
    Adapters,       \* the adapters in play, a subset of AllAdapters
    Structured,     \* settings of OPENAI_STRUCTURED_OUTPUT: a rung, or "auto"
    MaxRetries,     \* Config::max_retries
    MaxCharge       \* bound: units a provider charges for one request

AllAdapters == {"anthropic", "openai", "voyage", "brave"}

(* Rung, from the strictest strategy to the one that sends no parameter.    *)
Rungs == <<"json_schema", "json_object", "tool_shim", "prompt_only">>
RungNames == {"json_schema", "json_object", "tool_shim", "prompt_only"}

ASSUME ClientAssumption ==
    /\ Adapters \subseteq AllAdapters
    /\ Structured \subseteq RungNames \cup {"auto"}
    /\ MaxRetries \in Nat
    /\ MaxCharge \in Nat

VARIABLES
    adapter,    \* the adapter of each call (fixed)
    structured, \* its structured-output setting (fixed)
    phase,      \* "idle", "sending" (a request is out), "backoff", "over"
    rung,       \* index into the ladder
    attempt,    \* attempt of the retry loop on this rung
    reply,      \* what the caller was returned
    sent,       \* requests sent
    charged,    \* units the provider charged for the call
    rejected,   \* history: the rungs refused as unsupported
    meant,      \* history: what the response that ended the call meant
    lost        \* history: why a charge was not reported

vars == <<adapter, structured, phase, rung, attempt, reply, sent, charged, rejected, meant, lost>>

(* The AppError variants a call can end in, and Ok.                         *)
Classes == {"ok", "refusal", "truncation", "timeout", "retries_exhausted",
            "client", "embedding_provider", "search_provider"}
Open == [class |-> "open"]
Meanings == {"answer", "empty", "garbled", "refusal", "cut_off", "other"}
Causes == {"timeout", "transport", "unreadable", "omitted", "embedding"}

AttemptsMax == MaxRetries + 1

(* ladder_for; the other adapters have no strategy to degrade.              *)
Ladder(c) ==
    IF adapter[c] = "openai"
    THEN IF structured[c] = "auto" THEN Rungs ELSE <<structured[c]>>
    ELSE <<"json_schema">>

Rung(c) == Ladder(c)[rung[c]]

TypeOK ==
    /\ adapter \in [Calls -> Adapters]
    /\ structured \in [Calls -> Structured]
    /\ phase \in [Calls -> {"idle", "sending", "backoff", "over"}]
    /\ rung \in [Calls -> 1..4]
    /\ attempt \in [Calls -> 1..AttemptsMax]
    /\ reply \in [Calls -> [class : Classes, usage : Nat] \cup {Open}]
    /\ sent \in [Calls -> Nat]
    /\ charged \in [Calls -> Nat]
    /\ rejected \in [Calls -> SUBSET RungNames]
    /\ meant \in [Calls -> Meanings \cup {"nothing"}]
    /\ lost \in [Calls -> SUBSET Causes]

Init ==
    /\ adapter \in [Calls -> Adapters]
    /\ structured \in [Calls -> Structured]
    /\ phase = [c \in Calls |-> "idle"]
    /\ rung = [c \in Calls |-> 1]
    /\ attempt = [c \in Calls |-> 1]
    /\ reply = [c \in Calls |-> Open]
    /\ sent = [c \in Calls |-> 0]
    /\ charged = [c \in Calls |-> 0]
    /\ rejected = [c \in Calls |-> {}]
    /\ meant = [c \in Calls |-> "nothing"]
    /\ lost = [c \in Calls |-> {}]
-----------------------------------------------------------------------------
(* Wire forms: what a provider sends to mean m.  An Anthropic payload is a  *)
(* stop_reason and the first text block; a Chat Completions payload adds    *)
(* the refusal field, the tool call, and whether there is a choice at all.  *)
Bodies == {"none", "bad", "json"}

AnthropicWire(m) ==
    LET P(stops, texts) == [stop : stops, text : texts]
    IN  CASE m = "answer" -> P({"end_turn"}, {"json"})
          [] m = "empty" -> P({"end_turn"}, {"none"})
          [] m = "garbled" -> P({"end_turn"}, {"bad"})
          [] m = "refusal" -> P({"refusal"}, Bodies)
          [] m = "cut_off" -> P({"max_tokens"}, Bodies)
          [] m = "other" -> P({"absent", "pause_turn"}, Bodies)

OpenAiWire(m, r) ==
    LET P(refusals, finishes, contents, calls) ==
            [choice : {TRUE}, refusal : refusals, finish : finishes,
             content : contents, call : calls]
        Body(b) == IF r = "tool_shim" THEN P({FALSE}, {"stop", "tool_calls"}, Bodies, {b})
                                      ELSE P({FALSE}, {"stop"}, {b}, Bodies)
        Finishes == {"stop", "length", "content_filter", "tool_calls", "absent"}
    IN  CASE m = "answer" -> Body("json")
          [] m = "empty" -> Body("none") \cup {[choice |-> FALSE]}
          [] m = "garbled" -> Body("bad")
          [] m = "refusal" -> P({TRUE}, Finishes, Bodies, Bodies)
                              \cup P({FALSE}, {"content_filter"}, Bodies, Bodies)
          [] m = "cut_off" -> P({FALSE}, {"length"}, Bodies, Bodies)
          [] m = "other" -> P({FALSE}, {"absent"} \cup (IF r = "tool_shim" THEN {} ELSE {"tool_calls"}),
                              Bodies, Bodies)

(* anthropic.rs interpret: the class of a 2xx payload.                      *)
AnthropicInterpret(p) ==
    CASE p.stop = "end_turn" -> IF p.text = "json" THEN "ok" ELSE "client"
      [] p.stop = "refusal" -> "refusal"
      [] p.stop = "max_tokens" -> "truncation"
      [] OTHER -> "client"

(* Defect: the finish reason is consulted before the refusal field.         *)
OpenAiFinishFirst(p, r) ==
    IF ~p.choice THEN "client"
    ELSE IF p.finish = "length" THEN "truncation"
    ELSE IF p.refusal \/ p.finish = "content_filter" THEN "refusal"
    ELSE IF r = "tool_shim" /\ p.finish \in {"tool_calls", "stop"}
         THEN IF p.call = "json" THEN "ok" ELSE "client"
    ELSE IF p.finish = "stop" /\ p.content = "json" THEN "ok" ELSE "client"

(* openai_compat.rs interpret: the refusal field wins over any finish, and  *)
(* the tool-shim rung reads the forced call instead of the content.         *)
OpenAiInterpret(p, r) ==
    IF ~p.choice THEN "client"
    ELSE IF p.refusal THEN "refusal"
    ELSE IF p.finish = "length" THEN "truncation"
    ELSE IF p.finish = "content_filter" THEN "refusal"
    ELSE IF r = "tool_shim" /\ p.finish \in {"tool_calls", "stop"}
         THEN IF p.call = "json" THEN "ok" ELSE "client"
    ELSE IF p.finish = "stop" /\ p.content = "json" THEN "ok" ELSE "client"

(* voyage.rs interpret: exactly one embedding, and not an empty one.        *)
VoyageInterpret(m) == IF m = "answer" THEN "ok" ELSE "embedding_provider"

(* The classes a response that means m may be given, by adapter and rung.   *)
Interpret(a, m, r) ==
    CASE a = "anthropic" -> {AnthropicInterpret(p) : p \in AnthropicWire(m)}
      [] a = "openai" -> {OpenAiInterpret(p, r) : p \in OpenAiWire(m, r)}
      [] a = "voyage" -> {VoyageInterpret(m)}
      [] a = "brave" -> {"ok"}

(* A body that is no JSON of the embedding or search shape is unreadable,   *)
(* and an absent `web` key is an empty result.                              *)
MeaningsOf(a) ==
    CASE a \in {"anthropic", "openai"} -> Meanings
      [] a = "voyage" -> {"answer", "empty"}
      [] a = "brave" -> {"answer"}

(* What may become of a request besides a 2xx that reads, and what the loop *)
(* of each adapter does about it: "retry", "descend", or the class it       *)
(* returns.                                                                 *)
Fates == {"timeout", "unreadable", "busy", "transport", "refused", "unsupported"}

AnthropicPolicy(fate) ==
    CASE fate \in {"busy", "transport"} -> "retry"
      [] fate = "timeout" -> "timeout"
      [] OTHER -> "client"

OpenAiPolicy(fate, r) ==
    CASE fate \in {"busy", "transport"} -> "retry"
      [] fate = "timeout" -> "timeout"
      [] fate = "unsupported" /\ r # "prompt_only" -> "descend"
      [] OTHER -> "client"

VoyagePolicy(fate) ==
    CASE fate \in {"busy", "transport"} -> "retry"
      [] fate = "timeout" -> "timeout"
      [] OTHER -> "embedding_provider"

BravePolicy(fate) ==
    CASE fate \in {"busy", "transport"} -> "retry"
      [] fate = "timeout" -> "timeout"
      [] OTHER -> "search_provider"

Policy(c, fate) ==
    CASE adapter[c] = "anthropic" -> AnthropicPolicy(fate)
      [] adapter[c] = "openai" -> OpenAiPolicy(fate, Rung(c))
      [] adapter[c] = "voyage" -> VoyagePolicy(fate)
      [] adapter[c] = "brave" -> BravePolicy(fate)

(* AppError::outcome: the class a call's record carries.                    *)
Outcome(class) ==
    CASE class = "ok" -> "success"
      [] class = "client" -> "validation_failure"
      [] OTHER -> class
-----------------------------------------------------------------------------
(* The call ends: the caller is returned the class and the usage.           *)
End(c, class, usage) ==
    /\ phase' = [phase EXCEPT ![c] = "over"]
    /\ reply' = [reply EXCEPT ![c] = [class |-> class, usage |-> usage]]

(* The provider charges u units; `why` says why the caller will not be told. *)
Charge(c, u, why) ==
    /\ charged' = [charged EXCEPT ![c] = @ + u]
    /\ lost' = [lost EXCEPT ![c] = IF u = 0 THEN @ ELSE @ \cup why]

(* complete() is called: the first request of the first rung goes out.      *)
Call(c) ==
    /\ phase[c] = "idle"
    /\ phase' = [phase EXCEPT ![c] = "sending"]
    /\ sent' = [sent EXCEPT ![c] = 1]
    /\ UNCHANGED <<adapter, structured, rung, attempt, reply, charged, rejected, meant, lost>>

(* Defect: the usage of a response that cannot be used is dropped.          *)
UsageOfAnswersOnly(a, class, u) == IF class = "ok" THEN u ELSE 0

(* Defect: an error already metered is metered again on its way out.        *)
UsageToldTwice(a, class, u) == 2 * u

(* AppError::metered: both model adapters attach the usage of every 2xx     *)
(* response to its error, voyage reports it on success only, and a search   *)
(* carries none.                                                            *)
UsageTold(a, class, u) ==
    CASE a \in {"anthropic", "openai"} -> u
      [] a = "voyage" -> IF class = "ok" THEN u ELSE 0
      [] a = "brave" -> 0

(* A 2xx response is read and interpreted, with or without a usage block.   *)
Responds(c) ==
    /\ phase[c] = "sending"
    /\ \E m \in MeaningsOf(adapter[c]), stated \in BOOLEAN :
       \E u \in 0..(IF adapter[c] = "brave" THEN 0 ELSE MaxCharge) :
       \E class \in Interpret(adapter[c], m, Rung(c)) :
        /\ meant' = [meant EXCEPT ![c] = m]
        /\ Charge(c, u, IF ~stated THEN {"omitted"}
                        ELSE IF class = "embedding_provider" THEN {"embedding"} ELSE {})
        /\ End(c, class, IF stated THEN UsageTold(adapter[c], class, u) ELSE 0)
    /\ UNCHANGED <<adapter, structured, rung, attempt, sent, rejected>>

(* Defect: a request that timed out is retried like a transport failure.    *)
TimesOutRetried(c) ==
    /\ phase[c] = "sending" /\ attempt[c] < AttemptsMax
    /\ \E u \in 0..MaxCharge : Charge(c, u, {"timeout"})
    /\ phase' = [phase EXCEPT ![c] = "backoff"]
    /\ UNCHANGED <<adapter, structured, rung, attempt, reply, sent, rejected, meant>>

(* The per-request timeout elapses, before the headers or inside the body:  *)
(* terminal, though the provider may have run the model.                    *)
TimesOut(c) ==
    /\ phase[c] = "sending"
    /\ \E u \in 0..MaxCharge : Charge(c, u, {"timeout"})
    /\ End(c, Policy(c, "timeout"), 0)
    /\ UNCHANGED <<adapter, structured, rung, attempt, sent, rejected, meant>>

(* A 2xx body that does not read or parse is terminal, and was charged.     *)
Unreadable(c) ==
    /\ phase[c] = "sending"
    /\ \E u \in 0..MaxCharge : Charge(c, u, {"unreadable"})
    /\ End(c, Policy(c, "unreadable"), 0)
    /\ UNCHANGED <<adapter, structured, rung, attempt, sent, rejected, meant>>

(* The loop goes round: the next attempt waits its backoff, the last one    *)
(* ends the call, whatever rung it is on.                                   *)
Retry(c) ==
    /\ IF attempt[c] < AttemptsMax
       THEN phase' = [phase EXCEPT ![c] = "backoff"] /\ UNCHANGED reply
       ELSE End(c, "retries_exhausted", 0)
    /\ UNCHANGED <<adapter, structured, rung, attempt, sent, rejected, meant>>

(* 429 or 5xx: the provider did not run the model.                          *)
Busy(c) ==
    /\ phase[c] = "sending" /\ Policy(c, "busy") = "retry"
    /\ Retry(c)
    /\ UNCHANGED <<charged, lost>>

(* The connection is refused, or reset after the provider ran the model.    *)
TransportFails(c) ==
    /\ phase[c] = "sending" /\ Policy(c, "transport") = "retry"
    /\ Retry(c)
    /\ \E u \in 0..MaxCharge : Charge(c, u, {"transport"})

(* Defect: the attempt is not counted.                                      *)
BackoffUncounted(c) ==
    /\ phase[c] = "backoff"
    /\ phase' = [phase EXCEPT ![c] = "sending"]
    /\ UNCHANGED <<adapter, structured, rung, attempt, reply, sent, charged, rejected, meant, lost>>

(* The sleep of 2^(attempt-2) times the base, capped, and the next request. *)
BackoffEnds(c) ==
    /\ phase[c] = "backoff"
    /\ phase' = [phase EXCEPT ![c] = "sending"]
    /\ attempt' = [attempt EXCEPT ![c] = @ + 1]
    /\ sent' = [sent EXCEPT ![c] = @ + 1]
    /\ UNCHANGED <<adapter, structured, rung, reply, charged, rejected, meant, lost>>

(* A 4xx that says nothing of the strategy, one whose body did not read, or *)
(* any 4xx on the prompt-only rung: terminal.                               *)
Rejected(c) ==
    /\ phase[c] = "sending"
    /\ End(c, Policy(c, "refused"), 0)
    /\ UNCHANGED <<adapter, structured, rung, attempt, sent, charged, rejected, meant, lost>>

(* is_capability_rejection: a 400 that names a parameter the rung sends and *)
(* a rejection phrase.  The next rung starts its attempts afresh; a pinned  *)
(* rung has none and the call fails loud.                                   *)
Unsupported(c) ==
    /\ phase[c] = "sending" /\ Policy(c, "unsupported") = "descend"
    /\ rejected' = [rejected EXCEPT ![c] = @ \cup {Rung(c)}]
    /\ IF rung[c] < Len(Ladder(c))
       THEN /\ rung' = [rung EXCEPT ![c] = @ + 1]
            /\ attempt' = [attempt EXCEPT ![c] = 1]
            /\ sent' = [sent EXCEPT ![c] = @ + 1]
            /\ UNCHANGED <<phase, reply>>
       ELSE End(c, "client", 0) /\ UNCHANGED <<rung, attempt, sent>>
    /\ UNCHANGED <<adapter, structured, charged, meant, lost>>

Step(c) ==
    \/ Responds(c) \/ TimesOut(c) \/ Unreadable(c)
    \/ Busy(c) \/ TransportFails(c) \/ BackoffEnds(c)
    \/ Rejected(c) \/ Unsupported(c)

Next == \E c \in Calls : Call(c) \/ Step(c)

Spec == Init /\ [][Next]_vars

(* A request carries a timeout and a backoff is a sleep, so both end.       *)
FairSpec == Spec /\ \A c \in Calls : WF_vars(Step(c))
-----------------------------------------------------------------------------
(* Usage survives: an ended call never reports more than it was charged,    *)
(* and reports all of it unless a charged response was never read, stated   *)
(* no usage, or was an embedding response out of contract.                  *)
UsageSurvives ==
    \A c \in Calls : phase[c] = "over" =>
        /\ reply[c].usage <= charged[c]
        /\ lost[c] = {} => reply[c].usage = charged[c]

(* A request is sent again only after failures that gave no answer: never   *)
(* after a timeout, an unreadable body or a response that was read.  What   *)
(* a connection that was reset had cost is paid again, and entered as lost. *)
ResendsAreSafe ==
    [][\A c \in Calls : sent'[c] > sent[c] => lost[c] \subseteq {"transport"} /\ meant[c] = "nothing"]_vars

(* The ladder is earned: a rung is tried only after the provider refused    *)
(* the strategy of every rung above it, a pinned rung is never left, and    *)
(* the requests sent stay within the retries of the rungs tried.            *)
LadderIsEarned ==
    \A c \in Calls :
        /\ \A r \in 1..(rung[c] - 1) : Ladder(c)[r] \in rejected[c]
        /\ structured[c] # "auto" => rung[c] = 1
        /\ sent[c] <= rung[c] * AttemptsMax

(* Every request is earned: each rung by a refusal of the one above it, and *)
(* each resend by a 429, a 5xx or a connection that failed, which may have  *)
(* been charged.                                                            *)
RequestsAreEarned == []LadderIsEarned /\ ResendsAreSafe

(* The adapters agree: a response is recorded under the outcome its meaning *)
(* has, whichever backend and rung it came through (client/parity_tests.rs). *)
OutcomeOfMeaning(m) ==
    CASE m = "answer" -> "success"
      [] m = "refusal" -> "refusal"
      [] m = "cut_off" -> "truncation"
      [] OTHER -> "validation_failure"

AdaptersAgree ==
    \A c \in Calls :
        meant[c] # "nothing" /\ adapter[c] \in {"anthropic", "openai"}
        => Outcome(reply[c].class) = OutcomeOfMeaning(meant[c])

(* Every call returns: retries and rungs are bounded.                       *)
CallEnds == \A c \in Calls : phase[c] = "sending" ~> phase[c] = "over"

(* The adapters implement the promise of traits/client.rs.                  *)
Promise == INSTANCE ProviderCall
KeepsPromise == Promise!Spec
=============================================================================
