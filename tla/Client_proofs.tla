---------------------------- MODULE Client_proofs ----------------------------
(***************************************************************************)
(* Proofs about the provider adapters, for any calls, any selection of     *)
(* adapters and strategies, any retry limit and any charge.                *)
(*                                                                         *)
(* The second part is about the half of a checkpoint that asks no provider:*)
(* the screening of a transcript, in Algorithms, for any actions, lines,   *)
(* window and thresholds.                                                  *)
(***************************************************************************)
EXTENDS Client, Algorithms, FiniteSetTheorems, WellFoundedInduction, TLAPS

(* The invariant, call by call.  The rung is one of the ladder's.           *)
OnLadder(c) ==
    /\ rung[c] <= Len(Ladder(c))
    /\ \A r \in 1..(rung[c] - 1) : Ladder(c)[r] \in rejected[c]
    /\ structured[c] # "auto" => rung[c] = 1

(* What is true of a call that has not ended: it has answered nothing, and  *)
(* whatever it was charged was lost with a connection.                      *)
Unsettled(c) ==
    phase[c] # "over" =>
        /\ reply[c] = Open
        /\ meant[c] = "nothing"
        /\ lost[c] \subseteq {"transport"}
        /\ lost[c] = {} => charged[c] = 0

(* The requests of the rungs left, and of this one: one for each attempt.   *)
SentForAttempts(c) ==
    /\ rung[c] = 1 => sent[c] <= attempt[c]
    /\ rung[c] = 2 => sent[c] <= AttemptsMax + attempt[c]
    /\ rung[c] = 3 => sent[c] <= 2 * AttemptsMax + attempt[c]
    /\ rung[c] = 4 => sent[c] <= 3 * AttemptsMax + attempt[c]

(* A call that is asked for, or waits its backoff, has an attempt left.     *)
HasAnAttempt(c) ==
    /\ phase[c] = "idle" => rung[c] = 1 /\ attempt[c] = 1 /\ sent[c] = 0
    /\ phase[c] = "backoff" => attempt[c] < AttemptsMax

Reported(c) ==
    phase[c] = "over" =>
        /\ reply[c].usage <= charged[c]
        /\ lost[c] = {} => reply[c].usage = charged[c]

Agreed(c) ==
    meant[c] # "nothing" /\ adapter[c] \in {"anthropic", "openai"}
    => Outcome(reply[c].class) = OutcomeOfMeaning(meant[c])

CallInv(c) ==
    /\ OnLadder(c)
    /\ Unsettled(c)
    /\ SentForAttempts(c)
    /\ HasAnAttempt(c)
    /\ Reported(c)
    /\ Agreed(c)

Inv == TypeOK /\ \A c \in Calls : CallInv(c)
-----------------------------------------------------------------------------
(* Interpretation.  Every class a response may be given is one of Classes,  *)
(* and has the outcome of what the response means.                          *)
LEMMA AnthropicAgrees ==
    ASSUME NEW m \in Meanings, NEW p \in AnthropicWire(m)
    PROVE  /\ AnthropicInterpret(p) \in {"ok", "refusal", "truncation", "client"}
           /\ Outcome(AnthropicInterpret(p)) = OutcomeOfMeaning(m)
  BY DEF Meanings, AnthropicWire, AnthropicInterpret, Outcome, OutcomeOfMeaning, Bodies

(* The same of an OpenAI-compatible reply, on any rung.                     *)
LEMMA OpenAiAgrees ==
    ASSUME NEW m \in Meanings, NEW r \in RungNames, NEW p \in OpenAiWire(m, r)
    PROVE  /\ OpenAiInterpret(p, r) \in {"ok", "refusal", "truncation", "client"}
           /\ Outcome(OpenAiInterpret(p, r)) = OutcomeOfMeaning(m)
  <1> DEFINE P(refusals, finishes, contents, calls) ==
                 [choice : {TRUE}, refusal : refusals, finish : finishes,
                  content : contents, call : calls]
             Body(b) == IF r = "tool_shim" THEN P({FALSE}, {"stop", "tool_calls"}, Bodies, {b})
                                           ELSE P({FALSE}, {"stop"}, {b}, Bodies)
             Finishes == {"stop", "length", "content_filter", "tool_calls", "absent"}
  <1>1. CASE m = "answer"
    <2>1. p \in Body("json")
      BY <1>1, Zenon DEF OpenAiWire
    <2>2. p.choice /\ ~p.refusal
      BY <2>1
    <2>3. CASE r = "tool_shim"
      <3>1. p.finish \in {"stop", "tool_calls"} /\ p.call = "json"
        BY <2>1, <2>3
      <3>2. OpenAiInterpret(p, r) = "ok"
        BY <2>2, <2>3, <3>1 DEF OpenAiInterpret
      <3> QED
        BY <1>1, <3>2 DEF Outcome, OutcomeOfMeaning
    <2>4. CASE r # "tool_shim"
      <3>1. p.finish = "stop" /\ p.content = "json"
        BY <2>1, <2>4
      <3> QED
        BY <1>1, <2>2, <2>4, <3>1 DEF OpenAiInterpret, Outcome, OutcomeOfMeaning
    <2> QED
      BY <2>3, <2>4
  <1>2. CASE m = "empty"
    <2>1. p \in Body("none") \cup {[choice |-> FALSE]}
      BY <1>2, Zenon DEF OpenAiWire
    <2>2. CASE p = [choice |-> FALSE]
      BY <1>2, <2>2 DEF OpenAiInterpret, Outcome, OutcomeOfMeaning
    <2>3. CASE p \in Body("none")
      <3>1. p.choice /\ ~p.refusal
        BY <2>3
      <3>2. CASE r = "tool_shim"
        <4>1. p.finish \in {"stop", "tool_calls"} /\ p.call = "none"
          BY <2>3, <3>2
        <4>2. OpenAiInterpret(p, r) = "client"
          BY <3>1, <3>2, <4>1 DEF OpenAiInterpret
        <4> QED
          BY <1>2, <4>2 DEF Outcome, OutcomeOfMeaning
      <3>3. CASE r # "tool_shim"
        <4>1. p.finish = "stop" /\ p.content = "none"
          BY <2>3, <3>3
        <4> QED
          BY <1>2, <3>1, <3>3, <4>1 DEF OpenAiInterpret, Outcome, OutcomeOfMeaning
      <3> QED
        BY <3>2, <3>3
    <2> QED
      BY <2>1, <2>2, <2>3
  <1>3. CASE m = "garbled"
    <2>1. p \in Body("bad")
      BY <1>3, Zenon DEF OpenAiWire
    <2>2. p.choice /\ ~p.refusal
      BY <2>1
    <2>3. CASE r = "tool_shim"
      <3>1. p.finish \in {"stop", "tool_calls"} /\ p.call = "bad"
        BY <2>1, <2>3
      <3>2. OpenAiInterpret(p, r) = "client"
        BY <2>2, <2>3, <3>1 DEF OpenAiInterpret
      <3> QED
        BY <1>3, <3>2 DEF Outcome, OutcomeOfMeaning
    <2>4. CASE r # "tool_shim"
      <3>1. p.finish = "stop" /\ p.content = "bad"
        BY <2>1, <2>4
      <3> QED
        BY <1>3, <2>2, <2>4, <3>1 DEF OpenAiInterpret, Outcome, OutcomeOfMeaning
    <2> QED
      BY <2>3, <2>4
  <1>4. CASE m = "refusal"
    <2>1. p \in P({TRUE}, Finishes, Bodies, Bodies) \cup P({FALSE}, {"content_filter"}, Bodies, Bodies)
      BY <1>4, Zenon DEF OpenAiWire
    <2>2. CASE p \in P({TRUE}, Finishes, Bodies, Bodies)
      <3>1. p.choice /\ p.refusal
        BY <2>2
      <3>2. OpenAiInterpret(p, r) = "refusal"
        BY <3>1 DEF OpenAiInterpret
      <3> QED
        BY <1>4, <3>2 DEF Outcome, OutcomeOfMeaning
    <2>3. CASE p \in P({FALSE}, {"content_filter"}, Bodies, Bodies)
      <3>1. p.choice /\ ~p.refusal /\ p.finish = "content_filter"
        BY <2>3
      <3> QED
        BY <1>4, <3>1 DEF OpenAiInterpret, Outcome, OutcomeOfMeaning
    <2> QED
      BY <2>1, <2>2, <2>3
  <1>5. CASE m = "cut_off"
    <2>1. p \in P({FALSE}, {"length"}, Bodies, Bodies)
      BY <1>5, Zenon DEF OpenAiWire
    <2> QED
      BY <1>5, <2>1 DEF OpenAiInterpret, Outcome, OutcomeOfMeaning
  <1>6. CASE m = "other"
    <2>1. p \in P({FALSE}, {"absent"} \cup (IF r = "tool_shim" THEN {} ELSE {"tool_calls"}),
                  Bodies, Bodies)
      BY <1>6, Zenon DEF OpenAiWire
    <2> QED
      BY <1>6, <2>1 DEF OpenAiInterpret, Outcome, OutcomeOfMeaning
  <1> QED
    BY <1>1, <1>2, <1>3, <1>4, <1>5, <1>6 DEF Meanings

(* A response's class, whichever adapter read it.                           *)
LEMMA Interpreted ==
    ASSUME NEW a \in AllAdapters, NEW m \in MeaningsOf(a), NEW r \in RungNames,
           NEW class \in Interpret(a, m, r)
    PROVE  /\ m \in Meanings
           /\ class \in Classes
           /\ a \in {"anthropic", "openai"} => Outcome(class) = OutcomeOfMeaning(m)
           /\ a = "voyage" => class \in {"ok", "embedding_provider"}
           /\ a # "voyage" => class # "embedding_provider"
  <1>1. CASE a = "anthropic"
    BY <1>1, AnthropicAgrees DEF MeaningsOf, Interpret, Classes
  <1>2. CASE a = "openai"
    BY <1>2, OpenAiAgrees DEF MeaningsOf, Interpret, Classes
  <1>3. CASE a = "voyage"
    BY <1>3 DEF MeaningsOf, Interpret, VoyageInterpret, Classes, Meanings
  <1>4. CASE a = "brave"
    BY <1>4 DEF MeaningsOf, Interpret, Classes, Meanings
  <1> QED
    BY <1>1, <1>2, <1>3, <1>4 DEF AllAdapters

(* The usage told is never more than the units charged, and less only where *)
(* an embedding was refused.                                                *)
LEMMA ToldIsCharged ==
    ASSUME NEW a \in AllAdapters, NEW m \in MeaningsOf(a), NEW r \in RungNames,
           NEW class \in Interpret(a, m, r), NEW u \in Nat, a = "brave" => u = 0
    PROVE  /\ UsageTold(a, class, u) \in Nat
           /\ UsageTold(a, class, u) <= u
           /\ class # "embedding_provider" => UsageTold(a, class, u) = u
  BY Interpreted DEF UsageTold, AllAdapters

(* The policies end a call in a class, whatever the fate.                   *)
LEMMA PolicyClass ==
    ASSUME NEW c \in Calls, adapter[c] \in AllAdapters,
           NEW fate \in {"timeout", "unreadable", "refused"}
    PROVE  Policy(c, fate) \in Classes
  <1>1. CASE adapter[c] = "anthropic"
    BY <1>1 DEF Policy, AnthropicPolicy, Classes
  <1>2. CASE adapter[c] = "openai"
    BY <1>2 DEF Policy, OpenAiPolicy, Classes
  <1>3. CASE adapter[c] = "voyage"
    BY <1>3 DEF Policy, VoyagePolicy, Classes
  <1>4. CASE adapter[c] = "brave"
    BY <1>4 DEF Policy, BravePolicy, Classes
  <1> QED
    BY <1>1, <1>2, <1>3, <1>4 DEF AllAdapters

(* A call that is on its ladder is on a rung with a name.                   *)
LEMMA RungNamed ==
    ASSUME NEW c \in Calls, TypeOK, OnLadder(c)
    PROVE  /\ Len(Ladder(c)) \in 1..4
           /\ Rung(c) \in RungNames
           /\ structured[c] # "auto" => Len(Ladder(c)) = 1
  <1>1. adapter[c] \in AllAdapters /\ structured[c] \in RungNames \cup {"auto"} /\ rung[c] \in 1..4
    BY ClientAssumption DEF TypeOK
  <1>2. CASE adapter[c] = "openai" /\ structured[c] = "auto"
    BY <1>1, <1>2 DEF OnLadder, Ladder, Rung, Rungs, RungNames
  <1>3. CASE adapter[c] = "openai" /\ structured[c] # "auto"
    BY <1>1, <1>3 DEF OnLadder, Ladder, Rung, RungNames
  <1>4. CASE adapter[c] # "openai"
    BY <1>1, <1>4 DEF OnLadder, Ladder, Rung, RungNames
  <1> QED
    BY <1>2, <1>3, <1>4
-----------------------------------------------------------------------------
(* Initially no call has begun.                                             *)
LEMMA InvInit == Init => Inv
  <1> SUFFICES ASSUME Init PROVE Inv
    OBVIOUS
  <1>1. TypeOK
    BY ClientAssumption DEF Init, TypeOK, AttemptsMax
  <1>2. ASSUME NEW c \in Calls PROVE CallInv(c)
    <2>1. OnLadder(c)
      <3>1. 1 <= Len(Ladder(c))
        BY DEF Ladder, Rungs
      <3> QED
        BY <3>1 DEF Init, OnLadder
    <2> QED
      BY <2>1, ClientAssumption
      DEF Init, CallInv, Unsettled, SentForAttempts, HasAnAttempt, Reported, Agreed
  <1> QED
    BY <1>1, <1>2 DEF Inv

(* The invariant of a call whose part of the state does not change.         *)
Still(c) ==
    /\ adapter'[c] = adapter[c] /\ structured'[c] = structured[c]
    /\ phase'[c] = phase[c] /\ rung'[c] = rung[c] /\ attempt'[c] = attempt[c]
    /\ reply'[c] = reply[c] /\ sent'[c] = sent[c] /\ charged'[c] = charged[c]
    /\ rejected'[c] = rejected[c] /\ meant'[c] = meant[c] /\ lost'[c] = lost[c]

(* A call that does not move keeps its invariant.                           *)
LEMMA StillKept ==
    ASSUME NEW c \in Calls, CallInv(c), Still(c)
    PROVE  CallInv(c)'
  <1>1. Ladder(c)' = Ladder(c)
    BY DEF Still, Ladder
  <1>2. OnLadder(c)'
    BY <1>1 DEF CallInv, Still, OnLadder
  <1>3. Unsettled(c)' /\ SentForAttempts(c)' /\ HasAnAttempt(c)'
    BY DEF CallInv, Still, Unsettled, SentForAttempts, HasAnAttempt, AttemptsMax
  <1>4. Reported(c)' /\ Agreed(c)'
    BY DEF CallInv, Still, Reported, Agreed
  <1> QED
    BY <1>2, <1>3, <1>4 DEF CallInv

(* An action on one call leaves the others still.                           *)
LEMMA OthersKept ==
    ASSUME Inv, NEW c \in Calls, TypeOK', CallInv(c)',
           \A d \in Calls \ {c} : Still(d)
    PROVE  Inv'
  <1>1. ASSUME NEW d \in Calls \ {c} PROVE CallInv(d)'
    BY StillKept DEF Inv
  <1> QED
    BY <1>1 DEF Inv

(* A rung that does not change stays on its ladder.                         *)
LEMMA LadderKept ==
    ASSUME NEW c \in Calls, OnLadder(c), UNCHANGED <<adapter, structured, rung, rejected>>
    PROVE  OnLadder(c)'
  BY DEF OnLadder, Ladder

(* A policy has at least one attempt.                                       *)
LEMMA AttemptsCounted == AttemptsMax \in Nat /\ AttemptsMax >= 1
  BY ClientAssumption DEF AttemptsMax

(* A call that ends without an answer, having been charged what is lost.    *)
LEMMA EndsWithout ==
    ASSUME Inv, NEW c \in Calls, phase[c] = "sending", NEW class \in Classes, NEW u \in Nat,
           NEW why \in SUBSET Causes, why # {},
           End(c, class, 0), Charge(c, u, why),
           UNCHANGED <<adapter, structured, rung, attempt, sent, rejected, meant>>
    PROVE  Inv'
  <1>1. TypeOK'
    BY DEF Inv, TypeOK, End, Charge
  <1>2. /\ phase'[c] = "over" /\ reply'[c].usage = 0
        /\ charged'[c] = charged[c] + u
        /\ lost'[c] = IF u = 0 THEN lost[c] ELSE lost[c] \cup why
    BY DEF Inv, TypeOK, End, Charge
  <1>3. Unsettled(c) /\ OnLadder(c) /\ SentForAttempts(c) /\ charged[c] \in Nat
    BY DEF Inv, CallInv, TypeOK
  <1>4. OnLadder(c)'
    BY <1>3, LadderKept
  <1>5. Unsettled(c)' /\ HasAnAttempt(c)'
    BY <1>2 DEF Unsettled, HasAnAttempt
  <1>6. SentForAttempts(c)'
    BY <1>3 DEF SentForAttempts, AttemptsMax
  <1>7. Reported(c)'
    BY <1>2, <1>3 DEF Unsettled, Reported
  <1>8. Agreed(c)'
    BY <1>3 DEF Unsettled, Agreed
  <1>9. \A d \in Calls \ {c} : Still(d)
    BY DEF Inv, TypeOK, End, Charge, Still
  <1> QED
    BY <1>1, <1>4, <1>5, <1>6, <1>7, <1>8, <1>9, OthersKept DEF CallInv

(* A fate that costs nothing charges nothing.                               *)
LEMMA NothingCharged ==
    ASSUME TypeOK, NEW c \in Calls, NEW why, UNCHANGED <<charged, lost>>
    PROVE  Charge(c, 0, why)
  BY DEF TypeOK, Charge

(* Step by step: a call begins, ...                                         *)
LEMMA CallKeeps ==
    ASSUME Inv, NEW c \in Calls, Call(c)
    PROVE  Inv'
  <1>1. TypeOK'
    BY DEF Inv, TypeOK, Call
  <1>2. phase'[c] = "sending" /\ sent'[c] = 1 /\ rung[c] = 1 /\ attempt[c] = 1
    BY DEF Inv, TypeOK, CallInv, HasAnAttempt, Call
  <1>3. OnLadder(c)'
    BY LadderKept DEF Inv, CallInv, Call
  <1>4. Unsettled(c)' /\ Reported(c)' /\ Agreed(c)'
    BY <1>2 DEF Inv, CallInv, Call, Unsettled, Reported, Agreed
  <1>5. SentForAttempts(c)' /\ HasAnAttempt(c)'
    BY <1>2 DEF Call, SentForAttempts, HasAnAttempt
  <1>6. \A d \in Calls \ {c} : Still(d)
    BY DEF Inv, TypeOK, Call, Still
  <1> QED
    BY <1>1, <1>3, <1>4, <1>5, <1>6, OthersKept DEF CallInv

(* ... is answered, ...                                                     *)
LEMMA RespondsKeeps ==
    ASSUME Inv, NEW c \in Calls, Responds(c)
    PROVE  Inv'
  <1>1. PICK m \in MeaningsOf(adapter[c]), stated \in BOOLEAN :
        \E u \in 0..(IF adapter[c] = "brave" THEN 0 ELSE MaxCharge) :
        \E class \in Interpret(adapter[c], m, Rung(c)) :
            /\ meant' = [meant EXCEPT ![c] = m]
            /\ Charge(c, u, IF ~stated THEN {"omitted"}
                            ELSE IF class = "embedding_provider" THEN {"embedding"} ELSE {})
            /\ End(c, class, IF stated THEN UsageTold(adapter[c], class, u) ELSE 0)
    BY DEF Responds
  <1>2. PICK u \in 0..(IF adapter[c] = "brave" THEN 0 ELSE MaxCharge),
             class \in Interpret(adapter[c], m, Rung(c)) :
            /\ meant' = [meant EXCEPT ![c] = m]
            /\ Charge(c, u, IF ~stated THEN {"omitted"}
                            ELSE IF class = "embedding_provider" THEN {"embedding"} ELSE {})
            /\ End(c, class, IF stated THEN UsageTold(adapter[c], class, u) ELSE 0)
    BY <1>1
  <1> DEFINE told == IF stated THEN UsageTold(adapter[c], class, u) ELSE 0
             why == IF ~stated THEN {"omitted"}
                    ELSE IF class = "embedding_provider" THEN {"embedding"} ELSE {}
  <1>3. TypeOK /\ OnLadder(c) /\ Unsettled(c) /\ SentForAttempts(c) /\ phase[c] = "sending"
    BY DEF Inv, CallInv, Responds
  <1>4. adapter[c] \in AllAdapters /\ charged[c] \in Nat
    BY <1>3, ClientAssumption DEF TypeOK
  <1>5. u \in Nat /\ (adapter[c] = "brave" => u = 0)
    BY ClientAssumption
  <1>6. /\ m \in Meanings /\ class \in Classes
        /\ adapter[c] \in {"anthropic", "openai"} => Outcome(class) = OutcomeOfMeaning(m)
    BY <1>3, <1>4, RungNamed, Interpreted
  <1>7. told \in Nat /\ told <= u /\ (why = {} => told = u)
    BY <1>3, <1>4, <1>5, RungNamed, ToldIsCharged
  <1>8. /\ meant' = [meant EXCEPT ![c] = m]
        /\ Charge(c, u, why) /\ End(c, class, told)
        /\ UNCHANGED <<adapter, structured, rung, attempt, sent, rejected>>
    BY <1>2 DEF Responds
  <1>9. why \in SUBSET Causes
    BY DEF Causes
  <1> HIDE DEF told, why
  <1>10. TypeOK'
    BY <1>3, <1>5, <1>6, <1>7, <1>8, <1>9 DEF TypeOK, Charge, End
  <1>11. /\ phase'[c] = "over" /\ reply'[c].usage = told /\ reply'[c].class = class
         /\ charged'[c] = charged[c] + u /\ meant'[c] = m
         /\ lost'[c] = IF u = 0 THEN lost[c] ELSE lost[c] \cup why
    BY <1>3, <1>8 DEF TypeOK, Charge, End
  <1>12. OnLadder(c)'
    BY <1>3, <1>8, LadderKept
  <1>13. Unsettled(c)' /\ HasAnAttempt(c)' /\ SentForAttempts(c)'
    BY <1>3, <1>8, <1>11 DEF Unsettled, HasAnAttempt, SentForAttempts, AttemptsMax
  <1>14. Reported(c)'
    BY <1>3, <1>4, <1>5, <1>7, <1>11 DEF Unsettled, Reported
  <1>15. Agreed(c)'
    BY <1>6, <1>8, <1>11 DEF Agreed
  <1>16. \A d \in Calls \ {c} : Still(d)
    BY <1>3, <1>8 DEF TypeOK, Charge, End, Still
  <1> QED
    BY <1>10, <1>12, <1>13, <1>14, <1>15, <1>16, OthersKept DEF CallInv

(* The two ways a charged request ends a call unanswered.                   *)
LEMMA TimesOutKeeps ==
    ASSUME Inv, NEW c \in Calls, TimesOut(c) \/ Unreadable(c)
    PROVE  Inv'
  <1>1. PICK fate \in {"timeout", "unreadable"}, u \in 0..MaxCharge :
            /\ phase[c] = "sending"
            /\ Charge(c, u, {fate}) /\ End(c, Policy(c, fate), 0)
            /\ UNCHANGED <<adapter, structured, rung, attempt, sent, rejected, meant>>
    BY DEF TimesOut, Unreadable
  <1>2. Policy(c, fate) \in Classes
    BY PolicyClass, ClientAssumption DEF Inv, TypeOK
  <1>3. u \in Nat /\ {fate} \in SUBSET Causes
    BY ClientAssumption DEF Causes
  <1> QED
    BY <1>1, <1>2, <1>3, EndsWithout

(* ... is refused for good, ...                                             *)
LEMMA RejectedKeeps ==
    ASSUME Inv, NEW c \in Calls, Rejected(c)
    PROVE  Inv'
  <1>1. Policy(c, "refused") \in Classes
    BY PolicyClass, ClientAssumption DEF Inv, TypeOK
  <1>2. Charge(c, 0, {"transport"})
    BY NothingCharged DEF Inv, Rejected
  <1> QED
    BY <1>1, <1>2, EndsWithout DEF Rejected, Causes

(* A failed attempt is charged at most what its connection took with it.    *)
LEMMA RetryKeeps ==
    ASSUME Inv, NEW c \in Calls, phase[c] = "sending", Retry(c),
           NEW u \in Nat, Charge(c, u, {"transport"})
    PROVE  Inv'
  <1>1. CASE attempt[c] < AttemptsMax
    <2>1. /\ phase' = [phase EXCEPT ![c] = "backoff"]
          /\ UNCHANGED <<adapter, structured, rung, attempt, reply, sent, rejected, meant>>
      BY <1>1 DEF Retry
    <2>2. TypeOK /\ OnLadder(c) /\ Unsettled(c) /\ SentForAttempts(c) /\ charged[c] \in Nat
      BY DEF Inv, CallInv, TypeOK
    <2>3. TypeOK'
      BY <2>1, <2>2 DEF TypeOK, Charge, Causes
    <2>4. /\ phase'[c] = "backoff" /\ charged'[c] = charged[c] + u
          /\ lost'[c] = IF u = 0 THEN lost[c] ELSE lost[c] \cup {"transport"}
      BY <2>1, <2>2 DEF TypeOK, Charge
    <2>5. OnLadder(c)'
      BY <2>1, <2>2, LadderKept
    <2>6. Unsettled(c)'
      <3>1. lost'[c] \subseteq {"transport"}
        BY <2>2, <2>4 DEF Unsettled
      <3>2. lost'[c] = {} => u = 0 /\ lost[c] = {}
        BY <2>4
      <3> QED
        BY <2>1, <2>2, <2>4, <3>1, <3>2 DEF Unsettled
    <2>7. SentForAttempts(c)' /\ HasAnAttempt(c)' /\ Reported(c)' /\ Agreed(c)'
      BY <1>1, <2>1, <2>2, <2>4
      DEF Unsettled, SentForAttempts, HasAnAttempt, Reported, Agreed, AttemptsMax
    <2>8. \A d \in Calls \ {c} : Still(d)
      BY <2>1, <2>2 DEF TypeOK, Charge, Still
    <2> QED
      BY <2>3, <2>5, <2>6, <2>7, <2>8, OthersKept DEF CallInv
  <1>2. CASE ~(attempt[c] < AttemptsMax)
    <2>1. /\ End(c, "retries_exhausted", 0)
          /\ UNCHANGED <<adapter, structured, rung, attempt, sent, rejected, meant>>
      BY <1>2 DEF Retry
    <2> QED
      BY <2>1, EndsWithout DEF Classes, Causes
  <1> QED
    BY <1>1, <1>2

(* ... fails in a way that is retried, ...                                  *)
LEMMA FailuresKeep ==
    ASSUME Inv, NEW c \in Calls, Busy(c) \/ TransportFails(c)
    PROVE  Inv'
  <1>1. CASE Busy(c)
    <2>1. Charge(c, 0, {"transport"})
      BY <1>1, NothingCharged DEF Inv, Busy
    <2> QED
      BY <1>1, <2>1, RetryKeeps DEF Busy
  <1>2. CASE TransportFails(c)
    <2>1. PICK u \in 0..MaxCharge : Charge(c, u, {"transport"})
      BY <1>2 DEF TransportFails
    <2>2. u \in Nat
      BY ClientAssumption
    <2> QED
      BY <1>2, <2>1, <2>2, RetryKeeps DEF TransportFails
  <1> QED
    BY <1>1, <1>2

(* ... is sent again, ...                                                   *)
LEMMA BackoffEndsKeeps ==
    ASSUME Inv, NEW c \in Calls, BackoffEnds(c)
    PROVE  Inv'
  <1>1. TypeOK /\ OnLadder(c) /\ Unsettled(c) /\ SentForAttempts(c) /\ HasAnAttempt(c)
    BY DEF Inv, CallInv
  <1>2. attempt[c] < AttemptsMax /\ attempt[c] \in 1..AttemptsMax /\ sent[c] \in Nat
    BY <1>1 DEF HasAnAttempt, BackoffEnds, TypeOK
  <1>3. TypeOK'
    BY <1>1, <1>2, AttemptsCounted DEF TypeOK, BackoffEnds
  <1>4. phase'[c] = "sending" /\ attempt'[c] = attempt[c] + 1 /\ sent'[c] = sent[c] + 1
    BY <1>1 DEF TypeOK, BackoffEnds
  <1>5. OnLadder(c)'
    BY <1>1, LadderKept DEF BackoffEnds
  <1>6. Unsettled(c)' /\ HasAnAttempt(c)' /\ Reported(c)' /\ Agreed(c)'
    BY <1>1, <1>4 DEF BackoffEnds, Unsettled, HasAnAttempt, Reported, Agreed
  <1>7. SentForAttempts(c)'
    BY <1>1, <1>2, <1>4, AttemptsCounted DEF BackoffEnds, SentForAttempts, AttemptsMax
  <1>8. \A d \in Calls \ {c} : Still(d)
    BY <1>1 DEF TypeOK, BackoffEnds, Still
  <1> QED
    BY <1>3, <1>5, <1>6, <1>7, <1>8, OthersKept DEF CallInv

(* A rung is left by naming it rejected, and only where there is another.   *)
LEMMA UnsupportedKeeps ==
    ASSUME Inv, NEW c \in Calls, Unsupported(c)
    PROVE  Inv'
  <1>1. TypeOK /\ OnLadder(c) /\ Unsettled(c) /\ SentForAttempts(c)
    BY DEF Inv, CallInv
  <1>2. /\ Rung(c) \in RungNames /\ rung[c] \in 1..4 /\ Len(Ladder(c)) \in 1..4
        /\ attempt[c] \in 1..AttemptsMax /\ sent[c] \in Nat /\ charged[c] \in Nat
    BY <1>1, RungNamed DEF TypeOK
  <1>3. rejected'[c] = rejected[c] \cup {Ladder(c)[rung[c]]} /\ Ladder(c)' = Ladder(c)
    BY <1>1 DEF TypeOK, Unsupported, Rung, Ladder
  <1>4. CASE rung[c] < Len(Ladder(c))
    <2>1. /\ rung' = [rung EXCEPT ![c] = @ + 1] /\ attempt' = [attempt EXCEPT ![c] = 1]
          /\ sent' = [sent EXCEPT ![c] = @ + 1]
          /\ rejected' = [rejected EXCEPT ![c] = @ \cup {Rung(c)}]
          /\ UNCHANGED <<phase, reply, adapter, structured, charged, meant, lost>>
      BY <1>4 DEF Unsupported
    <2> DEFINE n == Len(Ladder(c))
    <2>A. n \in 1..4 /\ rung[c] < n
      BY <1>2, <1>4
    <2> HIDE DEF n
    <2>B. n # 1 /\ rung[c] + 1 \in 1..4
      BY <1>2, <2>A
    <2>2. TypeOK'
      <3>1. rung' \in [Calls -> 1..4] /\ attempt' \in [Calls -> 1..AttemptsMax]
        BY <1>1, <2>1, <2>B, AttemptsCounted DEF TypeOK
      <3>2. rejected' \in [Calls -> SUBSET RungNames]
        BY <1>1, <1>2, <2>1 DEF TypeOK
      <3>3. sent' \in [Calls -> Nat]
        BY <1>1, <2>1 DEF TypeOK
      <3> QED
        BY <1>1, <2>1, <3>1, <3>2, <3>3 DEF TypeOK, AttemptsMax
    <2>3. rung'[c] = rung[c] + 1 /\ attempt'[c] = 1 /\ sent'[c] = sent[c] + 1 /\ phase'[c] = "sending"
      BY <1>1, <2>1 DEF TypeOK, Unsupported
    <2>4. OnLadder(c)'
      <3>1. rung'[c] <= Len(Ladder(c)')
        BY <1>2, <1>3, <1>4, <2>3
      <3>2. ASSUME NEW r \in 1..(rung'[c] - 1) PROVE Ladder(c)[r] \in rejected'[c]
        BY <1>1, <1>2, <1>3, <2>3 DEF OnLadder
      <3>3. structured'[c] = "auto"
        <4>1. Len(Ladder(c)) # 1
          BY <2>B DEF n
        <4> QED
          BY <1>1, <2>1, <4>1, RungNamed
      <3> QED
        BY <1>3, <3>1, <3>2, <3>3 DEF OnLadder
    <2>5. Unsettled(c)' /\ HasAnAttempt(c)' /\ Reported(c)' /\ Agreed(c)'
      BY <1>1, <2>1, <2>3 DEF Unsettled, HasAnAttempt, Reported, Agreed
    <2>6. SentForAttempts(c)'
      BY <1>1, <1>2, <2>3, AttemptsCounted DEF SentForAttempts, AttemptsMax
    <2>7. \A d \in Calls \ {c} : Still(d)
      BY <1>1, <2>1 DEF TypeOK, Still
    <2> QED
      BY <2>2, <2>4, <2>5, <2>6, <2>7, OthersKept DEF CallInv
  <1>5. CASE ~(rung[c] < Len(Ladder(c)))
    <2>1. /\ End(c, "client", 0) /\ rejected' = [rejected EXCEPT ![c] = @ \cup {Rung(c)}]
          /\ UNCHANGED <<rung, attempt, sent, adapter, structured, charged, meant, lost>>
      BY <1>5 DEF Unsupported
    <2>2. TypeOK'
      BY <1>1, <1>2, <2>1 DEF TypeOK, End, Classes
    <2>3. phase'[c] = "over" /\ reply'[c].usage = 0 /\ phase[c] = "sending"
      BY <1>1, <2>1 DEF TypeOK, End, Unsupported
    <2>4. OnLadder(c)'
      BY <1>1, <1>3, <2>1 DEF OnLadder
    <2>5. Unsettled(c)' /\ HasAnAttempt(c)' /\ Reported(c)' /\ Agreed(c)'
      BY <1>1, <1>2, <2>1, <2>3 DEF Unsettled, HasAnAttempt, Reported, Agreed
    <2>6. SentForAttempts(c)'
      BY <1>1, <2>1 DEF SentForAttempts, AttemptsMax
    <2>7. \A d \in Calls \ {c} : Still(d)
      BY <1>1, <2>1 DEF TypeOK, End, Still
    <2> QED
      BY <2>2, <2>4, <2>5, <2>6, <2>7, OthersKept DEF CallInv
  <1> QED
    BY <1>4, <1>5

(* Every step keeps the invariant.                                          *)
LEMMA InvStep == Inv /\ [Next]_vars => Inv'
  <1> SUFFICES ASSUME Inv, [Next]_vars PROVE Inv'
    OBVIOUS
  <1>1. ASSUME NEW c \in Calls, Call(c) PROVE Inv'
    BY <1>1, CallKeeps
  <1>2. ASSUME NEW c \in Calls, Step(c) PROVE Inv'
    BY <1>2, RespondsKeeps, TimesOutKeeps, FailuresKeep, BackoffEndsKeeps, RejectedKeeps,
       UnsupportedKeeps DEF Step
  <1>3. CASE UNCHANGED vars
    <2>1. TypeOK'
      BY <1>3 DEF Inv, TypeOK, vars
    <2>2. ASSUME NEW c \in Calls PROVE CallInv(c)'
      BY <1>3, StillKept DEF Inv, Still, vars
    <2> QED
      BY <2>1, <2>2 DEF Inv
  <1> QED
    BY <1>1, <1>2, <1>3 DEF Next
-----------------------------------------------------------------------------
(* So it holds in every run.                                                *)
LEMMA Inductive == Spec => []Inv
  BY InvInit, InvStep, PTL DEF Spec

(* The state of the adapters is well-formed in every run.                   *)
THEOREM TypeCorrect == Spec => []TypeOK
  <1>1. Inv => TypeOK
    BY DEF Inv
  <1> QED
    BY <1>1, Inductive, PTL

(* An ended call reports what it was charged, but for the losses the code   *)
(* makes: metered() carries the usage of every response that was read.      *)
THEOREM UsageAlwaysSurvives == Spec => []UsageSurvives
  <1>1. Inv => UsageSurvives
    BY DEF Inv, CallInv, Reported, UsageSurvives
  <1> QED
    BY <1>1, Inductive, PTL

(* Both model adapters record a response under the outcome of its meaning,  *)
(* on every rung of the ladder.                                             *)
THEOREM AdaptersAlwaysAgree == Spec => []AdaptersAgree
  <1>1. Inv => AdaptersAgree
    BY DEF Inv, CallInv, Agreed, AdaptersAgree
  <1> QED
    BY <1>1, Inductive, PTL

(* The rung and the requests of a call are earned, in every state ...       *)
LEMMA InvEarned == Inv => LadderIsEarned
  <1> SUFFICES ASSUME Inv, NEW c \in Calls
               PROVE  /\ \A r \in 1..(rung[c] - 1) : Ladder(c)[r] \in rejected[c]
                      /\ structured[c] # "auto" => rung[c] = 1
                      /\ sent[c] <= rung[c] * AttemptsMax
    BY DEF LadderIsEarned
  <1>1. OnLadder(c) /\ SentForAttempts(c)
    BY DEF Inv, CallInv
  <1>2. rung[c] \in {1, 2, 3, 4} /\ attempt[c] \in 1..AttemptsMax /\ sent[c] \in Nat
    BY DEF Inv, TypeOK
  <1> DEFINE A == AttemptsMax
  <1>3. A \in Nat /\ attempt[c] <= A /\ attempt[c] \in Nat
    BY <1>2, AttemptsCounted
  <1>4. /\ rung[c] = 1 => sent[c] <= A + 0 * A
        /\ rung[c] = 2 => sent[c] <= A + A
        /\ rung[c] = 3 => sent[c] <= A + A + A
        /\ rung[c] = 4 => sent[c] <= A + A + A + A
    BY <1>1, <1>2, <1>3 DEF SentForAttempts
  <1> HIDE DEF A
  <1>5. sent[c] <= rung[c] * A
    BY <1>2, <1>3, <1>4
  <1> QED
    BY <1>1, <1>5 DEF OnLadder, A

(* ... and a step resends only what was not answered, and what cost nothing *)
(* but a connection that was lost.                                          *)
LEMMA StepResendsSafely ==
    Inv /\ [Next]_vars =>
        [\A c \in Calls : sent'[c] > sent[c] => lost[c] \subseteq {"transport"} /\ meant[c] = "nothing"]_vars
  <1> SUFFICES ASSUME Inv, Next, NEW c \in Calls, sent'[c] > sent[c]
               PROVE  lost[c] \subseteq {"transport"} /\ meant[c] = "nothing"
    OBVIOUS
  <1>1. TypeOK /\ Unsettled(c)
    BY DEF Inv, CallInv
  <1>2. PICK d \in Calls : Call(d) \/ Step(d)
    BY DEF Next
  <1>3. phase[d] # "over"
    BY <1>2 DEF Call, Step, Responds, TimesOut, Unreadable, Busy, TransportFails, BackoffEnds,
                Rejected, Unsupported
  <1>4. ~(sent[c] > sent[c])
    BY <1>1 DEF TypeOK
  <1>5. c = d
    <2> SUFFICES ASSUME c # d PROVE sent'[c] = sent[c]
      BY <1>4
    <2> QED
      BY <1>1, <1>2 DEF TypeOK, Call, Step, Responds, TimesOut, Unreadable, Busy, TransportFails,
                        BackoffEnds, Rejected, Unsupported, Retry
  <1> QED
    BY <1>1, <1>3, <1>5 DEF Unsettled

(* Every request is earned: a rung by a refusal of the one above it, within *)
(* its retries, and a resend by a failure without an answer that was no     *)
(* timeout, whatever its connection had cost.                               *)
THEOREM RequestsAlwaysEarned == Spec => RequestsAreEarned
  BY Inductive, InvEarned, StepResendsSafely, PTL DEF Spec, RequestsAreEarned, ResendsAreSafe
-----------------------------------------------------------------------------
(* The refinement.  A request of an open call is charged, and settles it    *)
(* or not.                                                                  *)
LEMMA Settles ==
    ASSUME Inv, NEW c \in Calls, phase[c] = "sending", NEW u \in 0..MaxCharge,
           NEW why, Charge(c, u, why),
           NEW class \in Classes, NEW usage \in 0..(charged[c] + u), End(c, class, usage)
    PROVE  Promise!Next
  <1>1. reply[c] = Open
    BY DEF Inv, CallInv, Unsettled
  <1> QED
    BY <1>1 DEF Promise!Next, Promise!Request, Charge, End

(* A retry is a stutter of the promise, or settles it.                      *)
LEMMA Retries ==
    ASSUME Inv, NEW c \in Calls, phase[c] = "sending", Retry(c),
           NEW u \in 0..MaxCharge, Charge(c, u, {"transport"})
    PROVE  Promise!Next
  <1>1. CASE attempt[c] < AttemptsMax
    <2>1. reply[c] = Open /\ UNCHANGED reply
      BY <1>1 DEF Inv, CallInv, Unsettled, Retry
    <2> QED
      BY <2>1 DEF Promise!Next, Promise!Request, Charge
  <1>2. CASE ~(attempt[c] < AttemptsMax)
    <2>1. End(c, "retries_exhausted", 0) /\ "retries_exhausted" \in Classes
      BY <1>2 DEF Retry, Classes
    <2>2. 0 \in 0..(charged[c] + u)
      BY ClientAssumption DEF Inv, TypeOK
    <2> QED
      BY <2>1, <2>2, Settles
  <1> QED
    BY <1>1, <1>2

(* An answer settles the promise.                                           *)
LEMMA RespondsSettles ==
    ASSUME Inv, NEW c \in Calls, Responds(c)
    PROVE  Promise!Next
  <1>1. PICK m \in MeaningsOf(adapter[c]), stated \in BOOLEAN :
        \E u \in 0..(IF adapter[c] = "brave" THEN 0 ELSE MaxCharge) :
        \E class \in Interpret(adapter[c], m, Rung(c)) :
            /\ Charge(c, u, IF ~stated THEN {"omitted"}
                            ELSE IF class = "embedding_provider" THEN {"embedding"} ELSE {})
            /\ End(c, class, IF stated THEN UsageTold(adapter[c], class, u) ELSE 0)
    BY DEF Responds
  <1>2. PICK u \in 0..(IF adapter[c] = "brave" THEN 0 ELSE MaxCharge),
             class \in Interpret(adapter[c], m, Rung(c)) :
            /\ Charge(c, u, IF ~stated THEN {"omitted"}
                            ELSE IF class = "embedding_provider" THEN {"embedding"} ELSE {})
            /\ End(c, class, IF stated THEN UsageTold(adapter[c], class, u) ELSE 0)
    BY <1>1
  <1> DEFINE told == IF stated THEN UsageTold(adapter[c], class, u) ELSE 0
  <1>3. adapter[c] \in AllAdapters /\ charged[c] \in Nat /\ Rung(c) \in RungNames
    BY RungNamed, ClientAssumption DEF Inv, CallInv, TypeOK
  <1>4. u \in 0..MaxCharge /\ u \in Nat /\ (adapter[c] = "brave" => u = 0)
    BY ClientAssumption
  <1>5. class \in Classes
    BY <1>3, Interpreted
  <1>6. told \in Nat /\ told <= u
    BY <1>3, <1>4, ToldIsCharged
  <1>7. told \in 0..(charged[c] + u)
    BY <1>3, <1>4, <1>6
  <1>8. phase[c] = "sending"
    BY DEF Responds
  <1> QED
    BY <1>2, <1>4, <1>5, <1>7, <1>8, Settles

(* Every step is one of the promise or leaves it alone.                     *)
LEMMA StepKeepsPromise ==
    Inv /\ [Next]_vars => [Promise!Next]_<<charged, reply>>
  <1> SUFFICES ASSUME Inv, [Next]_vars PROVE [Promise!Next]_<<charged, reply>>
    OBVIOUS
  <1>1. CASE UNCHANGED vars
    BY <1>1 DEF vars
  <1>2. ASSUME NEW c \in Calls, Call(c) \/ BackoffEnds(c) PROVE UNCHANGED <<charged, reply>>
    BY <1>2 DEF Call, BackoffEnds
  <1>3. ASSUME NEW c \in Calls, Responds(c) PROVE Promise!Next
    BY <1>3, RespondsSettles
  <1>4. ASSUME NEW c \in Calls PROVE 0 \in 0..MaxCharge /\ charged[c] \in Nat
    BY ClientAssumption DEF Inv, TypeOK
  <1>5. ASSUME NEW c \in Calls, TimesOut(c) \/ Unreadable(c) PROVE Promise!Next
    <2>1. PICK fate \in {"timeout", "unreadable"}, u \in 0..MaxCharge :
              phase[c] = "sending" /\ Charge(c, u, {fate}) /\ End(c, Policy(c, fate), 0)
      BY <1>5 DEF TimesOut, Unreadable
    <2>2. Policy(c, fate) \in Classes
      BY PolicyClass, ClientAssumption DEF Inv, TypeOK
    <2>3. 0 \in 0..(charged[c] + u)
      BY <1>4, ClientAssumption
    <2> QED
      BY <2>1, <2>2, <2>3, Settles
  <1>6. ASSUME NEW c \in Calls, Busy(c) \/ TransportFails(c) PROVE Promise!Next
    <2>1. Busy(c) => Charge(c, 0, {"transport"})
      BY NothingCharged DEF Inv, Busy
    <2>2. PICK u \in 0..MaxCharge : Charge(c, u, {"transport"})
      BY <1>4, <1>6, <2>1 DEF TransportFails
    <2> QED
      BY <1>6, <2>2, Retries DEF Busy, TransportFails
  <1>7. ASSUME NEW c \in Calls, Rejected(c) PROVE Promise!Next
    <2>1. Charge(c, 0, {"transport"}) /\ Policy(c, "refused") \in Classes
      BY <1>7, NothingCharged, PolicyClass, ClientAssumption DEF Inv, TypeOK, Rejected
    <2>2. 0 \in 0..(charged[c] + 0)
      BY <1>4
    <2> QED
      BY <1>4, <1>7, <2>1, <2>2, Settles DEF Rejected
  <1>8. ASSUME NEW c \in Calls, Unsupported(c) PROVE [Promise!Next]_<<charged, reply>>
    <2>1. CASE rung[c] < Len(Ladder(c))
      BY <1>8, <2>1 DEF Unsupported
    <2>2. CASE ~(rung[c] < Len(Ladder(c)))
      <3>1. Charge(c, 0, {"transport"}) /\ End(c, "client", 0) /\ "client" \in Classes
        BY <1>8, <2>2, NothingCharged DEF Inv, Unsupported, Classes
      <3>2. 0 \in 0..(charged[c] + 0)
        BY <1>4
      <3> QED
        BY <1>4, <1>8, <3>1, <3>2, Settles DEF Unsupported
    <2> QED
      BY <2>1, <2>2
  <1> QED
    BY <1>1, <1>2, <1>3, <1>5, <1>6, <1>7, <1>8 DEF Next, Step

(* The adapters implement traits/client.rs: whatever requests it takes, a   *)
(* call settles once, and reports no more than it was charged.              *)
THEOREM PromiseKept == Spec => KeepsPromise
  <1>1. Init => Promise!Init
    BY DEF Init, Promise!Init
  <1> QED
    BY <1>1, Inductive, StepKeepsPromise, PTL DEF Spec, KeepsPromise, Promise!Spec
-----------------------------------------------------------------------------
(* Induction on a set of numbers.                                           *)
LEMMA NumberInduction ==
    ASSUME NEW B, 0 \in B, \A n \in Nat : n \in B => n + 1 \in B
    PROVE  Nat \subseteq B
  <1> DEFINE Rest == Nat \ B
  <1> SUFFICES ASSUME Rest # {} PROVE FALSE
    OBVIOUS
  <1>1. PICK n \in Rest : \A m \in Rest : <<m, n>> \notin OpToRel(<, Nat)
    BY Zenon, WFMin, NatLessThanWellFounded
  <1>2. n # 0 /\ n - 1 \in Nat
    OBVIOUS
  <1>3. n - 1 \notin B
    BY <1>2
  <1>4. <<n - 1, n>> \in OpToRel(<, Nat)
    BY <1>2 DEF OpToRel
  <1> QED
    BY Zenon, <1>1, <1>2, <1>3, <1>4

(* A set of numbers that is not empty has a least element.                  *)
LEMMA LeastNumber ==
    ASSUME NEW S \in SUBSET Nat, S # {}
    PROVE  \E n \in S : \A m \in S : n <= m
  <1>1. PICK n \in S : \A m \in S : <<m, n>> \notin OpToRel(<, Nat)
    BY Zenon, WFMin, NatLessThanWellFounded
  <1>2. ASSUME NEW m \in S, ~(n <= m) PROVE FALSE
    <2>1. <<m, n>> \in OpToRel(<, Nat)
      BY <1>2 DEF OpToRel
    <2> QED
      BY Zenon, <1>1, <2>1
  <1> QED
    BY <1>2
-----------------------------------------------------------------------------
(* An input is of a kind, has elements, and a step keeps its kind.          *)
Shape ==
    /\ input = [kind |-> input.kind, items |-> input.items]
    /\ input.kind \in Kinds

(* An input grows by one element and keeps its kind.                        *)
LEMMA GrownKind ==
    ASSUME Shape, NEW kind, NEW element, Grown(kind, element)
    PROVE  /\ Shape' /\ input.kind = kind /\ input'.kind = kind
           /\ input'.items = Append(input.items, element)
  BY Zenon DEF Grown, Shape

(* What a step may be: the growth of some other input, or one of these.     *)
OtherKinds == Kinds \ {"schema", "store", "meters", "rows"}

GrowsOther == \E kind \in OtherKinds : \E element : Grown(kind, element)

(* A step grows an input, or is one of the steps on a schema, a store, a    *)
(* meter or the rows, some of which do more.                                *)
LEMMA Steps ==
    ASSUME InputNext
    PROVE  GrowsOther \/ Declare \/ Save \/ Recalls \/ Meter \/ Write \/ WriteOlder \/ Damage
  <1>1. Turn => GrowsOther
    BY Zenon DEF Turn, GrowsOther, OtherKinds, Kinds
  <1>2. Result => GrowsOther
    BY Zenon DEF Result, GrowsOther, OtherKinds, Kinds
  <1>3. Torn => GrowsOther
    BY Zenon DEF Torn, GrowsOther, OtherKinds, Kinds
  <1>4. Enter => GrowsOther
    BY Zenon DEF Enter, GrowsOther, OtherKinds, Kinds
  <1>5. Locate => GrowsOther
    BY Zenon DEF Locate, GrowsOther, OtherKinds, Kinds
  <1>6. Match => GrowsOther
    BY Zenon DEF Match, GrowsOther, OtherKinds, Kinds
  <1>7. Paginate => GrowsOther
    BY Zenon DEF Paginate, GrowsOther, OtherKinds, Kinds
  <1>8. Score => GrowsOther
    BY Zenon DEF Score, GrowsOther, OtherKinds, Kinds
  <1>9. Infer => GrowsOther
    BY Zenon DEF Infer, GrowsOther, OtherKinds, Kinds
  <1>10. Type => GrowsOther
    BY Zenon DEF Type, GrowsOther, OtherKinds, Kinds
  <1>11. Form => GrowsOther
    BY Zenon DEF Form, GrowsOther, OtherKinds, Kinds
  <1>12. Tell => GrowsOther
    BY Zenon DEF Tell, GrowsOther, OtherKinds, Kinds
  <1>13. Ask => GrowsOther
    BY Zenon DEF Ask, GrowsOther, OtherKinds, Kinds
  <1>14. Hit => GrowsOther
    BY Zenon DEF Hit, GrowsOther, OtherKinds, Kinds
  <1>15. Cite => GrowsOther
    BY Zenon DEF Cite, GrowsOther, OtherKinds, Kinds
  <1>16. Conclude => GrowsOther
    BY Zenon DEF Conclude, GrowsOther, OtherKinds, Kinds
  <1>17. Back => GrowsOther
    BY Zenon DEF Back, GrowsOther, OtherKinds, Kinds
  <1>18. Wrap => GrowsOther
    BY Zenon DEF Wrap, GrowsOther, OtherKinds, Kinds
  <1>19. ReadVariable => GrowsOther
    BY Zenon DEF ReadVariable, GrowsOther, OtherKinds, Kinds
  <1>20. State => GrowsOther
    BY Zenon DEF State, GrowsOther, OtherKinds, Kinds
  <1> QED
    BY <1>1, <1>2, <1>3, <1>4, <1>5, <1>6, <1>7, <1>8, <1>9, <1>10, <1>11, <1>12, <1>13, <1>14, <1>15, <1>16, <1>17, <1>18, <1>19, <1>20 DEF InputNext

(* A step keeps the kind of the input.                                      *)
LEMMA ShapeStep ==
    ASSUME Shape, [InputNext]_input
    PROVE  Shape' /\ input'.kind = input.kind
  <1>1. CASE UNCHANGED input
    BY <1>1 DEF Shape
  <1>2. CASE GrowsOther
    BY <1>2, GrownKind DEF GrowsOther
  <1>3. CASE Declare
    BY <1>3, GrownKind DEF Declare
  <1>4. CASE Save
    BY <1>4, GrownKind DEF Save
  <1>5. CASE Recalls
    BY <1>5 DEF Recalls, Shape
  <1>6. CASE Meter
    BY <1>6, GrownKind DEF Meter
  <1>7. CASE Write
    BY <1>7, GrownKind DEF Write
  <1>8. CASE WriteOlder
    BY <1>8, GrownKind DEF WriteOlder
  <1>9. CASE Damage
    BY <1>9 DEF Damage, Shape
  <1> QED
    BY <1>1, <1>2, <1>3, <1>4, <1>5, <1>6, <1>7, <1>8, <1>9, Steps

(* An input starts with nothing in it.                                      *)
LEMMA ShapeInit == InputInit => Shape /\ input.items = <<>>
  BY DEF InputInit, Shape, Empty

-----------------------------------------------------------------------------
(* Folds.  A fold takes the elements of a finite set one after the other,   *)
(* each time the one that ch chooses of those that are left.                *)

Chooses(ch, S) == \A s \in SUBSET S : s # {} => ch[s] \in s

(* f folds O over the subsets of S.                                         *)
FoldsOver(f, O, base, ch, S) ==
    /\ f[{}] = base
    /\ \A s \in SUBSET S : s # {} => f[s] = O[ch[s]][f[s \ {ch[s]}]]

(* There is a fold, with its values where those of O and the base are.      *)
LEMMA FoldExists ==
    ASSUME NEW S, IsFiniteSet(S), NEW A, NEW base \in A, NEW O \in [S -> [A -> A]],
           NEW ch, Chooses(ch, S)
    PROVE  \E f \in [SUBSET S -> A] : FoldsOver(f, O, base, ch, S)
  <1> DEFINE Upto(f, n) == \A s \in SUBSET S :
                 s # {} /\ Cardinality(s) <= n => f[s] = O[ch[s]][f[s \ {ch[s]}]]
             B == {n \in Nat : \E f \in [SUBSET S -> A] : f[{}] = base /\ Upto(f, n)}
  <1>1. \A s \in SUBSET S : IsFiniteSet(s) /\ Cardinality(s) \in Nat /\ Cardinality(s) <= Cardinality(S)
    BY FS_Subset, FS_CardinalityType
  <1>2. \A s \in SUBSET S : Cardinality(s) = 0 <=> s = {}
    BY <1>1, FS_EmptySet
  <1>3. 0 \in B
    <2> DEFINE f == [s \in SUBSET S |-> base]
    <2>1. f \in [SUBSET S -> A] /\ f[{}] = base
      OBVIOUS
    <2>2. Upto(f, 0)
      <3> SUFFICES ASSUME NEW s \in SUBSET S, s # {}, Cardinality(s) <= 0 PROVE FALSE
        OBVIOUS
      <3> QED
        BY <1>1, <1>2
    <2> HIDE DEF f, Upto
    <2> QED
      BY <2>1, <2>2
  <1>4. ASSUME NEW n \in Nat, n \in B PROVE n + 1 \in B
    <2>1. PICK f \in [SUBSET S -> A] : f[{}] = base /\ Upto(f, n)
      BY Zenon, <1>4
    <2> DEFINE Extended(s) == O[ch[s]][f[s \ {ch[s]}]]
               g == [s \in SUBSET S |-> IF Cardinality(s) = n + 1 THEN Extended(s) ELSE f[s]]
    <2>2. ASSUME NEW s \in SUBSET S, s # {}
          PROVE  /\ ch[s] \in s /\ s \ {ch[s]} \in SUBSET S
                 /\ Cardinality(s \ {ch[s]}) = Cardinality(s) - 1
      <3>1. ch[s] \in s
        BY <2>2 DEF Chooses
      <3> QED
        BY Zenon, <1>1, <3>1, FS_RemoveElement
    <2>3. ASSUME NEW s \in SUBSET S, s # {} PROVE Extended(s) \in A
      <3>1. ch[s] \in S /\ f[s \ {ch[s]}] \in A
        BY Zenon, <2>2, <2>3
      <3> QED
        BY <3>1
    <2>4. g \in [SUBSET S -> A]
      <3>1. ASSUME NEW s \in SUBSET S PROVE (IF Cardinality(s) = n + 1 THEN Extended(s) ELSE f[s]) \in A
        <4>1. CASE Cardinality(s) = n + 1
          <5>1. s # {}
            BY <1>2, <4>1
          <5> QED
            BY Zenon, <2>3, <4>1, <5>1
        <4> QED
          BY <4>1
      <3> HIDE DEF Extended
      <3> QED
        BY <3>1
    <2>5. g[{}] = base
      <3>1. Cardinality({}) = 0 /\ {} \in SUBSET S
        BY FS_EmptySet
      <3> QED
        BY <2>1, <3>1
    <2>6. Upto(g, n + 1)
      <3> SUFFICES ASSUME NEW s \in SUBSET S, s # {}, Cardinality(s) <= n + 1
                   PROVE  g[s] = O[ch[s]][g[s \ {ch[s]}]]
        BY Zenon
      <3>1. g[s \ {ch[s]}] = f[s \ {ch[s]}]
        <4>1. Cardinality(s \ {ch[s]}) # n + 1 /\ s \ {ch[s]} \in SUBSET S
          BY <1>1, <2>2
        <4> QED
          BY <4>1
      <3>2. CASE Cardinality(s) = n + 1
        BY Zenon, <3>1, <3>2
      <3>3. CASE Cardinality(s) <= n
        <4>1. Cardinality(s) # n + 1
          BY <1>1, <3>3
        <4>2. g[s] = f[s]
          BY <4>1
        <4>3. f[s] = O[ch[s]][f[s \ {ch[s]}]]
          BY Zenon, <2>1, <3>3
        <4> QED
          BY Zenon, <3>1, <4>2, <4>3
      <3>4. Cardinality(s) = n + 1 \/ Cardinality(s) <= n
        BY <1>1
      <3> QED
        BY Zenon, <3>2, <3>3, <3>4
    <2> HIDE DEF g, Upto
    <2> QED
      BY <2>4, <2>5, <2>6
  <1> HIDE DEF B
  <1>5. Cardinality(S) \in B
    BY <1>1, <1>3, <1>4, NumberInduction
  <1>6. PICK f \in [SUBSET S -> A] : f[{}] = base /\ Upto(f, Cardinality(S))
    BY Zenon, <1>5 DEF B
  <1> QED
    BY Zenon, <1>1, <1>6 DEF FoldsOver

(* Two functions of the subsets of S are the same when they begin alike and *)
(* each step from the same value leads to the same value.                   *)
StepAlike(f, g, ch, S) ==
    /\ f[{}] = g[{}]
    /\ \A s \in SUBSET S : s # {} /\ f[s \ {ch[s]}] = g[s \ {ch[s]}] => f[s] = g[s]

(* Any two folds of a finite set along the same choice of elements agree.   *)
LEMMA FoldIsOne ==
    ASSUME NEW S, IsFiniteSet(S), NEW ch, Chooses(ch, S), NEW f, NEW g, StepAlike(f, g, ch, S)
    PROVE  f[S] = g[S]
  <1> DEFINE B == {n \in Nat : \A s \in SUBSET S : Cardinality(s) = n => f[s] = g[s]}
  <1>1. \A s \in SUBSET S : IsFiniteSet(s) /\ Cardinality(s) \in Nat
    BY FS_Subset, FS_CardinalityType
  <1>2. 0 \in B
    BY Zenon, <1>1, FS_EmptySet DEF StepAlike
  <1>3. ASSUME NEW n \in Nat, n \in B PROVE n + 1 \in B
    <2>1. ASSUME NEW s \in SUBSET S, Cardinality(s) = n + 1 PROVE f[s] = g[s]
      <3>1. s # {}
        BY <2>1, FS_EmptySet
      <3>2. ch[s] \in s
        BY <3>1 DEF Chooses
      <3>3. Cardinality(s \ {ch[s]}) = Cardinality(s) - 1
        BY <1>1, <3>2, FS_RemoveElement
      <3>4. Cardinality(s \ {ch[s]}) = n /\ s \ {ch[s]} \in SUBSET S
        BY <2>1, <3>3
      <3> QED
        BY <1>3, <3>1, <3>4 DEF StepAlike
    <2> QED
      BY <2>1
  <1> HIDE DEF B
  <1>4. Nat \subseteq B
    BY <1>2, <1>3, NumberInduction
  <1> QED
    BY <1>1, <1>4 DEF B

(* The largest of some numbers up to n.                                     *)
LEMMA MaxOf ==
    ASSUME NEW n \in Nat, NEW s \in SUBSET (1..n), s # {}
    PROVE  Max(s) \in s /\ \A y \in s : Max(s) >= y
  <1> DEFINE T == {n - x : x \in s}
  <1>1. T \in SUBSET Nat /\ T # {}
    <2>1. \A x \in s : n - x \in Nat
      OBVIOUS
    <2> QED
      BY Zenon, <2>1
  <1>2. PICK t \in T : \A u \in T : t <= u
    BY Zenon, <1>1, LeastNumber
  <1>3. PICK x \in s : t = n - x
    OBVIOUS
  <1>4. \A y \in s : x >= y
    <2> TAKE y \in s
    <2>1. t <= n - y
      BY <1>2
    <2> QED
      BY <1>3, <2>1
  <1> QED
    BY <1>4 DEF Max

(* A fold of a prefix of the numbers takes its last one first.              *)
LEMMA MaxOfPrefix ==
    ASSUME NEW n \in Nat, NEW k \in 1..n
    PROVE  Max(1..k) = k /\ (1..k) \ {k} = 1..(k - 1)
  <1>1. 1..k \in SUBSET (1..n) /\ 1..k # {} /\ k \in 1..k
    OBVIOUS
  <1>2. Max(1..k) \in 1..k /\ Max(1..k) >= k
    BY Zenon, <1>1, MaxOf
  <1> QED
    BY <1>2

(* A fold of a sequence goes along it.                                      *)
GoesAlong(f, O, base, n) ==
    /\ f[{}] = base
    /\ \A s \in SUBSET (1..n) : s # {} => f[s] = O[Max(s)][f[s \ {Max(s)}]]

(* A fold along a sequence exists, whatever a step of it does.              *)
LEMMA PrefixFold ==
    ASSUME NEW n \in Nat, NEW A, NEW base \in A, NEW O \in [1..n -> [A -> A]]
    PROVE  \E f \in [SUBSET (1..n) -> A] : GoesAlong(f, O, base, n)
  <1> DEFINE ch == [s \in SUBSET (1..n) |-> Max(s)]
  <1>1. IsFiniteSet(1..n)
    BY FS_Interval
  <1>2. Chooses(ch, 1..n)
    BY Zenon, MaxOf DEF Chooses
  <1>3. PICK f \in [SUBSET (1..n) -> A] : FoldsOver(f, O, base, ch, 1..n)
    BY <1>1, <1>2, FoldExists, Zenon
  <1> QED
    BY Zenon, <1>3 DEF FoldsOver, GoesAlong
-----------------------------------------------------------------------------
(* Transcripts.  A line is a message with tool uses, a result or torn.      *)
ToolUse == [id : Nat \X Nat, action : Actions, noise : Nat]

IsLine(line) ==
    \/ line.type = "turn" /\ line.uses \in Seq(ToolUse)
    \/ line.type = "result" /\ line.error \in BOOLEAN
    \/ line.type = "torn"

(* A sequence of n lines whose tool uses have identifiers of their own.     *)
Lines(L, n) == n \in Nat /\ L = [l \in 1..n |-> L[l]] /\ \A l \in 1..n : IsLine(L[l])

OwnIds(L) == \A c, d \in CallsOf(L) : UseAt(L, c).id = UseAt(L, d).id => c = d

UsesTools(L, l) == L[l].type = "turn" /\ L[l].uses # <<>>

(* The calls of a transcript, and what each is.                             *)
IsCall(L, c) == c = <<c[1], c[2]>> /\ c[1] \in DOMAIN L /\ L[c[1]].type = "turn" /\ c[2] \in DOMAIN L[c[1]].uses

(* A call is a tool use of a message.                                       *)
LEMMA CallsAre ==
    ASSUME NEW L, NEW c
    PROVE  c \in CallsOf(L) <=> IsCall(L, c)
  <1>1. ASSUME c \in CallsOf(L) PROVE IsCall(L, c)
    <2>1. PICK l \in {l \in DOMAIN L : L[l].type = "turn"} : c \in {l} \X DOMAIN L[l].uses
      BY <1>1 DEF CallsOf
    <2> QED
      BY <2>1 DEF IsCall
  <1>2. ASSUME IsCall(L, c) PROVE c \in CallsOf(L)
    <2>1. c \in {c[1]} \X DOMAIN L[c[1]].uses
      BY <1>2 DEF IsCall
    <2> QED
      BY <1>2, <2>1 DEF CallsOf, IsCall
  <1> QED
    BY <1>1, <1>2

(* Its places are numbers, and its use is one of those there are.           *)
LEMMA CallType ==
    ASSUME NEW L, NEW n, Lines(L, n), NEW c \in CallsOf(L)
    PROVE  /\ c = <<c[1], c[2]>> /\ c[1] \in 1..n /\ c[2] \in Nat \ {0}
           /\ UseAt(L, c) \in ToolUse /\ UsesTools(L, c[1])
  <1>1. /\ c = <<c[1], c[2]>> /\ c[1] \in 1..n /\ L[c[1]].type = "turn" /\ c[2] \in DOMAIN L[c[1]].uses
    BY Zenon, CallsAre DEF IsCall, Lines
  <1> DEFINE line == L[c[1]]
             uses == line.uses
  <1>2. uses \in Seq(ToolUse)
    BY <1>1 DEF Lines, IsLine
  <1>3. UseAt(L, c) = uses[c[2]]
    BY DEF UseAt
  <1>4. uses # <<>> => UsesTools(L, c[1])
    BY <1>1 DEF UsesTools
  <1> HIDE DEF uses
  <1>5. c[2] \in 1..Len(uses) /\ uses[c[2]] \in ToolUse /\ uses # <<>>
    BY <1>1, <1>2 DEF uses
  <1> QED
    BY <1>1, <1>3, <1>4, <1>5

(* The states of the parser.                                                *)
Item == [batch : Nat, id : Nat \X Nat, identity : {<<a>> : a \in Actions}, failed : BOOLEAN]

ParseStates == [batch : Nat, entries : Seq(Item)]

ParseStart == [batch |-> 0, entries |-> <<>>]

(* The entries of a message.                                                *)
Entering(line, batch) == [k \in DOMAIN line.uses |-> Entered(line.uses[k], batch)]

IsBlock(block, uses, batch) ==
    /\ block \in Seq(Item) /\ Len(block) = Len(uses)
    /\ \A k \in 1..Len(uses) :
        /\ block[k].batch = batch /\ block[k].id = uses[k].id /\ block[k].identity = <<uses[k].action>>
        /\ block[k].failed = FALSE

(* A message enters an entry for each of its tool uses.                     *)
LEMMA BlockType ==
    ASSUME NEW line, line.uses \in Seq(ToolUse), NEW batch \in Nat
    PROVE  IsBlock(Entering(line, batch), line.uses, batch)
  <1> DEFINE uses == line.uses
             block == Entering(line, batch)
  <1>1. Len(uses) \in Nat /\ DOMAIN uses = 1..Len(uses) /\ \A k \in 1..Len(uses) : uses[k] \in ToolUse
    OBVIOUS
  <1>2. block = [k \in 1..Len(uses) |-> block[k]] /\ \A k \in 1..Len(uses) : block[k] = Entered(uses[k], batch)
    BY <1>1 DEF Entering
  <1> HIDE DEF block, uses
  <1>3. ASSUME NEW k \in 1..Len(uses)
        PROVE  /\ block[k] \in Item /\ block[k].batch = batch /\ block[k].id = uses[k].id
               /\ block[k].identity = <<uses[k].action>> /\ block[k].failed = FALSE
    <2>1. uses[k].id \in Nat \X Nat /\ uses[k].action \in Actions
      BY <1>1 DEF ToolUse
    <2>2. block[k] = [batch |-> batch, id |-> uses[k].id, identity |-> <<uses[k].action>>, failed |-> FALSE]
      BY <1>2 DEF Entered, Identity
    <2> QED
      BY <2>1, <2>2 DEF Item
  <1>4. block \in Seq(Item) /\ Len(block) = Len(uses)
    <2> DEFINE m == Len(uses)
    <2>1. m \in Nat /\ block = [k \in 1..m |-> block[k]] /\ \A k \in 1..m : block[k] \in Item
      BY Zenon, <1>1, <1>2, <1>3
    <2> HIDE DEF m
    <2>2. block \in Seq(Item) /\ Len(block) = m
      BY <2>1
    <2> QED
      BY <2>2 DEF m
  <1>5. IsBlock(block, uses, batch)
    BY Zenon, <1>3, <1>4 DEF IsBlock
  <1> QED
    BY <1>5 DEF block, uses

(* What one line does to what was parsed.                                   *)
IsMarked(fs, es, k) ==
    /\ fs \in Seq(Item) /\ Len(fs) = Len(es) /\ k \in 1..Len(es)
    /\ fs[k].failed = TRUE
    /\ fs[k].batch = es[k].batch /\ fs[k].id = es[k].id /\ fs[k].identity = es[k].identity
    /\ \A j \in 1..Len(es) : j # k => fs[j] = es[j]

MarksFailed(line) == line.type = "result" /\ line.error

(* An entry marked as failed is otherwise what it was.                      *)
LEMMA MarkedIs ==
    ASSUME NEW es \in Seq(Item), NEW k \in 1..Len(es)
    PROVE  IsMarked([es EXCEPT ![k].failed = TRUE], es, k)
  <1> DEFINE e == [es[k] EXCEPT !.failed = TRUE]
             fs == [es EXCEPT ![k] = e]
  <1>1. es[k] \in Item
    OBVIOUS
  <1>2. e \in Item /\ e.failed = TRUE /\ e.batch = es[k].batch /\ e.id = es[k].id /\ e.identity = es[k].identity
    BY Zenon, <1>1 DEF Item
  <1>3. [es EXCEPT ![k].failed = TRUE] = fs
    OBVIOUS
  <1> HIDE DEF e
  <1>4. /\ fs \in Seq(Item) /\ Len(fs) = Len(es) /\ fs[k] = e
        /\ \A j \in 1..Len(es) : j # k => fs[j] = es[j]
    BY <1>2
  <1> QED
    BY Zenon, <1>2, <1>3, <1>4 DEF IsMarked

(* A message that uses tools.                                               *)
LEMMA ParseTurn ==
    ASSUME NEW s, NEW line, line.type = "turn", line.uses # <<>>
    PROVE  ParseLine(s, line)
             = [batch |-> s.batch + 1, entries |-> s.entries \o Entering(line, s.batch + 1)]
  BY Zenon DEF ParseLine, Entering

(* An error that names an entry.                                            *)
LEMMA ParseError ==
    ASSUME NEW s, NEW line, MarksFailed(line), EntryOf(s.entries, line.id) # {}
    PROVE  ParseLine(s, line) = [s EXCEPT !.entries[Max(EntryOf(s.entries, line.id))].failed = TRUE]
  <1>1. ~(line.type = "turn" /\ line.uses # <<>>)
    BY DEF MarksFailed
  <1>2. line.type = "result" /\ line.error /\ EntryOf(s.entries, line.id) # {}
    BY DEF MarksFailed
  <1> QED
    BY <1>1, <1>2, Zenon DEF ParseLine

(* Any other line.                                                          *)
LEMMA ParseOther ==
    ASSUME NEW s, NEW line, ~(line.type = "turn" /\ line.uses # <<>>),
           ~(MarksFailed(line) /\ EntryOf(s.entries, line.id) # {})
    PROVE  ParseLine(s, line) = s
  BY Zenon DEF ParseLine, MarksFailed

(* The entry an error marks.                                                *)
LEMMA ParseMarks ==
    ASSUME NEW s \in ParseStates, NEW line, MarksFailed(line), EntryOf(s.entries, line.id) # {}
    PROVE  /\ ParseLine(s, line).batch = s.batch
           /\ ParseLine(s, line) \in ParseStates
           /\ \E k \in EntryOf(s.entries, line.id) : IsMarked(ParseLine(s, line).entries, s.entries, k)
  <1> DEFINE es == s.entries
             K == EntryOf(es, line.id)
             k == Max(K)
             fs == [es EXCEPT ![k].failed = TRUE]
             t == ParseLine(s, line)
  <1>1. es \in Seq(Item) /\ s.batch \in Nat /\ s = [batch |-> s.batch, entries |-> es]
    BY DEF ParseStates
  <1>2. t = [s EXCEPT !.entries = fs]
    BY ParseError
  <1>3. K \in SUBSET (1..Len(es)) /\ Len(es) \in Nat
    BY <1>1 DEF EntryOf
  <1> HIDE DEF K, es
  <1>4. k \in K
    BY Zenon, <1>3, MaxOf DEF K, es
  <1>5. k \in 1..Len(es)
    BY Zenon, <1>3, <1>4
  <1> HIDE DEF k, t
  <1>6. IsMarked(fs, es, k)
    BY <1>1, <1>5, MarkedIs
  <1> HIDE DEF fs
  <1>7. t = [batch |-> s.batch, entries |-> fs]
    BY <1>1, <1>2
  <1>8. fs \in Seq(Item)
    BY <1>6 DEF IsMarked
  <1> QED
    BY <1>1, <1>4, <1>6, <1>7, <1>8 DEF ParseStates, t, K, es

(* A line leads to a state of the parser.                                   *)
LEMMA ParseType ==
    ASSUME NEW s \in ParseStates, NEW line, IsLine(line)
    PROVE  ParseLine(s, line) \in ParseStates
  <1>1. CASE line.type = "turn" /\ line.uses # <<>>
    <2> DEFINE block == Entering(line, s.batch + 1)
    <2>1. s.batch + 1 \in Nat /\ s.entries \in Seq(Item)
      BY DEF ParseStates
    <2>2. line.uses \in Seq(ToolUse)
      BY <1>1 DEF IsLine
    <2>3. block \in Seq(Item)
      BY Zenon, <2>1, <2>2, BlockType DEF IsBlock
    <2> HIDE DEF block
    <2>4. s.entries \o block \in Seq(Item)
      BY <2>1, <2>3
    <2>5. ParseLine(s, line) = [batch |-> s.batch + 1, entries |-> s.entries \o block]
      BY Zenon, <1>1, ParseTurn DEF block
    <2> QED
      BY <2>1, <2>4, <2>5 DEF ParseStates
  <1>2. CASE MarksFailed(line) /\ EntryOf(s.entries, line.id) # {}
    BY <1>2, ParseMarks
  <1>3. CASE ~(line.type = "turn" /\ line.uses # <<>>) /\ ~(MarksFailed(line) /\ EntryOf(s.entries, line.id) # {})
    BY <1>3, ParseOther
  <1> QED
    BY <1>1, <1>2, <1>3

(* f parses the lines at some places, the last of them last.                *)
ParsesOver(f, L) ==
    f = [p \in SUBSET DOMAIN L |-> IF p = {} THEN ParseStart ELSE ParseLine(f[p \ {Max(p)}], L[Max(p)])]

(* What is parsed, as the fold of the lines.                                *)
LEMMA ParseFunction ==
    ASSUME NEW L
    PROVE  ParseLines(L) = (CHOOSE f : ParsesOver(f, L))[DOMAIN L].entries
  BY Zenon DEF ParseLines, FoldLeft, MapThenFoldSet, ParsesOver, ParseStart

(* A fold along a sequence is a run: each value is the step of the one      *)
(* before it.                                                               *)
Runs(h, O, base, n) == h[0] = base /\ \A k \in 1..n : h[k] = O[k][h[k - 1]]

EndsLike(f, O, base, n, A) == \E h \in [0..n -> A] : Runs(h, O, base, n) /\ h[n] = f[1..n]

(* What f steps to where it has the value a.                                *)
StepsBy(f, O, base, n, A) ==
    /\ f[{}] = base
    /\ \A p \in SUBSET (1..n) : \A a \in A : p # {} /\ f[p \ {Max(p)}] = a => f[p] = O[Max(p)][a]

(* A function that takes these steps ends like such a run.                  *)
LEMMA PrefixRun ==
    ASSUME NEW n \in Nat, NEW A, NEW base \in A, NEW O \in [1..n -> [A -> A]],
           NEW f, StepsBy(f, O, base, n, A)
    PROVE  EndsLike(f, O, base, n, A)
  <1> DEFINE ch == [s \in SUBSET (1..n) |-> Max(s)]
             Upto(k) == 1..k
             h == [k \in 0..n |-> f[Upto(k)]]
  <1>1. PICK g \in [SUBSET (1..n) -> A] : GoesAlong(g, O, base, n)
    BY Zenon, PrefixFold
  <1>2. Chooses(ch, 1..n)
    BY Zenon, MaxOf DEF Chooses
  <1>3. ASSUME NEW s \in SUBSET (1..n), s # {}
        PROVE  /\ ch[s] = Max(s) /\ s \ {Max(s)} \in SUBSET (1..n) /\ g[s \ {Max(s)}] \in A
               /\ f[s \ {Max(s)}] = g[s \ {Max(s)}] => f[s] = g[s]
    <2>1. ch[s] = Max(s) /\ s \ {Max(s)} \in SUBSET (1..n)
      BY Zenon
    <2>2. g[s \ {Max(s)}] \in A
      BY <2>1
    <2>3. g[s] = O[Max(s)][g[s \ {Max(s)}]]
      BY <1>1, <1>3 DEF GoesAlong
    <2>4. f[s \ {Max(s)}] = g[s \ {Max(s)}] => f[s] = O[Max(s)][g[s \ {Max(s)}]]
      BY Zenon, <1>3, <2>2 DEF StepsBy
    <2> QED
      BY <2>1, <2>2, <2>3, <2>4
  <1>4. ASSUME NEW k \in 0..n PROVE Upto(k) \in SUBSET (1..n)
    OBVIOUS
  <1>5. \A k \in 1..n : Max(Upto(k)) = k /\ Upto(k) \ {k} = Upto(k - 1) /\ Upto(k) # {}
    <2> TAKE k \in 1..n
    <2>1. k \in Upto(k)
      OBVIOUS
    <2> QED
      BY Zenon, <2>1, MaxOfPrefix
  <1>6. Upto(0) = {}
    OBVIOUS
  <1> HIDE DEF ch
  <1>7. ASSUME NEW s \in SUBSET (1..n) PROVE f[s] = g[s]
    <2>1. IsFiniteSet(s)
      <3>1. IsFiniteSet(1..n)
        BY FS_Interval
      <3> QED
        BY Zenon, <3>1, FS_Subset
    <2>2. Chooses(ch, s)
      BY <1>2 DEF Chooses
    <2>3. StepAlike(f, g, ch, s)
      <3>1. f[{}] = g[{}]
        BY <1>1 DEF StepsBy, GoesAlong
      <3>2. \A p \in SUBSET s : p # {} /\ f[p \ {ch[p]}] = g[p \ {ch[p]}] => f[p] = g[p]
        BY Zenon, <1>3
      <3> QED
        BY Zenon, <3>1, <3>2 DEF StepAlike
    <2> QED
      BY Zenon, <2>1, <2>2, <2>3, FoldIsOne
  <1> HIDE DEF Upto
  <1>8. h \in [0..n -> A]
    BY <1>4, <1>7
  <1>9. Runs(h, O, base, n)
    <2>1. h[0] = base
      <3>1. 0 \in 0..n
        OBVIOUS
      <3> QED
        BY Zenon, <1>6, <3>1 DEF StepsBy
    <2>2. ASSUME NEW k \in 1..n PROVE h[k] = O[k][h[k - 1]]
      <3>1. k \in 0..n /\ k - 1 \in 0..n
        OBVIOUS
      <3>2. h[k] = f[Upto(k)] /\ h[k - 1] = f[Upto(k) \ {Max(Upto(k))}] /\ h[k - 1] \in A
        <4>1. h[k] = f[Upto(k)] /\ h[k - 1] = f[Upto(k - 1)] /\ h[k - 1] \in A
          BY <1>8, <3>1
        <4>2. Upto(k) \ {Max(Upto(k))} = Upto(k - 1)
          BY <1>5
        <4> QED
          BY Zenon, <4>1, <4>2
      <3>3. Upto(k) \in SUBSET (1..n) /\ Upto(k) # {} /\ Max(Upto(k)) = k
        BY <1>4, <1>5, <3>1
      <3> DEFINE p == Upto(k)
                 a == h[k - 1]
      <3>4. p \in SUBSET (1..n) /\ p # {} /\ a \in A /\ f[p \ {Max(p)}] = a
        BY Zenon, <3>2, <3>3
      <3> HIDE DEF p, a, h
      <3>5. f[p] = O[Max(p)][a]
        BY Zenon, <3>4 DEF StepsBy
      <3> QED
        BY Zenon, <3>2, <3>3, <3>5 DEF p, a
    <2> QED
      BY Zenon, <2>1, <2>2 DEF Runs
  <1>10. h[n] = f[1..n]
    BY DEF Upto
  <1> QED
    BY <1>8, <1>9, <1>10 DEF EndsLike

(* Parsing goes along the lines.                                            *)
Parses(h, L, n) ==
    /\ h \in [0..n -> ParseStates]
    /\ h[0] = ParseStart
    /\ \A k \in 1..n : h[k] = ParseLine(h[k - 1], L[k])
    /\ h[n].entries = ParseLines(L)

ParsesSome(L, n) == \E h : Parses(h, L, n)

(* There is such a run of the parser.                                       *)
LEMMA ParseRun ==
    ASSUME NEW L, NEW n, Lines(L, n)
    PROVE  ParsesSome(L, n)
  <1> DEFINE With(k, s) == ParseLine(s, L[k])
             O == [k \in 1..n |-> [s \in ParseStates |-> With(k, s)]]
             f == CHOOSE f : ParsesOver(f, L)
  <1>1. n \in Nat /\ DOMAIN L = 1..n
    BY DEF Lines
  <1>2. ParseStart \in ParseStates
    <2>1. <<>> \in Seq(Item)
      OBVIOUS
    <2> QED
      BY <2>1 DEF ParseStart, ParseStates
  <1>3. O \in [1..n -> [ParseStates -> ParseStates]]
    <2>1. \A k \in 1..n : \A s \in ParseStates : With(k, s) \in ParseStates
      BY ParseType DEF Lines
    <2> HIDE DEF With
    <2> QED
      BY <2>1
  <1>4. \A k \in 1..n : \A s \in ParseStates : O[k][s] = With(k, s)
    <2> HIDE DEF With
    <2> QED
      OBVIOUS
  <1> HIDE DEF O
  <1>5. PICK g \in [SUBSET (1..n) -> ParseStates] : GoesAlong(g, O, ParseStart, n)
    BY Zenon, <1>1, <1>2, <1>3, PrefixFold
  <1>6. ASSUME NEW p \in SUBSET (1..n), p # {} PROVE g[p] = With(Max(p), g[p \ {Max(p)}])
    <2>1. Max(p) \in 1..n
      BY Zenon, <1>1, <1>6, MaxOf
    <2>2. g[p \ {Max(p)}] \in ParseStates
      <3>1. p \ {Max(p)} \in SUBSET (1..n)
        BY Zenon
      <3> QED
        BY <3>1
    <2> HIDE DEF With
    <2> QED
      BY <1>4, <1>5, <1>6, <2>1, <2>2 DEF GoesAlong
  <1>7. ParsesOver(g, L)
    <2>1. \A p \in SUBSET (1..n) : g[p] = IF p = {} THEN ParseStart ELSE With(Max(p), g[p \ {Max(p)}])
      BY Zenon, <1>5, <1>6 DEF GoesAlong
    <2>2. g = [p \in SUBSET (1..n) |-> IF p = {} THEN ParseStart ELSE With(Max(p), g[p \ {Max(p)}])]
      <3> HIDE DEF With
      <3> QED
        BY <2>1
    <2> QED
      BY Zenon, <1>1, <2>2 DEF ParsesOver
  <1>8. ParsesOver(f, L)
    BY <1>7
  <1>9. ParseLines(L) = f[1..n].entries
    BY <1>1, ParseFunction
  <1> HIDE DEF f
  <1>10. StepsBy(f, O, ParseStart, n, ParseStates)
    <2>1. f[{}] = ParseStart
      BY <1>8 DEF ParsesOver
    <2>2. ASSUME NEW p \in SUBSET (1..n), NEW a \in ParseStates, p # {}, f[p \ {Max(p)}] = a
          PROVE  f[p] = O[Max(p)][a]
      <3>1. f[p] = With(Max(p), f[p \ {Max(p)}])
        BY Zenon, <1>1, <1>8, <2>2 DEF ParsesOver
      <3>2. Max(p) \in 1..n
        BY Zenon, <1>1, <2>2, MaxOf
      <3> HIDE DEF With
      <3>3. O[Max(p)][a] = With(Max(p), a)
        BY <1>4, <3>2
      <3>4. f[p] = With(Max(p), a)
        BY Zenon, <2>2, <3>1
      <3> QED
        BY <3>3, <3>4
    <2> QED
      BY <2>1, <2>2 DEF StepsBy
  <1>11. PICK h \in [0..n -> ParseStates] : Runs(h, O, ParseStart, n) /\ h[n] = f[1..n]
    <2>1. EndsLike(f, O, ParseStart, n, ParseStates)
      BY <1>1, <1>2, <1>3, <1>10, PrefixRun
    <2> QED
      BY <2>1 DEF EndsLike
  <1>12. Parses(h, L, n)
    <2>1. \A k \in 1..n : k - 1 \in 0..n
      BY <1>1
    <2>2. \A k \in 1..n : h[k] = With(k, h[k - 1])
      <3> HIDE DEF With
      <3> QED
        BY <1>4, <1>11, <2>1 DEF Runs
    <2> QED
      BY <1>9, <1>11, <2>2 DEF Parses, Runs
  <1> QED
    BY <1>12 DEF ParsesSome

-----------------------------------------------------------------------------
(* What is parsed.  How many of the first n lines use tools.                *)
Messages(L, n) == Cardinality({l \in 1..n : UsesTools(L, l)})

(* Messages are counted line by line.                                       *)
LEMMA MessagesGrow ==
    ASSUME NEW L, NEW n \in Nat
    PROVE  /\ Messages(L, 0) = 0 /\ Messages(L, n) \in Nat /\ Messages(L, n + 1) \in Nat
           /\ UsesTools(L, n + 1) => Messages(L, n + 1) = Messages(L, n) + 1
           /\ ~UsesTools(L, n + 1) => Messages(L, n + 1) = Messages(L, n)
  <1> DEFINE M(k) == {l \in 1..k : UsesTools(L, l)}
  <1>1. \A k \in Nat : IsFiniteSet(M(k)) /\ Cardinality(M(k)) \in Nat
    <2> TAKE k \in Nat
    <2>1. IsFiniteSet(1..k)
      BY FS_Interval
    <2>2. M(k) \subseteq 1..k
      OBVIOUS
    <2> QED
      BY <2>1, <2>2, FS_Subset, FS_CardinalityType
  <1>2. M(0) = {}
    OBVIOUS
  <1>3. UsesTools(L, n + 1) => M(n + 1) = M(n) \cup {n + 1} /\ n + 1 \notin M(n)
    OBVIOUS
  <1>4. ~UsesTools(L, n + 1) => M(n + 1) = M(n)
    OBVIOUS
  <1>5. Messages(L, 0) = Cardinality(M(0)) /\ Messages(L, n) = Cardinality(M(n))
        /\ Messages(L, n + 1) = Cardinality(M(n + 1))
    BY DEF Messages
  <1> HIDE DEF M
  <1>6. n + 1 \in Nat
    OBVIOUS
  <1>7. Cardinality(M(0)) = 0
    BY <1>2, FS_EmptySet
  <1>8. UsesTools(L, n + 1) => Cardinality(M(n + 1)) = Cardinality(M(n)) + 1
    BY <1>1, <1>3, FS_AddElement
  <1> QED
    BY <1>1, <1>4, <1>5, <1>6, <1>7, <1>8

(* A result among the first n lines fails the call c.                       *)
FailedBy(L, n, c) == \E r \in 1..n : r > c[1] /\ MarksFailed(L[r]) /\ L[r].id = UseAt(L, c).id

(* The entry of a call.                                                     *)
IsEntryOf(e, L, n, c) ==
    /\ e.batch = Messages(L, c[1]) /\ e.id = UseAt(L, c).id /\ e.identity = <<UseAt(L, c).action>>
    /\ e.failed <=> FailedBy(L, n, c)

(* The entries of the calls of the first n lines, in their order.           *)
Placed(es, L, n, at) ==
    /\ es \in Seq(Item)
    /\ at \in [1..Len(es) -> CallsOf(L)]
    /\ \A i \in 1..Len(es) : at[i][1] <= n /\ IsEntryOf(es[i], L, n, at[i])
    /\ \A c \in CallsOf(L) : c[1] <= n => \E i \in 1..Len(es) : at[i] = c
    /\ \A i, j \in 1..Len(es) : i < j => LaterThan(at[j], at[i])

PlacedSome(es, L, n) == \E at : Placed(es, L, n, at)

(* A line that is no error for it leaves the entry of a call.               *)
LEMMA SameEntry ==
    ASSUME NEW e, NEW L, NEW n \in Nat, NEW c, IsEntryOf(e, L, n, c),
           ~(MarksFailed(L[n + 1]) /\ L[n + 1].id = UseAt(L, c).id)
    PROVE  IsEntryOf(e, L, n + 1, c)
  <1>1. FailedBy(L, n + 1, c) <=> FailedBy(L, n, c)
    <2>1. \A r \in 1..(n + 1) : r \in 1..n \/ r = n + 1
      OBVIOUS
    <2>2. \A r \in 1..n : r \in 1..(n + 1)
      OBVIOUS
    <2> QED
      BY <2>1, <2>2 DEF FailedBy
  <1> QED
    BY <1>1 DEF IsEntryOf

(* A message adds its tool uses.                                            *)
LEMMA PlacedTurn ==
    ASSUME NEW L, NEW N, Lines(L, N), NEW n \in Nat, n + 1 \in 1..N, UsesTools(L, n + 1),
           NEW es, NEW at, Placed(es, L, n, at),
           NEW block, IsBlock(block, L[n + 1].uses, Messages(L, n + 1))
    PROVE  PlacedSome(es \o block, L, n + 1)
  <1> DEFINE uses == L[n + 1].uses
             m == Len(es)
             u == Len(uses)
             fs == es \o block
             new == [i \in 1..(m + u) |-> IF i <= m THEN at[i] ELSE <<n + 1, i - m>>]
  <1>1. L[n + 1].type = "turn" /\ n + 1 \in DOMAIN L
    BY DEF UsesTools, Lines
  <1>2. uses \in Seq(ToolUse)
    <2>1. IsLine(L[n + 1])
      BY DEF Lines
    <2> QED
      BY <1>1, <2>1 DEF IsLine
  <1> HIDE DEF uses
  <1>3. /\ es \in Seq(Item) /\ m \in Nat
        /\ at \in [1..m -> CallsOf(L)]
        /\ \A i \in 1..m : at[i][1] <= n /\ IsEntryOf(es[i], L, n, at[i])
        /\ \A c \in CallsOf(L) : c[1] <= n => \E i \in 1..m : at[i] = c
        /\ \A i, j \in 1..m : i < j => LaterThan(at[j], at[i])
    BY DEF Placed
  <1>4. /\ block \in Seq(Item) /\ Len(block) = u /\ u \in Nat /\ DOMAIN uses = 1..u
        /\ \A k \in 1..u : /\ block[k].batch = Messages(L, n + 1) /\ block[k].id = uses[k].id
                           /\ block[k].identity = <<uses[k].action>> /\ block[k].failed = FALSE
    BY <1>2 DEF IsBlock, uses
  <1>5. /\ fs \in Seq(Item) /\ Len(fs) = m + u
        /\ \A i \in 1..m : fs[i] = es[i]
        /\ \A k \in 1..u : fs[m + k] = block[k]
    <2>1. es \in Seq(Item) /\ block \in Seq(Item) /\ u = Len(block)
      BY <1>3, <1>4
    <2> HIDE DEF u
    <2>2. /\ fs \in Seq(Item) /\ Len(fs) = m + Len(block)
          /\ \A i \in 1..m : fs[i] = es[i]
          /\ \A k \in 1..Len(block) : fs[m + k] = block[k]
      BY <2>1
    <2> QED
      BY <2>1, <2>2
  <1>6. ASSUME NEW i \in 1..m PROVE i \in 1..(m + u) /\ new[i] = at[i]
    BY <1>3, <1>4
  <1>7. ASSUME NEW k \in 1..u PROVE m + k \in 1..(m + u) /\ new[m + k] = <<n + 1, k>>
    <2>1. m + k \in 1..(m + u) /\ ~(m + k <= m) /\ (m + k) - m = k
      BY <1>3, <1>4
    <2> QED
      BY <2>1
  <1>8. \A i \in 1..(m + u) : i \in 1..m \/ \E k \in 1..u : i = m + k
    <2> TAKE i \in 1..(m + u)
    <2>1. i <= m => i \in 1..m
      BY <1>3
    <2>2. ~(i <= m) => i - m \in 1..u /\ i = m + (i - m)
      BY <1>3, <1>4
    <2> QED
      BY Zenon, <2>1, <2>2
  <1>x. new = [i \in 1..(m + u) |-> new[i]]
    OBVIOUS
  <1>9. ASSUME NEW k \in 1..u PROVE <<n + 1, k>> \in CallsOf(L) /\ UseAt(L, <<n + 1, k>>) = uses[k]
    <2>1. IsCall(L, <<n + 1, k>>)
      BY <1>1, <1>4 DEF IsCall, uses
    <2> QED
      BY <2>1, CallsAre DEF UseAt, uses
  <1> HIDE DEF new, fs, m, u
  <1>10. new \in [1..(m + u) -> CallsOf(L)]
    <2>1. \A i \in 1..(m + u) : new[i] \in CallsOf(L)
      <3> TAKE i \in 1..(m + u)
      <3>1. CASE i \in 1..m
        BY <1>3, <1>6, <3>1
      <3>2. CASE \E k \in 1..u : i = m + k
        BY Zenon, <1>7, <1>9, <3>2
      <3> QED
        BY <1>8, <3>1, <3>2
    <2> QED
      BY <1>x, <2>1
  <1>11. \A i \in 1..(m + u) : new[i][1] <= n + 1 /\ IsEntryOf(fs[i], L, n + 1, new[i])
    <2> TAKE i \in 1..(m + u)
    <2>1. CASE i \in 1..m
      <3>1. new[i] = at[i] /\ fs[i] = es[i] /\ at[i][1] <= n /\ IsEntryOf(es[i], L, n, at[i])
        BY <1>3, <1>5, <1>6, <2>1
      <3>2. at[i][1] \in Nat
        BY <1>3, <2>1, CallType DEF Lines
      <3>3. ~MarksFailed(L[n + 1])
        BY <1>1 DEF MarksFailed
      <3>4. IsEntryOf(es[i], L, n + 1, at[i])
        BY <3>1, <3>3, SameEntry
      <3> QED
        BY <3>1, <3>2, <3>4
    <2>2. CASE i \notin 1..m
      <3>1. PICK k \in 1..u : i = m + k
        BY <1>8, <2>2
      <3> DEFINE c == <<n + 1, k>>
      <3>2. new[i] = c /\ fs[i] = block[k] /\ UseAt(L, c) = uses[k] /\ c[1] = n + 1
        BY <1>5, <1>7, <1>9, <3>1
      <3>3. ~FailedBy(L, n + 1, c)
        <4>1. \A r \in 1..(n + 1) : ~(r > n + 1)
          OBVIOUS
        <4> QED
          BY <4>1 DEF FailedBy
      <3> HIDE DEF c
      <3>4. IsEntryOf(fs[i], L, n + 1, c)
        BY <1>4, <3>2, <3>3 DEF IsEntryOf
      <3> QED
        BY <3>2, <3>4
    <2> QED
      BY <2>1, <2>2
  <1>12. ASSUME NEW c \in CallsOf(L), c[1] <= n + 1 PROVE \E i \in 1..(m + u) : new[i] = c
    <2>1. c = <<c[1], c[2]>> /\ c[1] \in 1..N /\ c[2] \in DOMAIN L[c[1]].uses
      BY CallsAre, CallType DEF IsCall
    <2>2. CASE c[1] <= n
      <3>1. PICK i \in 1..m : at[i] = c
        BY <1>3, <2>2
      <3> QED
        BY <1>6, <3>1
    <2>3. CASE c[1] = n + 1
      <3>1. c[2] \in 1..u /\ c = <<n + 1, c[2]>>
        BY <1>4, <2>1, <2>3 DEF uses
      <3>2. m + c[2] \in 1..(m + u) /\ new[m + c[2]] = c
        BY <1>7, <3>1
      <3> QED
        BY <3>2
    <2>4. c[1] \in Nat
      BY <2>1
    <2>5. c[1] <= n \/ c[1] = n + 1
      BY <1>12, <2>4
    <2> QED
      BY <2>2, <2>3, <2>5
  <1>13. ASSUME NEW i \in 1..(m + u), NEW j \in 1..(m + u), i < j PROVE LaterThan(new[j], new[i])
    <2>1. CASE j \in 1..m
      <3>1. i \in 1..m
        BY <1>3, <1>13, <2>1
      <3> QED
        BY <1>3, <1>6, <1>13, <2>1, <3>1
    <2>2. CASE j \notin 1..m
      <3>1. PICK k \in 1..u : j = m + k
        BY <1>8, <2>2
      <3>2. new[j] = <<n + 1, k>>
        BY <1>7, <3>1
      <3>3. CASE i \in 1..m
        <4>1. new[i] = at[i] /\ at[i][1] <= n /\ at[i] \in CallsOf(L)
          BY Zenon, <1>3, <1>6, <3>3
        <4>2. at[i][1] \in Nat
          BY <4>1, CallType
        <4> QED
          BY <3>2, <4>1, <4>2 DEF LaterThan
      <3>4. CASE i \notin 1..m
        <4>1. PICK l \in 1..u : i = m + l
          BY <1>8, <3>4
        <4>2. l < k
          BY <1>3, <1>4, <1>13, <3>1, <4>1
        <4>3. new[i] = <<n + 1, l>>
          BY <1>7, <4>1
        <4> QED
          BY <3>2, <4>2, <4>3 DEF LaterThan
      <3> QED
        BY <3>3, <3>4
    <2> QED
      BY <2>1, <2>2
  <1>14. Placed(fs, L, n + 1, new)
    BY <1>5, <1>10, <1>11, <1>12, <1>13 DEF Placed
  <1> QED
    BY <1>14 DEF PlacedSome, fs

(* A line that uses no tools has no calls.                                  *)
LEMMA NoMoreCalls ==
    ASSUME NEW L, NEW N, Lines(L, N), NEW n \in Nat, n + 1 \in 1..N, ~UsesTools(L, n + 1),
           NEW c \in CallsOf(L), c[1] <= n + 1
    PROVE  c[1] <= n
  <1>1. c[1] \in 1..N /\ UsesTools(L, c[1])
    BY CallType
  <1>2. c[1] # n + 1
    BY <1>1
  <1> QED
    BY <1>1, <1>2

(* A line that marks none of the entries leaves them.                       *)
LEMMA PlacedQuiet ==
    ASSUME NEW L, NEW N, Lines(L, N), NEW n \in Nat, n + 1 \in 1..N, ~UsesTools(L, n + 1),
           NEW es, NEW at, Placed(es, L, n, at),
           ~(MarksFailed(L[n + 1]) /\ EntryOf(es, L[n + 1].id) # {})
    PROVE  Placed(es, L, n + 1, at)
  <1> DEFINE m == Len(es)
  <1>1. /\ es \in Seq(Item) /\ m \in Nat /\ DOMAIN es = 1..m
        /\ at \in [1..m -> CallsOf(L)]
        /\ \A i \in 1..m : at[i][1] <= n /\ IsEntryOf(es[i], L, n, at[i])
        /\ \A c \in CallsOf(L) : c[1] <= n => \E i \in 1..m : at[i] = c
        /\ \A i, j \in 1..m : i < j => LaterThan(at[j], at[i])
    BY DEF Placed
  <1> HIDE DEF m
  <1>2. ASSUME NEW i \in 1..m PROVE at[i][1] <= n + 1 /\ IsEntryOf(es[i], L, n + 1, at[i])
    <2>1. at[i][1] \in Nat /\ at[i][1] <= n
      BY <1>1, CallType
    <2>2. es[i].id = UseAt(L, at[i]).id
      BY <1>1 DEF IsEntryOf
    <2>3. ~(MarksFailed(L[n + 1]) /\ L[n + 1].id = UseAt(L, at[i]).id)
      BY Zenon, <1>1, <2>2 DEF EntryOf
    <2>4. IsEntryOf(es[i], L, n + 1, at[i])
      BY <1>1, <2>3, SameEntry
    <2> QED
      BY <2>1, <2>4
  <1>3. \A c \in CallsOf(L) : c[1] <= n + 1 => \E i \in 1..m : at[i] = c
    BY <1>1, NoMoreCalls
  <1> QED
    BY <1>1, <1>2, <1>3 DEF Placed, m

(* An error fails the entry of the call it names, and no other.             *)
LEMMA PlacedMark ==
    ASSUME NEW L, NEW N, Lines(L, N), OwnIds(L), NEW n \in Nat, n + 1 \in 1..N, MarksFailed(L[n + 1]),
           NEW es, NEW at, Placed(es, L, n, at), NEW k \in EntryOf(es, L[n + 1].id),
           NEW fs, IsMarked(fs, es, k)
    PROVE  Placed(fs, L, n + 1, at)
  <1> DEFINE m == Len(es)
  <1>1. /\ es \in Seq(Item) /\ m \in Nat /\ DOMAIN es = 1..m
        /\ at \in [1..m -> CallsOf(L)]
        /\ \A i \in 1..m : at[i][1] <= n /\ IsEntryOf(es[i], L, n, at[i])
        /\ \A c \in CallsOf(L) : c[1] <= n => \E i \in 1..m : at[i] = c
        /\ \A i, j \in 1..m : i < j => LaterThan(at[j], at[i])
    BY DEF Placed
  <1>2. /\ fs \in Seq(Item) /\ Len(fs) = m /\ k \in 1..m /\ fs[k].failed = TRUE
        /\ fs[k].batch = es[k].batch /\ fs[k].id = es[k].id /\ fs[k].identity = es[k].identity
        /\ \A j \in 1..m : j # k => fs[j] = es[j]
    BY DEF IsMarked
  <1>3. ~UsesTools(L, n + 1)
    BY DEF UsesTools, MarksFailed
  <1>4. es[k].id = L[n + 1].id
    BY DEF EntryOf
  <1> HIDE DEF m
  <1>5. \A i \in 1..m : at[i] \in CallsOf(L) /\ at[i][1] \in Nat /\ at[i][1] <= n
    BY <1>1, CallType
  <1>6. UseAt(L, at[k]).id = L[n + 1].id
    BY <1>1, <1>2, <1>4 DEF IsEntryOf
  <1>7. IsEntryOf(fs[k], L, n + 1, at[k])
    <2>1. n + 1 \in 1..(n + 1) /\ n + 1 > at[k][1]
      BY <1>2, <1>5
    <2>2. FailedBy(L, n + 1, at[k])
      BY <1>6, <2>1 DEF FailedBy
    <2>3. IsEntryOf(es[k], L, n, at[k])
      BY <1>1, <1>2
    <2> QED
      BY <1>2, <2>2, <2>3 DEF IsEntryOf
  <1>8. ASSUME NEW j \in 1..m, j # k PROVE IsEntryOf(fs[j], L, n + 1, at[j])
    <2>1. at[j] # at[k]
      <3>1. j < k \/ k < j
        BY <1>2, <1>8
      <3>2. LaterThan(at[j], at[k]) \/ LaterThan(at[k], at[j])
        BY <1>1, <1>2, <3>1
      <3>3. ~LaterThan(at[k], at[k])
        BY <1>1, <1>2, CallType DEF LaterThan
      <3> QED
        BY <3>2, <3>3
    <2>2. UseAt(L, at[j]).id # L[n + 1].id
      BY <1>2, <1>5, <1>6, <2>1 DEF OwnIds
    <2>3. IsEntryOf(es[j], L, n + 1, at[j])
      BY <1>1, <2>2, SameEntry
    <2> QED
      BY <1>2, <1>8, <2>3
  <1>9. \A i \in 1..m : at[i][1] <= n + 1 /\ IsEntryOf(fs[i], L, n + 1, at[i])
    <2> TAKE i \in 1..m
    <2>1. at[i][1] <= n + 1
      BY <1>5
    <2> QED
      BY <1>7, <1>8, <2>1
  <1>10. \A c \in CallsOf(L) : c[1] <= n + 1 => \E i \in 1..m : at[i] = c
    BY <1>1, <1>3, NoMoreCalls
  <1> QED
    BY <1>1, <1>2, <1>9, <1>10 DEF Placed

(* What the parser holds after n lines.                                     *)
Parsed(s, L, n) == s \in ParseStates /\ s.batch = Messages(L, n) /\ PlacedSome(s.entries, L, n)

(* A line leads from what was parsed of those before it to what is of them  *)
(* and it.                                                                  *)
LEMMA ParsedStep ==
    ASSUME NEW L, NEW N, Lines(L, N), OwnIds(L), NEW n \in Nat, n + 1 \in 1..N,
           NEW s, Parsed(s, L, n)
    PROVE  Parsed(ParseLine(s, L[n + 1]), L, n + 1)
  <1> DEFINE line == L[n + 1]
             t == ParseLine(s, line)
  <1>1. s \in ParseStates /\ s.batch = Messages(L, n) /\ s.batch \in Nat
    BY DEF Parsed, ParseStates
  <1>2. PICK at : Placed(s.entries, L, n, at)
    BY DEF Parsed, PlacedSome
  <1>3. IsLine(line)
    BY DEF Lines
  <1>4. t \in ParseStates
    BY <1>1, <1>3, ParseType
  <1>5. CASE UsesTools(L, n + 1)
    <2>1. line.type = "turn" /\ line.uses # <<>>
      BY <1>5 DEF UsesTools
    <2> DEFINE batch == s.batch + 1
    <2>2. t = [batch |-> batch, entries |-> s.entries \o Entering(line, batch)]
      BY Zenon, <2>1, ParseTurn
    <2>3. batch = Messages(L, n + 1) /\ batch \in Nat
      BY <1>1, <1>5, MessagesGrow
    <2>4. line.uses \in Seq(ToolUse)
      BY <1>3, <2>1 DEF IsLine
    <2> HIDE DEF batch, t
    <2>5. IsBlock(Entering(line, batch), L[n + 1].uses, Messages(L, n + 1))
      BY <2>3, <2>4, BlockType
    <2>6. PlacedSome(s.entries \o Entering(line, batch), L, n + 1)
      BY <1>2, <1>5, <2>5, PlacedTurn
    <2>7. t.batch = batch /\ t.entries = s.entries \o Entering(line, batch)
      BY Zenon, <2>2
    <2>8. Parsed(t, L, n + 1)
      BY <1>4, <2>3, <2>6, <2>7 DEF Parsed
    <2> QED
      BY <2>8 DEF t
  <1>6. CASE ~UsesTools(L, n + 1) /\ MarksFailed(line) /\ EntryOf(s.entries, line.id) # {}
    <2>1. /\ t.batch = s.batch
          /\ \E k \in EntryOf(s.entries, line.id) : IsMarked(t.entries, s.entries, k)
      BY Zenon, <1>1, <1>6, ParseMarks
    <2>2. PICK k \in EntryOf(s.entries, line.id) : IsMarked(t.entries, s.entries, k)
      BY <2>1
    <2>3. Messages(L, n + 1) = s.batch
      BY <1>1, <1>6, MessagesGrow
    <2> HIDE DEF t
    <2>4. Placed(t.entries, L, n + 1, at)
      BY <1>2, <1>6, <2>2, PlacedMark
    <2>5. Parsed(t, L, n + 1)
      BY <1>4, <2>1, <2>3, <2>4 DEF Parsed, PlacedSome
    <2> QED
      BY <2>5 DEF t
  <1>7. CASE ~UsesTools(L, n + 1) /\ ~(MarksFailed(line) /\ EntryOf(s.entries, line.id) # {})
    <2>1. ~(line.type = "turn" /\ line.uses # <<>>)
      BY <1>7 DEF UsesTools
    <2>2. t = s
      BY <1>7, <2>1, ParseOther
    <2>3. Messages(L, n + 1) = s.batch
      BY <1>1, <1>7, MessagesGrow
    <2> HIDE DEF t
    <2>4. Placed(s.entries, L, n + 1, at)
      BY <1>2, <1>7, PlacedQuiet
    <2>5. Parsed(t, L, n + 1)
      BY <1>4, <2>2, <2>3, <2>4 DEF Parsed, PlacedSome
    <2> QED
      BY <2>5 DEF t
  <1> QED
    BY <1>5, <1>6, <1>7

(* Before any line nothing is parsed.                                       *)
LEMMA ParsedNone ==
    ASSUME NEW L, NEW N, Lines(L, N)
    PROVE  Parsed(ParseStart, L, 0)
  <1> DEFINE es == <<>>
             at == [i \in 1..0 |-> <<i, i>>]
  <1>1. es \in Seq(Item) /\ Len(es) = 0
    OBVIOUS
  <1>2. 1..0 = {} /\ at \in [1..0 -> CallsOf(L)]
    OBVIOUS
  <1>3. ASSUME NEW c \in CallsOf(L), c[1] <= 0 PROVE FALSE
    BY <1>3, CallType DEF Lines
  <1>4. Messages(L, 0) = 0
    BY MessagesGrow
  <1>5. ParseStart = [batch |-> 0, entries |-> es] /\ ParseStart \in ParseStates
    BY <1>1 DEF ParseStart, ParseStates
  <1> HIDE DEF es, at
  <1>6. Placed(es, L, 0, at)
    BY <1>1, <1>2, <1>3 DEF Placed
  <1>7. ParseStart.batch = 0 /\ ParseStart.entries = es
    BY <1>5
  <1> QED
    BY <1>4, <1>5, <1>6, <1>7 DEF Parsed, PlacedSome

(* All the lines are parsed.                                                *)
LEMMA AllParsed ==
    ASSUME NEW L, NEW n, Lines(L, n), OwnIds(L)
    PROVE  PlacedSome(ParseLines(L), L, n)
  <1>1. PICK h : Parses(h, L, n)
    BY ParseRun DEF ParsesSome
  <1>2. n \in Nat
    BY DEF Lines
  <1> DEFINE B == {k \in Nat : k <= n => Parsed(h[k], L, k)}
  <1>3. 0 \in B
    BY <1>1, ParsedNone DEF Parses
  <1>4. ASSUME NEW k \in Nat, k \in B PROVE k + 1 \in B
    <2> SUFFICES ASSUME k + 1 <= n PROVE Parsed(h[k + 1], L, k + 1)
      OBVIOUS
    <2>1. Parsed(h[k], L, k) /\ k + 1 \in 1..n /\ (k + 1) - 1 = k
      BY <1>2, <1>4
    <2>2. h[k + 1] = ParseLine(h[k], L[k + 1])
      BY <1>1, <2>1 DEF Parses
    <2> QED
      BY <2>1, <2>2, ParsedStep
  <1> HIDE DEF B
  <1>5. n \in B
    BY <1>2, <1>3, <1>4, NumberInduction
  <1>6. Parsed(h[n], L, n)
    BY <1>2, <1>5 DEF B
  <1> QED
    BY <1>1, <1>6 DEF Parsed, Parses

-----------------------------------------------------------------------------
(* The window.  Sets that are matched by a function.                        *)
OneToOne(f, S, T) == f \in [S -> T] /\ \A x, y \in S : f[x] = f[y] => x = y

Onto(f, S, T) == \A t \in T : \E x \in S : f[x] = t

(* Sets that are matched have as many elements.                             *)
LEMMA SameSize ==
    ASSUME NEW S, NEW T, NEW f, IsFiniteSet(S), OneToOne(f, S, T), Onto(f, S, T)
    PROVE  IsFiniteSet(T) /\ Cardinality(T) = Cardinality(S)
  <1>1. f \in Bijection(S, T)
    BY DEF OneToOne, Onto, Bijection, Injection, Surjection, IsInjective
  <1>2. ExistsBijection(S, T)
    BY <1>1 DEF ExistsBijection
  <1> QED
    BY <1>2, FS_Bijection

(* A set that is matched into another has no more elements.                 *)
LEMMA NoSmaller ==
    ASSUME NEW S, NEW T, NEW f, IsFiniteSet(T), OneToOne(f, S, T)
    PROVE  /\ IsFiniteSet(S) /\ Cardinality(S) \in Nat /\ Cardinality(T) \in Nat
           /\ Cardinality(S) <= Cardinality(T)
  <1>1. f \in Injection(S, T)
    BY DEF OneToOne, Injection, IsInjective
  <1>2. IsFiniteSet(S) /\ Cardinality(S) <= Cardinality(T)
    BY <1>1, FS_Injection
  <1> QED
    BY <1>2, FS_CardinalityType

(* Some of the first n numbers are finitely many.                           *)
LEMMA FiniteOf ==
    ASSUME NEW n \in Nat, NEW S \in SUBSET (1..n)
    PROVE  IsFiniteSet(S) /\ Cardinality(S) \in Nat
  <1>1. IsFiniteSet(1..n)
    BY FS_Interval
  <1>2. IsFiniteSet(S)
    BY Zenon, <1>1, FS_Subset
  <1> QED
    BY <1>2, FS_CardinalityType

(* q is what s has after d of its m elements.                               *)
IsEnd(q, s, d, m) ==
    /\ q = [i \in 1..(m - d) |-> q[i]] /\ Len(q) = m - d
    /\ \A i \in 1..(m - d) : i + d \in 1..m /\ q[i] = s[i + d]

(* The end of a sequence is the rest of it.                                 *)
LEMMA EndOf ==
    ASSUME NEW S, NEW s \in Seq(S), NEW m, m = Len(s), NEW d \in Nat, d <= m
    PROVE  SubSeq(s, d + 1, m) \in Seq(S) /\ IsEnd(SubSeq(s, d + 1, m), s, d, m)
  <1> DEFINE q == SubSeq(s, d + 1, m)
             k == d + 1
  <1>1. m \in Nat /\ k \in Nat /\ m - d \in Nat /\ (m + 1) - k = m - d
    OBVIOUS
  <1>2. \A i \in 1..(m - d) : i + d \in 1..m /\ (k + i) - 1 = i + d
    OBVIOUS
  <1>3. q = [i \in 1..((m + 1) - k) |-> s[(k + i) - 1]]
    BY <1>1
  <1> HIDE DEF q, k
  <1>4. q = [i \in 1..(m - d) |-> s[(k + i) - 1]]
    BY <1>1, <1>3
  <1>5. q = [i \in 1..(m - d) |-> q[i]] /\ \A i \in 1..(m - d) : q[i] = s[i + d]
    BY <1>2, <1>4
  <1>6. \A i \in 1..(m - d) : q[i] \in S
    BY <1>2, <1>5
  <1>7. q \in Seq(S) /\ Len(q) = m - d
    <2> DEFINE r == m - d
    <2>1. r \in Nat /\ q = [i \in 1..r |-> q[i]] /\ \A i \in 1..r : q[i] \in S
      BY <1>1, <1>5, <1>6
    <2> HIDE DEF r
    <2>2. q \in Seq(S) /\ Len(q) = r
      BY <2>1
    <2> QED
      BY <2>2 DEF r
  <1>8. IsEnd(q, s, d, m)
    BY <1>2, <1>5, <1>7 DEF IsEnd
  <1> QED
    BY <1>7, <1>8 DEF q, k

(* How many messages come after a line.                                     *)
MessagesAfter(L, n, k) == Cardinality({l \in 1..n : l > k /\ UsesTools(L, l)})

(* They make up those up to the line to all there are.                      *)
LEMMA MessagesSplit ==
    ASSUME NEW L, NEW n \in Nat, NEW k \in 1..n
    PROVE  /\ Messages(L, k) \in Nat /\ Messages(L, n) \in Nat /\ MessagesAfter(L, n, k) \in Nat
           /\ Messages(L, n) = Messages(L, k) + MessagesAfter(L, n, k)
           /\ \A j \in 1..k : Messages(L, j) <= Messages(L, k)
           /\ (\A l \in 1..n : l > k => ~UsesTools(L, l)) => MessagesAfter(L, n, k) = 0
  <1> DEFINE M(i) == {l \in 1..i : UsesTools(L, l)}
             A == {l \in 1..n : l > k /\ UsesTools(L, l)}
  <1>1. k \in Nat /\ \A i \in Nat : IsFiniteSet(M(i)) /\ Cardinality(M(i)) \in Nat
    <2>1. \A i \in Nat : M(i) \in SUBSET (1..i)
      OBVIOUS
    <2>2. k \in Nat
      OBVIOUS
    <2> HIDE DEF M
    <2> QED
      BY Zenon, <2>1, <2>2, FiniteOf
  <1>2. IsFiniteSet(A) /\ Cardinality(A) \in Nat
    <2>1. A \in SUBSET (1..n)
      OBVIOUS
    <2> HIDE DEF A
    <2> QED
      BY <2>1, FiniteOf
  <1>3. M(n) = M(k) \cup A /\ M(k) \cap A = {}
    OBVIOUS
  <1>4. \A j \in 1..k : M(j) \in SUBSET M(k)
    OBVIOUS
  <1>5. (\A l \in 1..n : l > k => ~UsesTools(L, l)) => A = {}
    OBVIOUS
  <1>6. \A i : Messages(L, i) = Cardinality(M(i))
    BY DEF Messages
  <1>7. MessagesAfter(L, n, k) = Cardinality(A)
    BY DEF MessagesAfter
  <1> HIDE DEF M, A
  <1>8. Cardinality({}) = 0
    BY FS_EmptySet
  <1>9. Cardinality(M(n)) = Cardinality(M(k)) + Cardinality(A)
    <2>1. Cardinality(M(k) \cup A) = Cardinality(M(k)) + Cardinality(A) - Cardinality(M(k) \cap A)
      BY <1>1, <1>2, FS_Union
    <2> QED
      BY <1>1, <1>2, <1>3, <1>8, <2>1
  <1>10. ASSUME NEW j \in 1..k PROVE Cardinality(M(j)) <= Cardinality(M(k))
    BY <1>1, <1>4, FS_Subset
  <1> QED
    BY <1>1, <1>2, <1>5, <1>6, <1>7, <1>8, <1>9, <1>10

(* What a window shows of the calls of n lines: the latest of them, and all *)
(* if there is room.                                                        *)
Shows(w, L, n, at) ==
    /\ w \in Seq(Item)
    /\ at \in [1..Len(w) -> CallsOf(L)]
    /\ \A i \in 1..Len(w) : IsEntryOf(w[i], L, n, at[i])
    /\ \A i, j \in 1..Len(w) : i < j => LaterThan(at[j], at[i])
    /\ \A d \in CallsOf(L) : (\E i \in 1..Len(w) : at[i] = d) \/ \A i \in 1..Len(w) : LaterThan(at[i], d)
    /\ Cardinality(CallsOf(L)) <= WindowEntries => \A d \in CallsOf(L) : \E i \in 1..Len(w) : at[i] = d

ShowsSome(w, L, n) == \E at : Shows(w, L, n, at)

(* The window of what was parsed.                                           *)
LEMMA WindowShows ==
    ASSUME NEW L, NEW n, Lines(L, n), OwnIds(L)
    PROVE  ShowsSome(Window(L), L, n)
  <1> DEFINE es == ParseLines(L)
             m == Len(es)
             W == WindowEntries
  <1>1. PICK at : Placed(es, L, n, at)
    BY AllParsed DEF PlacedSome
  <1>2. n \in Nat /\ W \in Nat \ {0}
    BY ScreeningAssumption DEF Lines
  <1>3. Window(L) = IF m > W THEN SubSeq(es, m - W + 1, m) ELSE es
    BY DEF Window
  <1> HIDE DEF es, W
  <1>4. /\ es \in Seq(Item) /\ m \in Nat
        /\ at \in [1..m -> CallsOf(L)]
        /\ \A i \in 1..m : at[i][1] <= n /\ IsEntryOf(es[i], L, n, at[i])
        /\ \A i, j \in 1..m : i < j => LaterThan(at[j], at[i])
    BY <1>1 DEF Placed
  <1>5. \A c \in CallsOf(L) : \E i \in 1..m : at[i] = c
    <2> TAKE c \in CallsOf(L)
    <2>1. c[1] <= n
      BY <1>2, CallType
    <2> QED
      BY <1>1, <2>1 DEF Placed
  <1> HIDE DEF m
  <1>6. Cardinality(CallsOf(L)) = m
    <2>1. IsFiniteSet(1..m) /\ Cardinality(1..m) = m
      <3>1. IsFiniteSet(1..m) /\ Cardinality(1..m) = IF 1 > m THEN 0 ELSE m - 1 + 1
        BY <1>4, FS_Interval
      <3> QED
        BY <1>4, <3>1
    <2>2. OneToOne(at, 1..m, CallsOf(L))
      <3>1. ASSUME NEW i \in 1..m, NEW j \in 1..m, i < j, at[i] = at[j] PROVE FALSE
        <4>1. LaterThan(at[i], at[i])
          BY <1>4, <3>1
        <4>2. at[i][1] \in Nat /\ at[i][2] \in Nat
          BY <1>4, CallType
        <4> QED
          BY <4>1, <4>2 DEF LaterThan
      <3>2. \A i, j \in 1..m : i = j \/ i < j \/ j < i
        BY <1>4
      <3> QED
        BY <1>4, <3>1, <3>2 DEF OneToOne
    <2>3. Onto(at, 1..m, CallsOf(L))
      BY <1>5 DEF Onto
    <2> QED
      BY <2>1, <2>2, <2>3, SameSize
  <1>7. CASE ~(m > W)
    <2>1. Window(L) = es
      BY <1>3, <1>7
    <2>2. Shows(es, L, n, at)
      BY <1>4, <1>5 DEF Shows, m
    <2> QED
      BY <2>1, <2>2 DEF ShowsSome
  <1>8. CASE m > W
    <2> DEFINE d == m - W
               w == SubSeq(es, d + 1, m)
               new == [i \in 1..W |-> at[i + d]]
    <2>1. d \in Nat /\ d + W = m
      BY <1>2, <1>4, <1>8
    <2>2. Window(L) = w
      BY Zenon, <1>3, <1>8
    <2>3. w \in Seq(Item) /\ Len(w) = W /\ \A i \in 1..W : w[i] = es[i + d]
      <3>1. m = Len(es)
        BY DEF m
      <3> HIDE DEF d
      <3>2. d <= m /\ m - d = W
        BY <1>2, <2>1
      <3>3. w \in Seq(Item) /\ Len(w) = m - d /\ \A i \in 1..(m - d) : w[i] = es[i + d]
        BY <1>4, <2>1, <3>1, <3>2, EndOf DEF IsEnd
      <3> QED
        BY <3>2, <3>3
    <2>4. \A i \in 1..W : i + d \in 1..m /\ new[i] = at[i + d]
      BY <1>2, <2>1
    <2>x. new = [i \in 1..W |-> new[i]]
      OBVIOUS
    <2> HIDE DEF d, w, new
    <2>5. new \in [1..W -> CallsOf(L)]
      BY <1>4, <2>4, <2>x
    <2>6. \A i \in 1..W : IsEntryOf(w[i], L, n, new[i])
      BY <1>4, <2>3, <2>4
    <2>7. ASSUME NEW i \in 1..W, NEW j \in 1..W, i < j PROVE LaterThan(new[j], new[i])
      <3>1. i + d < j + d
        BY <1>2, <2>1, <2>7
      <3> QED
        BY <1>4, <2>4, <3>1
    <2>8. ASSUME NEW c \in CallsOf(L)
          PROVE  (\E i \in 1..W : new[i] = c) \/ \A i \in 1..W : LaterThan(new[i], c)
      <3>1. PICK k \in 1..m : at[k] = c
        BY <1>5
      <3>2. CASE k > d
        <4>1. k - d \in 1..W /\ (k - d) + d = k
          BY <1>2, <1>4, <2>1, <3>2
        <4> QED
          BY <2>4, <3>1, <4>1
      <3>3. CASE k <= d
        <4>1. \A i \in 1..W : k < i + d
          BY <1>2, <1>4, <2>1, <3>3
        <4> QED
          BY <1>4, <2>4, <3>1, <4>1
      <3> QED
        BY <1>4, <2>1, <3>2, <3>3
    <2>9. ~(Cardinality(CallsOf(L)) <= W)
      BY <1>2, <1>4, <1>6, <1>8
    <2>10. Shows(w, L, n, new)
      BY <2>3, <2>5, <2>6, <2>7, <2>8, <2>9 DEF Shows, W
    <2> QED
      BY <2>2, <2>10 DEF ShowsSome
  <1> QED
    BY <1>7, <1>8

(* The recent batches.  The latest message of a window is the latest that   *)
(* uses tools.                                                              *)
LEMMA LatestShown ==
    ASSUME NEW L, NEW n, Lines(L, n), NEW w, NEW at, Shows(w, L, n, at), NEW m, m = Len(w), m # 0
    PROVE  /\ m \in 1..m /\ at[m][1] \in 1..n
           /\ \A l \in 1..n : l > at[m][1] => ~UsesTools(L, l)
           /\ \A i \in 1..m : at[i][1] \in 1..at[m][1]
  <1>1. /\ m \in Nat /\ at \in [1..m -> CallsOf(L)]
        /\ \A i, j \in 1..m : i < j => LaterThan(at[j], at[i])
        /\ \A d \in CallsOf(L) : (\E i \in 1..m : at[i] = d) \/ \A i \in 1..m : LaterThan(at[i], d)
    BY DEF Shows
  <1>2. m \in 1..m
    BY <1>1
  <1>3. \A i \in 1..m : at[i] \in CallsOf(L) /\ at[i][1] \in 1..n
    BY <1>1, CallType
  <1>4. \A i \in 1..m : at[i][1] <= at[m][1]
    <2> TAKE i \in 1..m
    <2>1. i < m \/ i = m
      BY <1>1
    <2>2. i < m => LaterThan(at[m], at[i])
      BY <1>1, <1>2
    <2>3. at[i][1] \in Int /\ at[m][1] \in Int
      BY <1>2, <1>3
    <2> QED
      BY <2>1, <2>2, <2>3 DEF LaterThan
  <1>5. ASSUME NEW l \in 1..n, l > at[m][1], UsesTools(L, l) PROVE FALSE
    <2> DEFINE uses == L[l].uses
               c == <<l, 1>>
    <2>1. L[l].type = "turn" /\ uses # <<>> /\ l \in DOMAIN L
      BY <1>5 DEF UsesTools, Lines
    <2>2. uses \in Seq(ToolUse)
      BY <2>1 DEF Lines, IsLine
    <2> HIDE DEF uses
    <2>3. 1 \in DOMAIN uses
      BY <2>1, <2>2
    <2>4. c \in CallsOf(L)
      BY <2>1, <2>3, CallsAre DEF IsCall, uses
    <2>5. c[1] = l
      OBVIOUS
    <2> HIDE DEF c
    <2>6. at[m][1] \in Int /\ l \in Int
      BY <1>2, <1>3
    <2>7. CASE \E i \in 1..m : at[i] = c
      BY <1>4, <1>5, <2>5, <2>6, <2>7
    <2>8. CASE \A i \in 1..m : LaterThan(at[i], c)
      <3>1. LaterThan(at[m], c)
        BY <1>2, <2>8
      <3> QED
        BY <1>5, <2>5, <2>6, <3>1 DEF LaterThan
    <2> QED
      BY <1>1, <2>4, <2>7, <2>8
  <1>6. \A i \in 1..m : at[i][1] \in 1..at[m][1]
    <2> TAKE i \in 1..m
    <2>1. at[i][1] \in 1..n /\ at[m][1] \in 1..n /\ at[i][1] <= at[m][1]
      BY <1>2, <1>3, <1>4
    <2> QED
      BY <2>1
  <1> QED
    BY <1>2, <1>3, <1>5, <1>6

(* The floor of the recent batches, by how many there are.                  *)
FloorOf(newest) == IF newest >= WindowBatches THEN newest - (WindowBatches - 1) ELSE 0

(* The newest batch of a window gives its floor.                            *)
LEMMA FloorIs ==
    ASSUME NEW w, NEW v \in Nat,
           \E k \in DOMAIN w : w[k].batch = v, \A k \in DOMAIN w : w[k].batch \in Nat /\ w[k].batch <= v
    PROVE  Floor(w) = FloorOf(v)
  <1> DEFINE T == {0} \cup {w[k].batch : k \in DOMAIN w}
  <1>1. Floor(w) = FloorOf(Max(T))
    BY DEF Floor, FloorOf
  <1>2. v \in T /\ \A y \in T : y \in Nat /\ v >= y
    OBVIOUS
  <1> HIDE DEF T
  <1>3. Max(T) \in T /\ \A y \in T : Max(T) >= y
    BY Zenon, <1>2 DEF Max
  <1>4. Max(T) = v
    <2>1. Max(T) \in Nat /\ Max(T) >= v /\ v >= Max(T)
      BY Zenon, <1>2, <1>3
    <2> QED
      BY <2>1
  <1> QED
    BY <1>1, <1>4

(* Recent entries are those of recent calls, and batches only grow.         *)
FloorTells(w, L, at) ==
    /\ \A i \in 1..Len(w) : w[i].batch >= Floor(w) <=> IsRecent(L, at[i])
    /\ \A i, j \in 1..Len(w) : i < j => w[i].batch <= w[j].batch

(* The floor of a window tells the recent calls.                            *)
LEMMA FloorIsRecent ==
    ASSUME NEW L, NEW n, Lines(L, n), NEW w, NEW at, Shows(w, L, n, at)
    PROVE  FloorTells(w, L, at)
  <1> DEFINE m == Len(w)
  <1>1. /\ w \in Seq(Item) /\ m \in Nat /\ DOMAIN w = 1..m
        /\ at \in [1..m -> CallsOf(L)]
        /\ \A i \in 1..m : IsEntryOf(w[i], L, n, at[i])
        /\ \A i, j \in 1..m : i < j => LaterThan(at[j], at[i])
    BY DEF Shows
  <1>2. n \in Nat /\ DOMAIN L = 1..n
    BY DEF Lines
  <1>3. \A i \in 1..m : at[i][1] \in 1..n /\ w[i].batch = Messages(L, at[i][1])
    BY <1>1, CallType DEF IsEntryOf
  <1> SUFFICES ASSUME m # 0 PROVE FloorTells(w, L, at)
    <2>1. CASE m = 0
      <3>1. 1..m = {}
        BY <2>1
      <3> QED
        BY <3>1 DEF FloorTells
    <2> QED
      BY <2>1
  <1>4. /\ m \in 1..m /\ at[m][1] \in 1..n
        /\ \A l \in 1..n : l > at[m][1] => ~UsesTools(L, l)
        /\ \A i \in 1..m : at[i][1] \in 1..at[m][1]
    BY LatestShown
  <1> HIDE DEF m
  <1> DEFINE k(i) == at[i][1]
             v == Messages(L, n)
             later(i) == MessagesAfter(L, n, k(i))
  <1>5. \A i \in 1..m : k(i) \in 1..n /\ w[i].batch = Messages(L, k(i)) /\ k(i) \in 1..k(m)
    BY <1>3, <1>4
  <1>6. k(m) \in 1..n /\ \A l \in 1..n : l > k(m) => ~UsesTools(L, l)
    BY <1>4
  <1>7. ASSUME NEW i \in 1..m PROVE IsRecent(L, at[i]) <=> later(i) < WindowBatches
    BY <1>2 DEF IsRecent, MessagesAfter, UsesTools
  <1> HIDE DEF k
  <1>8. \A i \in 1..m : w[i].batch \in Nat /\ later(i) \in Nat /\ v \in Nat /\ v = w[i].batch + later(i)
    <2> TAKE i \in 1..m
    <2>1. k(i) \in 1..n /\ w[i].batch = Messages(L, k(i))
      BY <1>5
    <2> QED
      BY <1>2, <2>1, MessagesSplit
  <1>9. w[m].batch = v
    <2>1. later(m) = 0
      BY Zenon, <1>2, <1>6, MessagesSplit
    <2> HIDE DEF later, v
    <2> QED
      BY <1>4, <1>8, <2>1
  <1> HIDE DEF later, v
  <1>10. v \in Nat /\ \A i \in 1..m : w[i].batch <= v
    BY <1>4, <1>8
  <1>11. Floor(w) = FloorOf(v)
    BY Zenon, <1>1, <1>4, <1>8, <1>9, <1>10, FloorIs
  <1>12. WindowBatches \in Nat \ {0}
    BY ScreeningAssumption
  <1>13. ASSUME NEW i \in 1..m PROVE w[i].batch >= Floor(w) <=> later(i) < WindowBatches
    BY <1>8, <1>10, <1>11, <1>12 DEF FloorOf
  <1>14. ASSUME NEW i \in 1..m, NEW j \in 1..m, i < j PROVE w[i].batch <= w[j].batch
    <2>1. LaterThan(at[j], at[i])
      BY <1>1, <1>14
    <2>2. k(i) \in 1..n /\ k(j) \in 1..n
      BY <1>5
    <2>3. k(i) \in 1..k(j)
      BY <2>1, <2>2 DEF LaterThan, k
    <2>4. Messages(L, k(i)) <= Messages(L, k(j))
      BY <1>2, <2>2, <2>3, MessagesSplit
    <2> QED
      BY <1>5, <2>4
  <1> QED
    BY <1>7, <1>13, <1>14 DEF FloorTells, m

-----------------------------------------------------------------------------
(* The tail of a file: n lines, after the first off of its N.               *)
IsTail(L, n, F, N, off) ==
    /\ n \in Nat /\ off \in Nat /\ (n # 0 => n + off = N) /\ (n = 0 => N <= off)
    /\ L = [l \in 1..n |-> L[l]] /\ \A l \in 1..n : L[l] = F[l + off]

Moved(c, off) == <<c[1] + off, c[2]>>

(* A line of the tail is one of the file.                                   *)
LEMMA TailLine ==
    ASSUME NEW F, NEW N, Lines(F, N), NEW L, NEW n, NEW off, IsTail(L, n, F, N, off)
    PROVE  /\ DOMAIN L = 1..n /\ DOMAIN F = 1..N
           /\ \A l \in 1..n : l + off \in 1..N /\ L[l] = F[l + off] /\ IsLine(L[l])
           /\ n # 0 => \A r \in 1..N : r > off => r - off \in 1..n /\ (r - off) + off = r
  <1>1. N \in Nat /\ DOMAIN F = 1..N /\ \A l \in 1..N : IsLine(F[l])
    BY DEF Lines
  <1>2. n \in Nat /\ off \in Nat /\ (n # 0 => n + off = N) /\ DOMAIN L = 1..n
    BY DEF IsTail
  <1>3. ASSUME NEW l \in 1..n PROVE l + off \in 1..N /\ L[l] = F[l + off] /\ IsLine(L[l])
    <2>1. l + off \in 1..N
      BY <1>1, <1>2
    <2>2. L[l] = F[l + off]
      BY DEF IsTail
    <2> QED
      BY <1>1, <2>1, <2>2
  <1>4. ASSUME n # 0, NEW r \in 1..N, r > off PROVE r - off \in 1..n /\ (r - off) + off = r
    BY <1>1, <1>2, <1>4
  <1> QED
    BY <1>1, <1>2, <1>3, <1>4

(* A call of the tail is one of the file.                                   *)
LEMMA TailCall ==
    ASSUME NEW F, NEW N, Lines(F, N), NEW L, NEW n, NEW off, IsTail(L, n, F, N, off), NEW c \in CallsOf(L)
    PROVE  /\ Moved(c, off) \in CallsOf(F) /\ UseAt(F, Moved(c, off)) = UseAt(L, c)
           /\ c = <<c[1], c[2]>> /\ c[1] \in 1..n /\ n # 0
  <1>1. c = <<c[1], c[2]>> /\ c[1] \in DOMAIN L /\ L[c[1]].type = "turn" /\ c[2] \in DOMAIN L[c[1]].uses
    BY CallsAre DEF IsCall
  <1>2. c[1] \in 1..n /\ c[1] + off \in DOMAIN F /\ L[c[1]] = F[c[1] + off]
    <2>1. /\ DOMAIN L = 1..n /\ DOMAIN F = 1..N
          /\ \A l \in 1..n : l + off \in 1..N /\ L[l] = F[l + off]
      BY TailLine
    <2> QED
      BY <1>1, <2>1
  <1> DEFINE d == Moved(c, off)
  <1>3. d = <<c[1] + off, c[2]>> /\ d[1] = c[1] + off /\ d[2] = c[2]
    BY DEF Moved
  <1> HIDE DEF d
  <1>4. IsCall(F, d)
    BY <1>1, <1>2, <1>3 DEF IsCall
  <1>5. UseAt(F, d) = UseAt(L, c)
    BY <1>2, <1>3 DEF UseAt
  <1>6. n # 0
    <2>1. n \in Nat
      BY DEF IsTail
    <2> QED
      BY <1>2, <2>1
  <1> QED
    BY <1>1, <1>2, <1>4, <1>5, <1>6, CallsAre DEF d

(* The tail of a file is a sequence of lines with identifiers of their own. *)
LEMMA TailLines ==
    ASSUME NEW F, NEW N, Lines(F, N), OwnIds(F), NEW L, NEW n, NEW off, IsTail(L, n, F, N, off)
    PROVE  Lines(L, n) /\ OwnIds(L)
  <1>1. Lines(L, n)
    <2>1. n \in Nat /\ L = [l \in 1..n |-> L[l]]
      BY DEF IsTail
    <2>2. \A l \in 1..n : IsLine(L[l])
      BY TailLine
    <2> QED
      BY <2>1, <2>2 DEF Lines
  <1>2. ASSUME NEW c \in CallsOf(L), NEW d \in CallsOf(L), UseAt(L, c).id = UseAt(L, d).id PROVE c = d
    <2>1. /\ Moved(c, off) \in CallsOf(F) /\ UseAt(F, Moved(c, off)) = UseAt(L, c)
          /\ c = <<c[1], c[2]>> /\ c[1] \in 1..n
      BY TailCall
    <2>2. /\ Moved(d, off) \in CallsOf(F) /\ UseAt(F, Moved(d, off)) = UseAt(L, d)
          /\ d = <<d[1], d[2]>> /\ d[1] \in 1..n
      BY TailCall
    <2>3. Moved(c, off) = Moved(d, off)
      BY <1>2, <2>1, <2>2 DEF OwnIds
    <2>4. c[1] + off = d[1] + off /\ c[2] = d[2]
      BY <2>3 DEF Moved
    <2>5. off \in Nat /\ n \in Nat
      BY DEF IsTail
    <2>6. c[1] = d[1]
      BY <2>1, <2>2, <2>4, <2>5
    <2> QED
      BY <2>1, <2>2, <2>4, <2>6
  <1> QED
    BY <1>1, <1>2 DEF OwnIds

(* What the tail says of a call is what the file says of it.                *)
LEMMA TailTells ==
    ASSUME NEW F, NEW N, Lines(F, N), NEW L, NEW n, NEW off, IsTail(L, n, F, N, off), NEW c \in CallsOf(L)
    PROVE  /\ IsFailed(F, Moved(c, off)) <=> FailedBy(L, n, c)
           /\ IsRecent(F, Moved(c, off)) <=> IsRecent(L, c)
  <1> DEFINE d == Moved(c, off)
             k == c[1]
  <1>1. d[1] = k + off /\ UseAt(F, d) = UseAt(L, c) /\ k \in 1..n /\ n # 0
    BY TailCall DEF Moved
  <1>2. n \in Nat /\ off \in Nat /\ N \in Nat
    BY DEF IsTail, Lines
  <1>3. /\ DOMAIN L = 1..n /\ DOMAIN F = 1..N
        /\ \A l \in 1..n : l + off \in 1..N /\ L[l] = F[l + off]
        /\ \A r \in 1..N : r > off => r - off \in 1..n /\ (r - off) + off = r
    BY <1>1, TailLine
  <1> DEFINE Fails(r) == MarksFailed(F[r]) /\ F[r].id = UseAt(F, d).id
  <1>4. IsFailed(F, d) <=> \E r \in 1..N : r > k + off /\ Fails(r)
    BY <1>1, <1>3 DEF IsFailed, MarksFailed
  <1>5. FailedBy(L, n, c) <=> \E r \in 1..n : r > k /\ Fails(r + off)
    BY <1>1, <1>3 DEF FailedBy
  <1> HIDE DEF Fails
  <1>6. IsFailed(F, d) <=> FailedBy(L, n, c)
    <2>1. ASSUME NEW r \in 1..N, r > k + off, Fails(r) PROVE \E q \in 1..n : q > k /\ Fails(q + off)
      <3>1. r > off /\ r - off > k
        BY <1>1, <1>2, <2>1
      <3>2. r - off \in 1..n /\ (r - off) + off = r
        BY <1>3, <3>1
      <3> QED
        BY <2>1, <3>1, <3>2
    <2>2. ASSUME NEW r \in 1..n, r > k, Fails(r + off) PROVE \E q \in 1..N : q > k + off /\ Fails(q)
      <3>1. r + off \in 1..N /\ r + off > k + off
        BY <1>1, <1>2, <1>3, <2>2
      <3> QED
        BY <2>2, <3>1
    <2> QED
      BY <1>4, <1>5, <2>1, <2>2
  <1> DEFINE A == {l \in 1..n : l > k /\ UsesTools(L, l)}
             B == {l \in 1..N : l > k + off /\ UsesTools(F, l)}
             f == [l \in A |-> l + off]
  <1>7. IsRecent(L, c) <=> Cardinality(A) < WindowBatches
    BY <1>3 DEF IsRecent, UsesTools
  <1>8. IsRecent(F, d) <=> Cardinality(B) < WindowBatches
    BY <1>1, <1>3 DEF IsRecent, UsesTools
  <1>9. Cardinality(A) = Cardinality(B)
    <2>1. \A l \in 1..n : UsesTools(L, l) <=> UsesTools(F, l + off)
      BY <1>3 DEF UsesTools
    <2>2. A \in SUBSET (1..n)
      OBVIOUS
    <2>3. IsFiniteSet(A)
      BY <1>2, <2>2, FiniteOf
    <2>4. \A l \in A : l \in 1..n /\ l + off \in B
      <3> TAKE l \in A
      <3>1. l \in 1..n /\ l > k /\ UsesTools(F, l + off)
        BY <2>1
      <3>2. l + off \in 1..N /\ l + off > k + off
        BY <1>1, <1>2, <1>3, <3>1
      <3> QED
        BY <3>1, <3>2
    <2>5. \A r \in B : r - off \in A /\ (r - off) + off = r
      <3> TAKE r \in B
      <3>1. r \in 1..N /\ r > k + off /\ UsesTools(F, r)
        OBVIOUS
      <3>2. r > off /\ r - off > k
        BY <1>1, <1>2, <3>1
      <3>3. r - off \in 1..n /\ (r - off) + off = r
        BY <1>3, <3>1, <3>2
      <3> QED
        BY <2>1, <3>1, <3>2, <3>3
    <2> HIDE DEF A, B
    <2>6. OneToOne(f, A, B)
      <3>1. f \in [A -> B]
        BY <2>4
      <3>2. ASSUME NEW x \in A, NEW y \in A, f[x] = f[y] PROVE x = y
        <4>1. x \in 1..n /\ y \in 1..n /\ x + off = y + off
          BY <2>4, <3>2
        <4> QED
          BY <1>2, <4>1
      <3> HIDE DEF f
      <3> QED
        BY <3>1, <3>2 DEF OneToOne
    <2>7. Onto(f, A, B)
      <3>1. \A r \in B : f[r - off] = r
        BY <2>5
      <3> HIDE DEF f
      <3> QED
        BY <2>5, <3>1 DEF Onto
    <2> HIDE DEF f
    <2> QED
      BY <2>3, <2>6, <2>7, SameSize
  <1> HIDE DEF A, B
  <1> QED
    BY <1>6, <1>7, <1>8, <1>9

(* What a window tells of a file: of the latest of its calls, what they did,*)
(* which of them failed and which are recent.                               *)
Told(w, F, at) ==
    /\ w \in Seq(Item)
    /\ at \in [1..Len(w) -> CallsOf(F)]
    /\ \A i \in 1..Len(w) :
        /\ w[i].identity = <<UseAt(F, at[i]).action>>
        /\ w[i].failed <=> IsFailed(F, at[i])
        /\ w[i].batch >= Floor(w) <=> IsRecent(F, at[i])
    /\ \A i, j \in 1..Len(w) : i < j => LaterThan(at[j], at[i]) /\ w[i].batch <= w[j].batch
    /\ \A d \in CallsOf(F) : (\E i \in 1..Len(w) : at[i] = d) \/ \A i \in 1..Len(w) : LaterThan(at[i], d)

ToldAll(w, F, at) == \A d \in CallsOf(F) : \E i \in 1..Len(w) : at[i] = d

TellsOf(w, F, off) ==
    \E at : Told(w, F, at) /\ (off = 0 /\ Cardinality(CallsOf(F)) <= WindowEntries => ToldAll(w, F, at))

(* A call of the file is one of the tail, or before any of it.              *)
LEMMA FileCall ==
    ASSUME NEW F, NEW N, Lines(F, N), NEW L, NEW n, NEW off, IsTail(L, n, F, N, off), NEW d \in CallsOf(F)
    PROVE  \/ \E c \in CallsOf(L) : Moved(c, off) = d
           \/ \A c \in CallsOf(L) : LaterThan(Moved(c, off), d)
  <1>1. d = <<d[1], d[2]>> /\ d[1] \in 1..N /\ F[d[1]].type = "turn" /\ d[2] \in DOMAIN F[d[1]].uses
    BY CallsAre, CallType DEF IsCall
  <1>2. n \in Nat /\ off \in Nat /\ N \in Nat /\ (n = 0 => N <= off)
    BY DEF IsTail, Lines
  <1>3. CASE d[1] > off
    <2>1. n # 0
      BY <1>1, <1>2, <1>3
    <2> DEFINE k == d[1] - off
               c == <<k, d[2]>>
    <2>2. k \in 1..n /\ k + off = d[1]
      BY <1>1, <1>3, <2>1, TailLine
    <2>3. L[k] = F[d[1]] /\ k \in DOMAIN L
      <3>1. L[k] = F[k + off] /\ DOMAIN L = 1..n
        BY <2>2, TailLine
      <3> QED
        BY <2>2, <3>1
    <2> HIDE DEF k
    <2>4. IsCall(L, c)
      BY <1>1, <2>3 DEF IsCall
    <2>5. Moved(c, off) = d
      BY <1>1, <2>2 DEF Moved
    <2> QED
      BY <2>4, <2>5, CallsAre
  <1>4. CASE ~(d[1] > off)
    <2>1. ASSUME NEW c \in CallsOf(L) PROVE LaterThan(Moved(c, off), d)
      <3>1. c[1] \in 1..n
        BY TailCall
      <3>2. c[1] + off > d[1]
        BY <1>1, <1>2, <1>4, <3>1
      <3> QED
        BY <3>2 DEF Moved, LaterThan
    <2> QED
      BY <2>1
  <1> QED
    BY <1>3, <1>4

(* A tail that leaves nothing out is the file.                              *)
LEMMA WholeTail ==
    ASSUME NEW F, NEW N, Lines(F, N), NEW L, NEW n, IsTail(L, n, F, N, 0)
    PROVE  L = F
  <1>1. n \in Nat /\ N \in Nat /\ n = N
    BY DEF IsTail, Lines
  <1>2. L = [l \in 1..n |-> L[l]] /\ F = [l \in 1..N |-> F[l]] /\ \A l \in 1..n : L[l] = F[l + 0]
    BY Zenon DEF IsTail, Lines
  <1>3. \A l \in 1..n : L[l] = F[l]
    <2>1. \A l \in 1..n : l + 0 = l
      OBVIOUS
    <2> QED
      BY <1>2, <2>1
  <1>4. L = [l \in 1..n |-> F[l]]
    BY <1>2, <1>3
  <1> QED
    BY <1>1, <1>2, <1>4

(* The window of a tail tells of the file.                                  *)
LEMMA TailTold ==
    ASSUME NEW F, NEW N, Lines(F, N), OwnIds(F), NEW L, NEW n, NEW off, IsTail(L, n, F, N, off)
    PROVE  TellsOf(Window(L), F, off)
  <1> DEFINE w == Window(L)
             m == Len(w)
  <1>1. Lines(L, n) /\ OwnIds(L)
    BY TailLines
  <1>2. PICK b : Shows(w, L, n, b)
    BY <1>1, WindowShows DEF ShowsSome
  <1>3. FloorTells(w, L, b)
    BY <1>1, <1>2, FloorIsRecent
  <1> HIDE DEF w
  <1>4. /\ w \in Seq(Item) /\ b \in [1..m -> CallsOf(L)]
        /\ \A i \in 1..m : IsEntryOf(w[i], L, n, b[i])
        /\ \A i, j \in 1..m : i < j => LaterThan(b[j], b[i])
        /\ \A d \in CallsOf(L) : (\E i \in 1..m : b[i] = d) \/ \A i \in 1..m : LaterThan(b[i], d)
        /\ Cardinality(CallsOf(L)) <= WindowEntries => \A d \in CallsOf(L) : \E i \in 1..m : b[i] = d
    BY <1>2, Zenon DEF Shows
  <1>5. /\ \A i \in 1..m : w[i].batch >= Floor(w) <=> IsRecent(L, b[i])
        /\ \A i, j \in 1..m : i < j => w[i].batch <= w[j].batch
    BY <1>3, Zenon DEF FloorTells
  <1> DEFINE at == [i \in 1..m |-> Moved(b[i], off)]
  <1>6. \A i \in 1..m : at[i] = Moved(b[i], off) /\ b[i] \in CallsOf(L)
    BY <1>4
  <1>7. \A c \in CallsOf(L) : /\ Moved(c, off) \in CallsOf(F) /\ UseAt(F, Moved(c, off)) = UseAt(L, c)
                              /\ c = <<c[1], c[2]>> /\ c[1] \in 1..n
    BY TailCall
  <1>8. at \in [1..m -> CallsOf(F)]
    BY <1>6, <1>7
  <1> HIDE DEF at, m
  <1>9. ASSUME NEW i \in 1..m
        PROVE  /\ w[i].identity = <<UseAt(F, at[i]).action>>
               /\ w[i].failed <=> IsFailed(F, at[i])
               /\ w[i].batch >= Floor(w) <=> IsRecent(F, at[i])
    <2>1. at[i] = Moved(b[i], off) /\ b[i] \in CallsOf(L) /\ UseAt(F, at[i]) = UseAt(L, b[i])
      BY <1>6, <1>7
    <2>2. IsEntryOf(w[i], L, n, b[i])
      BY <1>4
    <2>3. /\ IsFailed(F, at[i]) <=> FailedBy(L, n, b[i])
          /\ IsRecent(F, at[i]) <=> IsRecent(L, b[i])
      BY <2>1, TailTells
    <2>4. w[i].batch >= Floor(w) <=> IsRecent(L, b[i])
      BY <1>5
    <2> QED
      BY <2>1, <2>2, <2>3, <2>4, Zenon DEF IsEntryOf
  <1>10. n \in Nat /\ off \in Nat
    BY DEF IsTail
  <1>11. ASSUME NEW c \in CallsOf(L), NEW d \in CallsOf(L), LaterThan(c, d)
         PROVE  LaterThan(Moved(c, off), Moved(d, off))
    <2>1. c[1] \in 1..n /\ d[1] \in 1..n
      BY <1>7
    <2>2. c[1] > d[1] \/ (c[1] = d[1] /\ c[2] > d[2])
      BY <1>11, Zenon DEF LaterThan
    <2>3. c[1] > d[1] => c[1] + off > d[1] + off
      BY <1>10, <2>1
    <2> QED
      BY <2>2, <2>3 DEF Moved, LaterThan
  <1>12. ASSUME NEW i \in 1..m, NEW j \in 1..m, i < j PROVE LaterThan(at[j], at[i]) /\ w[i].batch <= w[j].batch
    <2>1. LaterThan(b[j], b[i])
      BY <1>4, <1>12
    <2>2. LaterThan(at[j], at[i])
      BY <1>6, <1>11, <2>1
    <2> QED
      BY <1>5, <1>12, <2>2
  <1>13. ASSUME NEW d \in CallsOf(F) PROVE (\E i \in 1..m : at[i] = d) \/ \A i \in 1..m : LaterThan(at[i], d)
    <2>1. CASE \E c \in CallsOf(L) : Moved(c, off) = d
      <3>1. PICK c \in CallsOf(L) : Moved(c, off) = d
        BY <2>1
      <3>2. CASE \E i \in 1..m : b[i] = c
        BY <1>6, <3>1, <3>2
      <3>3. CASE \A i \in 1..m : LaterThan(b[i], c)
        BY <1>6, <1>11, <3>1, <3>3
      <3> QED
        BY <1>4, <3>2, <3>3
    <2>2. CASE \A c \in CallsOf(L) : LaterThan(Moved(c, off), d)
      BY <1>6, <2>2
    <2> QED
      BY <2>1, <2>2, FileCall
  <1>14. Told(w, F, at)
    BY <1>4, <1>8, <1>9, <1>12, <1>13 DEF Told, m
  <1>15. ASSUME off = 0, Cardinality(CallsOf(F)) <= WindowEntries PROVE ToldAll(w, F, at)
    <2>1. L = F
      BY <1>15, WholeTail
    <2>2. \A d \in CallsOf(L) : \E i \in 1..m : b[i] = d
      BY <1>4, <1>15, <2>1
    <2>3. \A c \in CallsOf(L) : Moved(c, off) = c
      <3> TAKE c \in CallsOf(L)
      <3>1. c = <<c[1], c[2]>> /\ c[1] \in 1..n
        BY <1>7
      <3>2. c[1] + off = c[1]
        BY <1>10, <1>15, <3>1
      <3> QED
        BY <3>1, <3>2 DEF Moved
    <2>4. \A d \in CallsOf(F) : \E i \in 1..m : at[i] = d
      BY <1>6, <2>1, <2>2, <2>3
    <2> QED
      BY <2>4 DEF ToldAll, m
  <1> QED
    BY <1>14, <1>15 DEF TellsOf, w

-----------------------------------------------------------------------------
(* The streaks.  The failures of an action up to k that no success follows. *)
Trail(w, k, i) == {j \in 1..k : w[j].identity = i /\ \A l \in j..k : w[l].identity = i => w[l].failed}

StreakStart(w) == [streak |-> [i \in Identities(w) |-> 0], last |-> [i \in Identities(w) |-> 0]]

StreakStates(I) == [streak : [I -> Nat], last : [I -> Nat]]

StreaksOver(f, w) ==
    f = [p \in SUBSET DOMAIN w |-> IF p = {} THEN StreakStart(w) ELSE Streak(f[p \ {Max(p)}], w[Max(p)])]

StreaksOf(w) == FoldLeft(Streak, StreakStart(w), w)

(* The streaks of a window, as the fold of its entries.                     *)
LEMMA StreakFunction ==
    ASSUME NEW w
    PROVE  StreaksOf(w) = (CHOOSE f : StreaksOver(f, w))[DOMAIN w]
  BY Zenon DEF StreaksOf, FoldLeft, MapThenFoldSet, StreaksOver

(* One entry leads from streaks to streaks.                                 *)
StreakSteps(t, s, e, I) ==
    /\ t \in StreakStates(I)
    /\ t.streak[e.identity] = (IF e.failed THEN s.streak[e.identity] + 1 ELSE 0)
    /\ e.failed => t.last[e.identity] = e.batch
    /\ ~e.failed => t.last = s.last
    /\ \A i \in I : i # e.identity => t.streak[i] = s.streak[i] /\ t.last[i] = s.last[i]

(* One entry makes such a step.                                             *)
LEMMA StreakType ==
    ASSUME NEW I, NEW s \in StreakStates(I), NEW e \in Item, e.identity \in I
    PROVE  StreakSteps(Streak(s, e), s, e, I)
  <1> DEFINE a == s.streak
             b == s.last
             x == e.identity
             a2 == [a EXCEPT ![x] = IF e.failed THEN @ + 1 ELSE 0]
             b2 == IF e.failed THEN [b EXCEPT ![x] = e.batch] ELSE b
             t == [streak |-> a2, last |-> b2]
  <1>1. a \in [I -> Nat] /\ b \in [I -> Nat] /\ x \in I /\ e.batch \in Nat /\ e.failed \in BOOLEAN
    BY DEF StreakStates, Item
  <1>2. Streak(s, e) = t
    BY DEF Streak
  <1> HIDE DEF a, b, x
  <1>3. /\ a2 \in [I -> Nat] /\ a2[x] = (IF e.failed THEN a[x] + 1 ELSE 0)
        /\ \A i \in I : i # x => a2[i] = a[i]
    BY <1>1
  <1>4. /\ b2 \in [I -> Nat] /\ (e.failed => b2[x] = e.batch) /\ (~e.failed => b2 = b)
        /\ \A i \in I : i # x => b2[i] = b[i]
    BY <1>1
  <1> HIDE DEF a2, b2
  <1>5. t.streak = a2 /\ t.last = b2 /\ t \in StreakStates(I)
    BY <1>3, <1>4 DEF StreakStates
  <1> HIDE DEF t
  <1>6. StreakSteps(t, s, e, I)
    BY <1>3, <1>4, <1>5, Zenon DEF StreakSteps, a, b, x
  <1> QED
    BY <1>2, <1>6

(* The streaks along a window.                                              *)
Streaks(h, w, n) ==
    /\ h \in [0..n -> StreakStates(Identities(w))]
    /\ h[0] = StreakStart(w)
    /\ \A k \in 1..n : h[k] = Streak(h[k - 1], w[k])
    /\ h[n] = StreaksOf(w)

StreaksSome(w, n) == \E h : Streaks(h, w, n)

(* There is such a run of the streaks.                                      *)
LEMMA StreakRun ==
    ASSUME NEW w \in Seq(Item), NEW n, n = Len(w)
    PROVE  StreaksSome(w, n)
  <1> DEFINE I == Identities(w)
             A == StreakStates(I)
             base == StreakStart(w)
             With(k, s) == Streak(s, w[k])
             O == [k \in 1..n |-> [s \in A |-> With(k, s)]]
             f == CHOOSE f : StreaksOver(f, w)
  <1>1. n \in Nat /\ DOMAIN w = 1..n /\ \A k \in 1..n : w[k] \in Item /\ w[k].identity \in I
    BY DEF Identities
  <1>2. base \in A
    BY DEF StreakStart, StreakStates
  <1> HIDE DEF A, base, I
  <1>3. \A k \in 1..n : \A s \in A : With(k, s) \in A
    BY <1>1, StreakType DEF StreakSteps, A
  <1>4. O \in [1..n -> [A -> A]] /\ \A k \in 1..n : \A s \in A : O[k][s] = With(k, s)
    <2> HIDE DEF With
    <2> QED
      BY <1>3
  <1> HIDE DEF O
  <1>5. PICK g \in [SUBSET (1..n) -> A] : GoesAlong(g, O, base, n)
    BY Zenon, <1>1, <1>2, <1>4, PrefixFold
  <1>6. ASSUME NEW p \in SUBSET (1..n), p # {} PROVE g[p] = With(Max(p), g[p \ {Max(p)}])
    <2>1. Max(p) \in 1..n
      BY Zenon, <1>1, <1>6, MaxOf
    <2>2. g[p \ {Max(p)}] \in A
      <3>1. p \ {Max(p)} \in SUBSET (1..n)
        BY Zenon
      <3> QED
        BY <3>1
    <2> HIDE DEF With
    <2> QED
      BY Zenon, <1>4, <1>5, <1>6, <2>1, <2>2 DEF GoesAlong
  <1>7. StreaksOver(g, w)
    <2>1. \A p \in SUBSET (1..n) : g[p] = IF p = {} THEN base ELSE With(Max(p), g[p \ {Max(p)}])
      BY Zenon, <1>5, <1>6 DEF GoesAlong
    <2>2. g = [p \in SUBSET (1..n) |-> IF p = {} THEN base ELSE With(Max(p), g[p \ {Max(p)}])]
      <3> HIDE DEF With
      <3> QED
        BY Zenon, <2>1
    <2> QED
      BY Zenon, <1>1, <2>2 DEF StreaksOver, base
  <1>8. StreaksOver(f, w)
    BY <1>7
  <1>9. StreaksOf(w) = f[1..n]
    BY <1>1, StreakFunction
  <1> HIDE DEF f
  <1>10. StepsBy(f, O, base, n, A)
    <2>1. f[{}] = base
      BY <1>8 DEF StreaksOver, base
    <2>2. ASSUME NEW p \in SUBSET (1..n), NEW a \in A, p # {}, f[p \ {Max(p)}] = a
          PROVE  f[p] = O[Max(p)][a]
      <3>1. f[p] = With(Max(p), f[p \ {Max(p)}])
        BY Zenon, <1>1, <1>8, <2>2 DEF StreaksOver
      <3>2. Max(p) \in 1..n
        BY Zenon, <1>1, <2>2, MaxOf
      <3> HIDE DEF With
      <3>3. O[Max(p)][a] = With(Max(p), a)
        BY <1>4, <3>2
      <3>4. f[p] = With(Max(p), a)
        BY Zenon, <2>2, <3>1
      <3> QED
        BY <3>3, <3>4
    <2> QED
      BY Zenon, <2>1, <2>2 DEF StepsBy
  <1>11. PICK h \in [0..n -> A] : Runs(h, O, base, n) /\ h[n] = f[1..n]
    <2>1. EndsLike(f, O, base, n, A)
      BY Zenon, <1>1, <1>2, <1>4, <1>10, PrefixRun
    <2> QED
      BY <2>1 DEF EndsLike
  <1>12. Streaks(h, w, n)
    <2>1. \A k \in 1..n : k - 1 \in 0..n
      BY <1>1
    <2>2. \A k \in 1..n : h[k] = With(k, h[k - 1])
      <3> HIDE DEF With
      <3> QED
        BY <1>4, <1>11, <2>1 DEF Runs
    <2> QED
      BY <1>9, <1>11, <2>2 DEF Streaks, Runs, A, I, base
  <1> QED
    BY <1>12 DEF StreaksSome

(* What an entry makes of the trails.                                       *)
LEMMA TrailStep ==
    ASSUME NEW w, NEW k \in Nat, NEW i
    PROVE  /\ w[k + 1].identity # i => Trail(w, k + 1, i) = Trail(w, k, i)
           /\ w[k + 1].identity = i /\ w[k + 1].failed => Trail(w, k + 1, i) = Trail(w, k, i) \cup {k + 1}
           /\ w[k + 1].identity = i /\ ~w[k + 1].failed => Trail(w, k + 1, i) = {}
  <1> DEFINE Is(l) == w[l].identity = i
             Ok(l) == w[l].identity = i => w[l].failed
             T(m) == {j \in 1..m : Is(j) /\ \A l \in j..m : Ok(l)}
             q == k + 1
  <1>1. Trail(w, q, i) = T(q) /\ Trail(w, k, i) = T(k)
    BY DEF Trail
  <1>2. w[q].identity # i => ~Is(q) /\ Ok(q)
    OBVIOUS
  <1>3. w[q].identity = i /\ w[q].failed => Is(q) /\ Ok(q)
    OBVIOUS
  <1>4. w[q].identity = i /\ ~w[q].failed => ~Ok(q)
    OBVIOUS
  <1>5. q \in Nat /\ 1..q = (1..k) \cup {q} /\ q..q = {q}
    OBVIOUS
  <1>6. \A j \in 1..k : j..q = (j..k) \cup {q}
    OBVIOUS
  <1>7. q \notin 1..k /\ \A j \in 1..q : q \in j..q
    OBVIOUS
  <1> HIDE DEF Is, Ok, q
  <1>8. ~Is(q) /\ Ok(q) => T(q) = T(k)
    BY <1>5, <1>6, <1>7
  <1>9. Is(q) /\ Ok(q) => T(q) = T(k) \cup {q}
    BY <1>5, <1>6, <1>7
  <1>10. ~Ok(q) => T(q) = {}
    BY <1>7
  <1> HIDE DEF T
  <1>11. /\ w[q].identity # i => T(q) = T(k)
         /\ w[q].identity = i /\ w[q].failed => T(q) = T(k) \cup {q}
         /\ w[q].identity = i /\ ~w[q].failed => T(q) = {}
    BY <1>2, <1>3, <1>4, <1>8, <1>9, <1>10
  <1> QED
    BY <1>1, <1>11 DEF q

(* A streak counts the trail, and remembers the batch of its latest.        *)
LatestOf(S, j) == j \in S /\ \A l \in S : l <= j

TrailCounts(s, w, k, i) ==
    /\ s.streak[i] = Cardinality(Trail(w, k, i))
    /\ Trail(w, k, i) # {} => \E j : LatestOf(Trail(w, k, i), j) /\ s.last[i] = w[j].batch

TrailsCounted(s, w, k) == \A i \in Identities(w) : TrailCounts(s, w, k, i)

(* An entry keeps the streaks to the trails.                                *)
LEMMA StreakStep ==
    ASSUME NEW w \in Seq(Item), NEW k \in Nat, k + 1 \in 1..Len(w),
           NEW s \in StreakStates(Identities(w)), TrailsCounted(s, w, k)
    PROVE  TrailsCounted(Streak(s, w[k + 1]), w, k + 1)
  <1> DEFINE I == Identities(w)
             q == k + 1
             e == w[q]
             t == Streak(s, e)
  <1>1. e \in Item /\ e.identity \in I /\ q \in Nat
    BY DEF Identities
  <1>2. StreakSteps(t, s, e, I)
    BY <1>1, StreakType
  <1> HIDE DEF t
  <1>3. ASSUME NEW i \in I PROVE TrailCounts(t, w, q, i)
    <2> DEFINE S == Trail(w, k, i)
               T == Trail(w, q, i)
    <2>1. /\ e.identity # i => T = S
          /\ e.identity = i /\ e.failed => T = S \cup {q}
          /\ e.identity = i /\ ~e.failed => T = {}
      BY Zenon, TrailStep
    <2>2. s.streak[i] = Cardinality(S) /\ (S # {} => \E j : LatestOf(S, j) /\ s.last[i] = w[j].batch)
      BY Zenon DEF TrailsCounted, TrailCounts
    <2>3. S \in SUBSET (1..k) /\ q \notin S /\ \A l \in S : l <= q
      BY DEF Trail
    <2>4. IsFiniteSet(S) /\ Cardinality(S) \in Nat
      BY Zenon, <2>3, FiniteOf
    <2>5. Cardinality({}) = 0 /\ Cardinality(S \cup {q}) = Cardinality(S) + 1
      BY Zenon, <2>3, <2>4, FS_EmptySet, FS_AddElement
    <2> HIDE DEF S, T, e, q
    <2>6. CASE e.identity # i
      <3>1. T = S /\ t.streak[i] = s.streak[i] /\ t.last[i] = s.last[i]
        BY <1>2, <2>1, <2>6, Zenon DEF StreakSteps
      <3>2. /\ t.streak[i] = Cardinality(T)
            /\ T # {} => \E j : LatestOf(T, j) /\ t.last[i] = w[j].batch
        BY <2>2, <3>1, Zenon
      <3> QED
        BY <3>2, Zenon DEF TrailCounts, T
    <2>7. CASE e.identity = i /\ e.failed
      <3>1. T = S \cup {q} /\ t.streak[i] = s.streak[i] + 1 /\ t.last[i] = e.batch
        BY <1>2, <2>1, <2>7 DEF StreakSteps
      <3>2. t.streak[i] = Cardinality(T)
        BY <2>2, <2>5, <3>1
      <3>3. LatestOf(T, q)
        <4>1. q <= q
          BY <1>1
        <4> QED
          BY <2>3, <3>1, <4>1 DEF LatestOf
      <3>4. t.last[i] = w[q].batch
        BY <3>1 DEF e
      <3> QED
        BY <3>2, <3>3, <3>4, Zenon DEF TrailCounts, T
    <2>8. CASE e.identity = i /\ ~e.failed
      <3>1. T = {} /\ t.streak[i] = 0
        BY <1>2, <2>1, <2>8 DEF StreakSteps
      <3> QED
        BY <2>5, <3>1 DEF TrailCounts, T
    <2> QED
      BY <2>6, <2>7, <2>8
  <1> QED
    BY <1>3 DEF TrailsCounted, t

(* The streaks of a window are those of its trails.                         *)
LEMMA StreaksCount ==
    ASSUME NEW w \in Seq(Item)
    PROVE  TrailsCounted(StreaksOf(w), w, Len(w))
  <1> DEFINE n == Len(w)
  <1>1. PICK h : Streaks(h, w, n)
    BY StreakRun DEF StreaksSome
  <1>2. n \in Nat
    OBVIOUS
  <1> DEFINE B == {k \in Nat : k <= n => TrailsCounted(h[k], w, k)}
  <1>3. 0 \in B
    <2>1. ASSUME NEW i \in Identities(w) PROVE TrailCounts(h[0], w, 0, i)
      <3>1. Trail(w, 0, i) = {}
        BY DEF Trail
      <3>2. h[0].streak[i] = 0
        BY <1>1, <2>1 DEF Streaks, StreakStart
      <3>3. Cardinality({}) = 0
        BY FS_EmptySet
      <3> QED
        BY Zenon, <3>1, <3>2, <3>3 DEF TrailCounts
    <2> QED
      BY <2>1 DEF TrailsCounted
  <1>4. ASSUME NEW k \in Nat, k \in B PROVE k + 1 \in B
    <2>1. ASSUME k + 1 <= n PROVE TrailsCounted(h[k + 1], w, k + 1)
      <3>1. k \in 0..n /\ k + 1 \in 1..n /\ (k + 1) - 1 = k
        BY <1>2, <2>1
      <3>2. h[k] \in StreakStates(Identities(w)) /\ h[k + 1] = Streak(h[k], w[k + 1])
        BY <1>1, <3>1 DEF Streaks
      <3>3. TrailsCounted(h[k], w, k)
        BY <1>4, <3>1
      <3> QED
        BY <3>1, <3>2, <3>3, StreakStep
    <2> QED
      BY <2>1
  <1>5. n \in B
    BY Zenon, <1>2, <1>3, <1>4, NumberInduction
  <1>6. TrailsCounted(h[n], w, n)
    BY <1>2, <1>5
  <1> QED
    BY <1>1, <1>6 DEF Streaks

(* The calls of a transcript are finitely many.                             *)
LEMMA FewCalls ==
    ASSUME NEW L, NEW n, Lines(L, n), OwnIds(L)
    PROVE  IsFiniteSet(CallsOf(L))
  <1> DEFINE es == ParseLines(L)
             m == Len(es)
  <1>1. PICK at : Placed(es, L, n, at)
    BY AllParsed DEF PlacedSome
  <1>2. es \in Seq(Item) /\ at \in [1..m -> CallsOf(L)]
    BY <1>1 DEF Placed
  <1>3. m \in Nat
    BY <1>2
  <1>4. \A c \in CallsOf(L) : \E i \in 1..m : at[i] = c
    <2> TAKE c \in CallsOf(L)
    <2>1. c[1] <= n
      <3>1. n \in Nat /\ c[1] \in 1..n
        BY CallType DEF Lines
      <3> QED
        BY <3>1
    <2> QED
      BY <1>1, <2>1 DEF Placed
  <1> HIDE DEF m
  <1>5. at \in Surjection(1..m, CallsOf(L))
    BY <1>2, <1>4 DEF Surjection
  <1>6. IsFiniteSet(1..m)
    BY <1>3, FS_Interval
  <1> QED
    BY <1>5, <1>6, FS_Surjection

(* A window tells of each call once.                                        *)
ToldOnce(w, at) == \A i, j \in 1..Len(w) : at[i] = at[j] => i = j

(* The calls it tells of are all different, and in order.                   *)
LEMMA EachOnce ==
    ASSUME NEW F, NEW N, Lines(F, N), NEW w, NEW at, Told(w, F, at)
    PROVE  /\ ToldOnce(w, at)
           /\ \A i, j \in 1..Len(w) : LaterThan(at[i], at[j]) => j < i
  <1> DEFINE m == Len(w)
  <1>1. /\ m \in Nat /\ at \in [1..m -> CallsOf(F)]
        /\ \A i, j \in 1..m : i < j => LaterThan(at[j], at[i])
    BY DEF Told
  <1> HIDE DEF m
  <1>2. \A i \in 1..m : at[i][1] \in Int /\ at[i][2] \in Int
    BY <1>1, CallType
  <1>3. ASSUME NEW i \in 1..m, NEW j \in 1..m, i < j PROVE at[i] # at[j] /\ ~LaterThan(at[i], at[j])
    <2>1. LaterThan(at[j], at[i])
      BY <1>1, <1>3
    <2> QED
      BY <1>2, <2>1 DEF LaterThan
  <1>4. \A i \in 1..m : ~LaterThan(at[i], at[i])
    BY <1>2 DEF LaterThan
  <1>5. \A i, j \in 1..m : i = j \/ i < j \/ j < i
    BY <1>1
  <1>6. \A i, j \in 1..m : at[i] = at[j] => i = j
    BY <1>3, <1>5
  <1>7. \A i, j \in 1..m : LaterThan(at[i], at[j]) => j < i
    BY <1>3, <1>4, <1>5
  <1> QED
    BY <1>6, <1>7 DEF ToldOnce, m

(* The entries of an action that are recent, and its recent calls.          *)
OftenIn(w, i) == {k \in DOMAIN w : w[k].identity = i /\ w[k].batch >= Floor(w)}

RecentTo(F, a) == {c \in CallsTo(F, a) : IsRecent(F, c)}

(* The recent entries of an action are recent calls to it, all of them if   *)
(* the window tells of every call.                                          *)
LEMMA OftenIs ==
    ASSUME NEW F, NEW N, Lines(F, N), NEW w, NEW at, Told(w, F, at), NEW a
    PROVE  /\ \A k \in OftenIn(w, <<a>>) : k \in 1..Len(w) /\ at[k] \in RecentTo(F, a)
           /\ ToldAll(w, F, at) => \A c \in RecentTo(F, a) : \E k \in OftenIn(w, <<a>>) : at[k] = c
  <1> DEFINE m == Len(w)
  <1>1. /\ w \in Seq(Item) /\ at \in [1..m -> CallsOf(F)]
        /\ \A k \in 1..m : /\ w[k].identity = <<UseAt(F, at[k]).action>>
                           /\ w[k].batch >= Floor(w) <=> IsRecent(F, at[k])
    BY DEF Told
  <1>2. DOMAIN w = 1..m
    BY <1>1
  <1> HIDE DEF m
  <1>3. ASSUME NEW k \in 1..m
        PROVE  k \in OftenIn(w, <<a>>) <=> at[k] \in RecentTo(F, a)
    <2> DEFINE b == UseAt(F, at[k]).action
    <2>1. at[k] \in CallsOf(F)
      BY <1>1
    <2>2. w[k].identity = <<b>> /\ (w[k].batch >= Floor(w) <=> IsRecent(F, at[k]))
      BY <1>1
    <2>3. at[k] \in RecentTo(F, a) <=> b = a /\ IsRecent(F, at[k])
      BY <2>1 DEF RecentTo, CallsTo
    <2>4. k \in OftenIn(w, <<a>>) <=> w[k].identity = <<a>> /\ w[k].batch >= Floor(w)
      BY <1>2 DEF OftenIn
    <2> HIDE DEF b
    <2>5. <<b>> = <<a>> <=> b = a
      OBVIOUS
    <2> QED
      BY <2>2, <2>3, <2>4, <2>5
  <1>4. ASSUME NEW k \in OftenIn(w, <<a>>) PROVE k \in 1..m /\ at[k] \in RecentTo(F, a)
    <2>1. k \in 1..m
      BY <1>2 DEF OftenIn
    <2> QED
      BY <1>3, <2>1
  <1>5. ASSUME ToldAll(w, F, at), NEW c \in RecentTo(F, a) PROVE \E k \in OftenIn(w, <<a>>) : at[k] = c
    <2>1. c \in CallsOf(F)
      BY DEF RecentTo, CallsTo
    <2>2. PICK k \in 1..m : at[k] = c
      BY <1>5, <2>1 DEF ToldAll, m
    <2> QED
      BY <1>3, <2>2
  <1> QED
    BY <1>4, <1>5 DEF m

(* The identity of an entry is that of one action.                          *)
LEMMA IdentityIs ==
    ASSUME NEW w \in Seq(Item), NEW i \in Identities(w)
    PROVE  \E a \in Actions : i = <<a>>
  <1>1. PICK k \in DOMAIN w : i = w[k].identity
    BY DEF Identities
  <1>2. w[k] \in Item
    OBVIOUS
  <1> QED
    BY <1>1, <1>2 DEF Item

(* What is repeated in a window that tells of a file is repeated in it, and *)
(* conversely if the window tells of every call.                            *)
LEMMA RepetitionTold ==
    ASSUME NEW F, NEW N, Lines(F, N), OwnIds(F), NEW w, NEW at, Told(w, F, at), NEW a \in Actions
    PROVE  /\ <<a>> \in Repetition(w) => IsRepeated(F, a)
           /\ ToldAll(w, F, at) /\ IsRepeated(F, a) => <<a>> \in Repetition(w)
  <1> DEFINE i == <<a>>
             S == OftenIn(w, i)
             T == RecentTo(F, a)
             f == [k \in S |-> at[k]]
             R == RepeatThreshold
  <1>1. i \in Repetition(w) <=> i \in Identities(w) /\ Cardinality(S) >= R
    BY Zenon DEF Repetition, OftenIn
  <1>2. IsRepeated(F, a) <=> Cardinality(T) >= R
    BY DEF IsRepeated, RecentTo
  <1>3. /\ \A k \in S : k \in 1..Len(w) /\ at[k] \in T
        /\ ToldAll(w, F, at) => \A c \in T : \E k \in S : at[k] = c
    BY OftenIs
  <1>4. ToldOnce(w, at)
    BY EachOnce
  <1>5. IsFiniteSet(T)
    <2>1. T \in SUBSET CallsOf(F)
      BY DEF RecentTo, CallsTo
    <2> QED
      BY <2>1, FewCalls, FS_Subset
  <1>6. S # {} => i \in Identities(w)
    BY DEF OftenIn, Identities
  <1>7. R \in Nat \ {0}
    BY ScreeningAssumption
  <1> HIDE DEF S, T, i, R
  <1>8. OneToOne(f, S, T)
    BY <1>3, <1>4 DEF OneToOne, ToldOnce
  <1>9. IsFiniteSet(S) /\ Cardinality(S) \in Nat /\ Cardinality(T) \in Nat /\ Cardinality(S) <= Cardinality(T)
    BY <1>5, <1>8, NoSmaller
  <1>10. ASSUME i \in Repetition(w) PROVE IsRepeated(F, a)
    BY <1>1, <1>2, <1>7, <1>9, <1>10
  <1>11. ASSUME ToldAll(w, F, at), IsRepeated(F, a) PROVE i \in Repetition(w)
    <2>1. Onto(f, S, T)
      BY <1>3, <1>11 DEF Onto
    <2>2. Cardinality(T) = Cardinality(S)
      BY <1>8, <1>9, <2>1, SameSize
    <2>3. Cardinality(S) >= R /\ Cardinality(S) # 0
      BY <1>2, <1>7, <1>9, <1>11, <2>2
    <2>4. S # {}
      BY <2>3, FS_EmptySet
    <2> QED
      BY <1>1, <1>6, <2>3, <2>4
  <1> QED
    BY <1>10, <1>11 DEF i

(* What is reported as failing, by its trail.                               *)
FailsAt(w, i) ==
    LET T == Trail(w, Len(w), i)
    IN  Cardinality(T) >= FailureThreshold /\ \E j : LatestOf(T, j) /\ w[j].batch >= Floor(w)

(* A streak is reported by how long its trail is and by where it ends.      *)
LEMMA FailureIs ==
    ASSUME NEW w \in Seq(Item), NEW i \in Identities(w)
    PROVE  i \in RepeatedFailure(w) <=> FailsAt(w, i)
  <1> DEFINE T == Trail(w, Len(w), i)
             s == StreaksOf(w)
             m == Len(w)
  <1>1. i \in RepeatedFailure(w) <=> s.streak[i] >= FailureThreshold /\ s.last[i] >= Floor(w)
    BY DEF RepeatedFailure, StreaksOf, StreakStart
  <1>2. TrailCounts(s, w, m, i)
    BY StreaksCount DEF TrailsCounted
  <1> HIDE DEF s
  <1>3. s.streak[i] = Cardinality(T) /\ (T # {} => \E j : LatestOf(T, j) /\ s.last[i] = w[j].batch)
    BY <1>2, Zenon DEF TrailCounts
  <1>4. FailureThreshold \in Nat \ {0}
    BY ScreeningAssumption
  <1>5. m \in Nat /\ T \in SUBSET (1..m)
    BY DEF Trail
  <1> HIDE DEF T, m
  <1>6. IsFiniteSet(T) /\ Cardinality(T) \in Nat /\ (T = {} => Cardinality(T) = 0)
    BY Zenon, <1>5, FiniteOf, FS_EmptySet
  <1>7. FailsAt(w, i) <=> Cardinality(T) >= FailureThreshold /\ \E j : LatestOf(T, j) /\ w[j].batch >= Floor(w)
    BY Zenon DEF FailsAt, T
  <1>8. \A j, k : LatestOf(T, j) /\ LatestOf(T, k) => j = k
    <2> SUFFICES ASSUME NEW j, NEW k, LatestOf(T, j), LatestOf(T, k) PROVE j = k
      OBVIOUS
    <2>1. j \in 1..m /\ k \in 1..m /\ j <= k /\ k <= j
      BY <1>5 DEF LatestOf
    <2> QED
      BY <2>1
  <1>9. CASE T = {}
    BY <1>1, <1>3, <1>4, <1>6, <1>7, <1>9
  <1>10. CASE T # {}
    <2>1. PICK j : LatestOf(T, j) /\ s.last[i] = w[j].batch
      BY <1>3, <1>10
    <2>2. (\E k : LatestOf(T, k) /\ w[k].batch >= Floor(w)) <=> w[j].batch >= Floor(w)
      BY <1>8, <2>1
    <2> QED
      BY <1>1, <1>3, <1>7, <2>1, <2>2
  <1> QED
    BY <1>9, <1>10

(* The t latest of a set.                                                   *)
UpperPart(U, T, t) == U \in SUBSET T /\ Cardinality(U) = t /\ \A x \in T \ U : \A y \in U : x < y

HasUpper(T, t) == \E U : UpperPart(U, T, t)

(* A set of numbers has so many latest ones.                                *)
LEMMA UpperExists ==
    ASSUME NEW m \in Nat, NEW T \in SUBSET (1..m), NEW t \in Nat, t <= Cardinality(T)
    PROVE  HasUpper(T, t)
  <1> DEFINE B == {k \in Nat : k <= Cardinality(T) => HasUpper(T, k)}
  <1>1. IsFiniteSet(T) /\ Cardinality(T) \in Nat
    BY Zenon, FiniteOf
  <1>2. 0 \in B
    <2>1. UpperPart({}, T, 0)
      BY FS_EmptySet DEF UpperPart
    <2> QED
      BY <2>1 DEF HasUpper
  <1>3. ASSUME NEW k \in Nat, k \in B PROVE k + 1 \in B
    <2>1. ASSUME k + 1 <= Cardinality(T) PROVE HasUpper(T, k + 1)
      <3>1. k <= Cardinality(T)
        BY <1>1, <2>1
      <3>2. PICK U : UpperPart(U, T, k)
        BY <1>3, <3>1 DEF HasUpper
      <3> DEFINE rest == T \ U
                 z == Max(rest)
                 V == U \cup {z}
      <3>3. U \in SUBSET T /\ Cardinality(U) = k /\ \A x \in rest : \A y \in U : x < y
        BY <3>2 DEF UpperPart
      <3>4. rest # {}
        <4>1. U # T
          BY <1>1, <2>1, <3>3
        <4> QED
          BY Zenon, <3>3, <4>1
      <3>5. z \in rest /\ \A y \in rest : z >= y
        <4>1. rest \in SUBSET (1..m)
          BY Zenon
        <4> HIDE DEF rest
        <4> QED
          BY Zenon, <3>4, <4>1, MaxOf
      <3> HIDE DEF z
      <3>6. V \in SUBSET T
        BY <3>3, <3>5
      <3>7. IsFiniteSet(U)
        BY Zenon, <1>1, <3>3, FS_Subset
      <3>8. Cardinality(V) = k + 1
        BY <3>3, <3>5, <3>7, FS_AddElement
      <3>9. ASSUME NEW x \in T \ V, NEW y \in V PROVE x < y
        <4>1. x \in rest /\ x # z
          BY <3>9
        <4>2. y \in U => x < y
          BY <3>3, <4>1
        <4>3. x \in 1..m /\ z \in 1..m /\ z >= x
          BY <3>5, <4>1
        <4>4. x < z
          BY <4>1, <4>3
        <4> QED
          BY <3>9, <4>2, <4>4
      <3>10. UpperPart(V, T, k + 1)
        BY <3>6, <3>8, <3>9 DEF UpperPart
      <3> QED
        BY <3>10 DEF HasUpper
    <2> QED
      BY <2>1
  <1>4. t \in B
    BY Zenon, <1>2, <1>3, NumberInduction
  <1> QED
    BY <1>4

(* The calls to an action that failed.                                      *)
FailedTo(F, a) == {c \in CallsTo(F, a) : IsFailed(F, c)}

Unbroken(F, a, fs) == \A d \in CallsTo(F, a) \ fs : \A c \in fs : LaterThan(c, d)

(* What the entries of an action say of its calls.                          *)
TellsTruly(w, F, at, a) ==
    /\ \A k \in 1..Len(w) : at[k] \in CallsTo(F, a) <=> w[k].identity = <<a>>
    /\ \A k \in 1..Len(w) : w[k].failed <=> IsFailed(F, at[k])
    /\ \A k \in 1..Len(w) : w[k].batch >= Floor(w) <=> IsRecent(F, at[k])

(* An entry is to an action, failed or recent as its call is.               *)
LEMMA EntriesSpeak ==
    ASSUME NEW F, NEW w, NEW at, Told(w, F, at), NEW a
    PROVE  TellsTruly(w, F, at, a)
  <1> DEFINE m == Len(w)
  <1>1. /\ at \in [1..m -> CallsOf(F)]
        /\ \A k \in 1..m : /\ w[k].identity = <<UseAt(F, at[k]).action>>
                           /\ w[k].failed <=> IsFailed(F, at[k])
                           /\ w[k].batch >= Floor(w) <=> IsRecent(F, at[k])
    BY DEF Told
  <1> HIDE DEF m
  <1>2. ASSUME NEW k \in 1..m PROVE at[k] \in CallsTo(F, a) <=> w[k].identity = <<a>>
    <2> DEFINE b == UseAt(F, at[k]).action
    <2>1. at[k] \in CallsOf(F) /\ w[k].identity = <<b>>
      BY <1>1
    <2>2. at[k] \in CallsTo(F, a) <=> b = a
      BY <2>1 DEF CallsTo
    <2> HIDE DEF b
    <2>3. <<b>> = <<a>> <=> b = a
      OBVIOUS
    <2> QED
      BY <2>1, <2>2, <2>3
  <1>3. \A k \in 1..m : (w[k].failed <=> IsFailed(F, at[k])) /\ (w[k].batch >= Floor(w) <=> IsRecent(F, at[k]))
    BY <1>1, Zenon
  <1> QED
    BY <1>2, <1>3, Zenon DEF TellsTruly, m

(* The latest part of a trail are failed calls that no call that did not    *)
(* fail follows.                                                            *)
LEMMA TrailUnbroken ==
    ASSUME NEW F, NEW w, NEW at, Told(w, F, at), NEW a,
           NEW U, NEW t, UpperPart(U, Trail(w, Len(w), <<a>>), t), NEW fs, fs = {at[k] : k \in U}
    PROVE  fs \in SUBSET FailedTo(F, a) /\ Unbroken(F, a, fs)
  <1> DEFINE m == Len(w)
             i == <<a>>
             T == Trail(w, m, i)
  <1>1. /\ m \in Nat /\ at \in [1..m -> CallsOf(F)]
        /\ \A j, k \in 1..m : j < k => LaterThan(at[k], at[j])
        /\ \A d \in CallsOf(F) : (\E k \in 1..m : at[k] = d) \/ \A k \in 1..m : LaterThan(at[k], d)
    BY DEF Told
  <1>2. TellsTruly(w, F, at, a)
    BY EntriesSpeak
  <1>3. U \in SUBSET T /\ \A x \in T \ U : \A y \in U : x < y
    BY DEF UpperPart
  <1> HIDE DEF m, i
  <1>4. \A k \in 1..m : /\ at[k] \in CallsTo(F, a) <=> w[k].identity = i
                        /\ w[k].failed <=> IsFailed(F, at[k])
    BY <1>2, Zenon DEF TellsTruly, m, i
  <1>5. \A k : k \in T <=> k \in 1..m /\ w[k].identity = i /\ \A l \in k..m : w[l].identity = i => w[l].failed
    BY DEF Trail
  <1> HIDE DEF T
  <1>6. ASSUME NEW k \in U PROVE k \in 1..m /\ at[k] \in FailedTo(F, a)
    <2>1. k \in 1..m /\ w[k].identity = i /\ k \in k..m
      BY <1>1, <1>3, <1>5
    <2>2. w[k].failed
      BY <1>3, <1>5, <2>1
    <2> QED
      BY <1>4, <2>1, <2>2 DEF FailedTo
  <1>7. ASSUME NEW d \in CallsTo(F, a) \ fs, NEW k \in U PROVE LaterThan(at[k], d)
    <2>1. k \in 1..m /\ k \in T
      BY <1>3, <1>6
    <2>2. d \in CallsOf(F)
      BY DEF CallsTo
    <2>3. CASE \E j \in 1..m : at[j] = d
      <3>1. PICK j \in 1..m : at[j] = d
        BY <2>3
      <3>2. j \notin U /\ w[j].identity = i
        BY <1>4, <3>1
      <3>3. CASE j \in T
        <4>1. j < k
          BY <1>3, <3>2, <3>3
        <4> QED
          BY <1>1, <2>1, <3>1, <4>1
      <3>4. CASE j \notin T
        <4>1. PICK l \in j..m : w[l].identity = i /\ ~w[l].failed
          BY <1>5, <3>1, <3>2, <3>4
        <4>2. l \notin k..m
          BY <1>5, <2>1, <4>1
        <4>3. j < k
          BY <1>1, <2>1, <3>1, <4>1, <4>2
        <4> QED
          BY <1>1, <2>1, <3>1, <4>3
      <3> QED
        BY <3>3, <3>4
    <2>4. CASE \A j \in 1..m : LaterThan(at[j], d)
      BY <2>1, <2>4
    <2> QED
      BY <1>1, <2>2, <2>3, <2>4
  <1>8. fs \in SUBSET FailedTo(F, a)
    BY <1>6
  <1>9. \A d \in CallsTo(F, a) \ fs : \A c \in fs : LaterThan(c, d)
    BY <1>7
  <1> QED
    BY <1>8, <1>9, Zenon DEF Unbroken

(* What keeps failing in a window that tells of a file keeps failing in it. *)
LEMMA FailureTold ==
    ASSUME NEW F, NEW N, Lines(F, N), NEW w, NEW at, Told(w, F, at), NEW a, FailsAt(w, <<a>>)
    PROVE  IsFailing(F, a)
  <1> DEFINE m == Len(w)
             i == <<a>>
             T == Trail(w, m, i)
             t == FailureThreshold
  <1>1. m \in Nat /\ T \in SUBSET (1..m) /\ at \in [1..m -> CallsOf(F)]
    BY DEF Trail, Told
  <1>2. Cardinality(T) >= t
    BY Zenon DEF FailsAt
  <1>3. PICK j : LatestOf(T, j) /\ w[j].batch >= Floor(w)
    BY Zenon DEF FailsAt
  <1>4. t \in Nat \ {0}
    BY ScreeningAssumption
  <1>5. TellsTruly(w, F, at, a) /\ ToldOnce(w, at)
    BY EntriesSpeak, EachOnce
  <1> HIDE DEF T, t, m, i
  <1>6. PICK U : UpperPart(U, T, t)
    <2>1. t <= Cardinality(T)
      BY <1>1, <1>2, <1>4, FiniteOf
    <2> QED
      BY Zenon, <1>1, <1>4, <2>1, UpperExists DEF HasUpper
  <1>7. U \in SUBSET T /\ Cardinality(U) = t /\ \A x \in T \ U : \A y \in U : x < y
    BY <1>6 DEF UpperPart
  <1>8. j \in U
    <2>1. U # {}
      BY <1>4, <1>7, FS_EmptySet
    <2>2. PICK y \in U : TRUE
      BY <2>1
    <2>3. j \in T /\ y \in T /\ y <= j /\ j \in 1..m /\ y \in 1..m
      BY <1>1, <1>3, <1>7, <2>2 DEF LatestOf
    <2>4. ~(j < y)
      BY <2>3
    <2> QED
      BY <1>7, <2>2, <2>3, <2>4
  <1> DEFINE fs == {at[k] : k \in U}
             f == [k \in U |-> at[k]]
  <1>9. fs \in SUBSET FailedTo(F, a) /\ Unbroken(F, a, fs)
    BY <1>6, TrailUnbroken DEF T, m, i
  <1>10. IsFiniteSet(U) /\ U \in SUBSET (1..m)
    <2>1. U \in SUBSET (1..m)
      BY <1>1, <1>7
    <2> QED
      BY Zenon, <1>1, <2>1, FiniteOf
  <1>11. Cardinality(fs) = t
    <2>1. OneToOne(f, U, fs)
      BY <1>5, <1>10 DEF OneToOne, ToldOnce, m
    <2>2. Onto(f, U, fs)
      BY DEF Onto
    <2> HIDE DEF f, fs
    <2>3. Cardinality(fs) = Cardinality(U)
      BY <1>10, <2>1, <2>2, SameSize
    <2> QED
      BY <1>7, <2>3
  <1>12. at[j] \in fs /\ IsRecent(F, at[j])
    BY <1>3, <1>5, <1>8, <1>10 DEF TellsTruly, m
  <1> HIDE DEF fs
  <1> QED
    BY <1>9, <1>11, <1>12, Zenon DEF IsFailing, Unbroken, FailedTo, t

(* What keeps failing in a file is found in a window that tells of all its  *)
(* calls.                                                                   *)
LEMMA FailureFound ==
    ASSUME NEW F, NEW N, Lines(F, N), NEW w, NEW at, Told(w, F, at), ToldAll(w, F, at), NEW a, IsFailing(F, a)
    PROVE  <<a>> \in Identities(w) /\ FailsAt(w, <<a>>)
  <1> DEFINE m == Len(w)
             i == <<a>>
             T == Trail(w, m, i)
             t == FailureThreshold
  <1>1. /\ m \in Nat /\ T \in SUBSET (1..m) /\ at \in [1..m -> CallsOf(F)] /\ DOMAIN w = 1..m
        /\ \A j, k \in 1..m : j < k => w[j].batch <= w[k].batch
    BY DEF Trail, Told
  <1>2. PICK fs \in SUBSET FailedTo(F, a) :
             Cardinality(fs) = t /\ Unbroken(F, a, fs) /\ \E c \in fs : IsRecent(F, c)
    BY Zenon DEF IsFailing, FailedTo, Unbroken
  <1>3. t \in Nat \ {0}
    BY ScreeningAssumption
  <1>4. TellsTruly(w, F, at, a)
    BY EntriesSpeak
  <1>5. ToldOnce(w, at) /\ \A j, k \in 1..m : LaterThan(at[j], at[k]) => k < j
    BY EachOnce
  <1>6. \A k : k \in T <=> k \in 1..m /\ w[k].identity = i /\ \A l \in k..m : w[l].identity = i => w[l].failed
    BY DEF Trail
  <1>7. \A k \in 1..m : w[k].batch \in Nat
    <2>1. \A k \in 1..m : w[k] \in Item
      BY <1>1 DEF Told
    <2>2. \A k \in 1..m : w[k].batch \in Nat
      BY <2>1 DEF Item
    <2> QED
      BY <2>2
  <1> HIDE DEF T, t, m, i
  <1>8. \A k \in 1..m : /\ at[k] \in CallsTo(F, a) <=> w[k].identity = i
                        /\ w[k].failed <=> IsFailed(F, at[k])
                        /\ w[k].batch >= Floor(w) <=> IsRecent(F, at[k])
    BY <1>4, Zenon DEF TellsTruly, m, i
  <1>9. \A c \in fs : c \in CallsTo(F, a) /\ IsFailed(F, c) /\ \E k \in 1..m : at[k] = c
    BY DEF FailedTo, ToldAll, CallsTo, m
  <1> DEFINE U == {k \in 1..m : at[k] \in fs}
             f == [k \in U |-> at[k]]
  <1>10. U \in SUBSET T
    <2> SUFFICES ASSUME NEW k \in U PROVE k \in T
      OBVIOUS
    <2>1. k \in 1..m /\ w[k].identity = i
      BY <1>8, <1>9
    <2>2. ASSUME NEW l \in k..m, w[l].identity = i PROVE w[l].failed
      <3>1. l \in 1..m /\ ~(l < k)
        BY <1>1, <2>1
      <3>2. at[l] \in CallsTo(F, a)
        BY <1>8, <2>2, <3>1
      <3>3. at[l] \in fs
        <4>1. ~LaterThan(at[k], at[l])
          BY <1>5, <2>1, <3>1
        <4> QED
          BY <1>2, <3>2, <4>1 DEF Unbroken
      <3> QED
        BY <1>8, <1>9, <3>1, <3>3
    <2> QED
      BY <1>6, <2>1, <2>2
  <1>11. Cardinality(U) = t
    <2>1. U \in SUBSET (1..m)
      OBVIOUS
    <2>2. OneToOne(f, U, fs)
      BY <1>5 DEF OneToOne, ToldOnce, m
    <2>3. Onto(f, U, fs)
      BY <1>9 DEF Onto
    <2> HIDE DEF U, f
    <2>4. IsFiniteSet(U)
      BY Zenon, <1>1, <2>1, FiniteOf
    <2> QED
      BY <1>2, <2>2, <2>3, <2>4, SameSize
  <1>12. PICK r \in U : IsRecent(F, at[r])
    BY <1>2, <1>9
  <1>13. r \in 1..m /\ r \in T /\ w[r].batch >= Floor(w)
    BY <1>8, <1>10, <1>12
  <1> HIDE DEF U
  <1>14. Cardinality(T) >= t
    <2>1. IsFiniteSet(T) /\ Cardinality(T) \in Nat
      BY Zenon, <1>1, FiniteOf
    <2>2. Cardinality(U) <= Cardinality(T)
      BY <1>10, <2>1, FS_Subset
    <2> QED
      BY <1>3, <1>11, <2>1, <2>2
  <1> DEFINE j == Max(T)
  <1>15. j \in T /\ \A y \in T : j >= y
    BY Zenon, <1>1, <1>13, MaxOf
  <1> HIDE DEF j
  <1>16. j \in 1..m /\ \A y \in T : y <= j
    BY <1>1, <1>15
  <1>17. LatestOf(T, j)
    BY <1>15, <1>16 DEF LatestOf
  <1>18. w[j].batch >= Floor(w)
    <2>1. r <= j
      BY <1>13, <1>16
    <2>2. r = j \/ r < j
      BY <1>13, <1>16, <2>1
    <2>3. w[r].batch <= w[j].batch
      BY <1>1, <1>7, <1>13, <1>16, <2>2
    <2>4. Floor(w) = FloorOf(w[m].batch) /\ w[m].batch \in Nat
      <3>1. m \in 1..m
        BY <1>1, <1>13
      <3>2. \A k \in 1..m : w[k].batch \in Nat /\ w[k].batch <= w[m].batch
        <4> TAKE k \in 1..m
        <4>1. k < m \/ k = m
          BY <1>1
        <4> QED
          BY <1>1, <1>7, <3>1, <4>1
      <3>3. \A k \in DOMAIN w : w[k].batch \in Nat /\ w[k].batch <= w[m].batch
        BY <1>1, <3>2
      <3>4. \E k \in DOMAIN w : w[k].batch = w[m].batch
        BY Zenon, <1>1, <3>1
      <3> QED
        BY <1>7, <3>1, <3>3, <3>4, FloorIs
    <2>5. WindowBatches \in Nat \ {0}
      BY ScreeningAssumption
    <2>6. Floor(w) \in Int
      BY <2>4, <2>5 DEF FloorOf
    <2> QED
      BY <1>7, <1>13, <1>16, <2>3, <2>6
  <1>19. i \in Identities(w)
    BY <1>1, <1>6, <1>13 DEF Identities
  <1>20. FailsAt(w, i)
    BY <1>14, <1>17, <1>18, Zenon DEF FailsAt, T, t, m
  <1> QED
    BY <1>19, <1>20 DEF i

-----------------------------------------------------------------------------
(* What is raised over the tail of a file.                                  *)
IsWhole(F) == Cardinality(CallsOf(F)) <= WindowEntries

FlagsAreTrue(F, off, flags) ==
    /\ flags \subseteq Truth(F)
    /\ off = 0 /\ IsWhole(F) => flags = Truth(F)

(* The flags over a tail are what the file bears out.                       *)
LEMMA TailScreened ==
    ASSUME NEW F, NEW N, Lines(F, N), OwnIds(F), NEW L, NEW n, NEW off, IsTail(L, n, F, N, off)
    PROVE  FlagsAreTrue(F, off, Screen(L))
  <1> DEFINE w == Window(L)
             R == Repetition(w)
             Q == RepeatedFailure(w)
             r == "repetition"
             q == "repeated_failure"
             A == {a \in Actions : IsRepeated(F, a)}
             B == {a \in Actions : IsFailing(F, a)}
  <1>1. PICK at : Told(w, F, at) /\ (off = 0 /\ IsWhole(F) => ToldAll(w, F, at))
    BY TailTold DEF TellsOf, IsWhole
  <1>2. Screen(L) = ({r} \X R) \cup ({q} \X Q)
    BY Zenon DEF Screen
  <1>3. Truth(F) = {<<r, <<a>>>> : a \in A} \cup {<<q, <<a>>>> : a \in B}
    BY Zenon DEF Truth
  <1> HIDE DEF w
  <1>4. w \in Seq(Item)
    BY <1>1 DEF Told
  <1>5. /\ \A i \in R : i \in Identities(w)
        /\ \A i \in Q : i \in Identities(w)
    BY DEF Repetition, RepeatedFailure
  <1>6. ASSUME NEW i \in R PROVE \E a \in A : i = <<a>>
    <2>1. PICK a \in Actions : i = <<a>>
      BY <1>4, <1>5, IdentityIs
    <2>2. IsRepeated(F, a)
      BY <1>1, <2>1, RepetitionTold
    <2> QED
      BY <2>1, <2>2
  <1>7. ASSUME NEW i \in Q PROVE \E a \in B : i = <<a>>
    <2>1. PICK a \in Actions : i = <<a>>
      BY <1>4, <1>5, IdentityIs
    <2>2. FailsAt(w, <<a>>)
      BY <1>4, <1>5, <2>1, FailureIs
    <2>3. IsFailing(F, a)
      BY <1>1, <2>2, FailureTold
    <2> QED
      BY <2>1, <2>3
  <1>8. ASSUME off = 0, IsWhole(F), NEW a \in A PROVE <<a>> \in R
    BY <1>1, <1>8, RepetitionTold
  <1>9. ASSUME off = 0, IsWhole(F), NEW a \in B PROVE <<a>> \in Q
    <2>1. ToldAll(w, F, at)
      BY <1>1, <1>9
    <2>2. <<a>> \in Identities(w) /\ FailsAt(w, <<a>>)
      BY <1>1, <2>1, FailureFound
    <2> QED
      BY <1>4, <2>2, FailureIs
  <1> HIDE DEF R, Q, A, B, r, q
  <1>10. Screen(L) \subseteq Truth(F)
    BY <1>2, <1>3, <1>6, <1>7
  <1>11. off = 0 /\ IsWhole(F) => Truth(F) \subseteq Screen(L)
    BY <1>2, <1>3, <1>8, <1>9
  <1> QED
    BY Zenon, <1>10, <1>11 DEF FlagsAreTrue

(* A file as the harness writes it: a tool use is known by its place.       *)
IsTranscript(F, n) ==
    /\ Lines(F, n)
    /\ \A l \in 1..n : F[l].type = "turn" => \A k \in DOMAIN F[l].uses : F[l].uses[k].id = <<l - 1, k>>

(* Its tool uses have identifiers of their own.                             *)
LEMMA PlacesAreOwn ==
    ASSUME NEW F, NEW n, IsTranscript(F, n)
    PROVE  Lines(F, n) /\ OwnIds(F)
  <1>1. Lines(F, n) /\ n \in Nat
    BY DEF IsTranscript, Lines
  <1>2. ASSUME NEW c \in CallsOf(F) PROVE /\ c = <<c[1], c[2]>> /\ c[1] \in 1..n
                                          /\ UseAt(F, c).id = <<c[1] - 1, c[2]>>
    <2>1. c = <<c[1], c[2]>> /\ c[1] \in 1..n /\ F[c[1]].type = "turn" /\ c[2] \in DOMAIN F[c[1]].uses
      BY <1>1, CallsAre, CallType DEF IsCall
    <2> QED
      BY <2>1 DEF IsTranscript, UseAt
  <1>3. ASSUME NEW c \in CallsOf(F), NEW d \in CallsOf(F), UseAt(F, c).id = UseAt(F, d).id PROVE c = d
    <2>1. <<c[1] - 1, c[2]>> = <<d[1] - 1, d[2]>>
      BY <1>2, <1>3
    <2>2. c[1] - 1 = d[1] - 1 /\ c[2] = d[2]
      BY <2>1
    <2>3. c[1] = d[1]
      BY <1>1, <1>2, <2>2
    <2> QED
      BY <1>2, <2>2, <2>3
  <1> QED
    BY <1>1, <1>3 DEF OwnIds

(* A line more makes a file one line longer.                                *)
Longer(G, F, n, e) ==
    /\ n \in Nat /\ G = [l \in 1..(n + 1) |-> G[l]] /\ G[n + 1] = e
    /\ \A l \in 1..n : G[l] = F[l]

(* Appending a line does.                                                   *)
LEMMA LineMore ==
    ASSUME NEW F, NEW n, Lines(F, n), NEW e
    PROVE  Longer(Append(F, e), F, n, e) /\ Len(F) = n
  <1> DEFINE S == {F[l] : l \in 1..n} \cup {e}
             G == Append(F, e)
  <1>1. n \in Nat /\ F = [l \in 1..n |-> F[l]] /\ e \in S /\ \A l \in 1..n : F[l] \in S
    BY DEF Lines
  <1> HIDE DEF S
  <1>2. F \in Seq(S) /\ Len(F) = n
    BY <1>1
  <1>3. G \in Seq(S) /\ Len(G) = n + 1 /\ G[n + 1] = e /\ \A l \in 1..n : G[l] = F[l]
    BY <1>1, <1>2
  <1> HIDE DEF G
  <1>4. G = [l \in 1..(n + 1) |-> G[l]]
    BY <1>1, <1>3
  <1> QED
    BY <1>1, <1>2, <1>3, <1>4 DEF Longer, G

(* A file grows by a line whose tool uses are known by their places.        *)
LEMMA TranscriptGrows ==
    ASSUME NEW F, NEW n, IsTranscript(F, n), NEW e, IsLine(e),
           e.type = "turn" => \A k \in DOMAIN e.uses : e.uses[k].id = <<n, k>>
    PROVE  IsTranscript(Append(F, e), n + 1)
  <1> DEFINE G == Append(F, e)
  <1>1. Lines(F, n)
    BY DEF IsTranscript
  <1>2. Longer(G, F, n, e)
    BY <1>1, LineMore
  <1> HIDE DEF G
  <1>3. /\ n \in Nat /\ G = [l \in 1..(n + 1) |-> G[l]] /\ G[n + 1] = e
        /\ \A l \in 1..n : G[l] = F[l] /\ IsLine(F[l])
    BY Zenon, <1>1, <1>2 DEF Longer, Lines
  <1>4. \A l \in 1..(n + 1) : l \in 1..n \/ l = n + 1
    BY <1>3
  <1>5. Lines(G, n + 1)
    <2>1. \A l \in 1..(n + 1) : IsLine(G[l])
      BY Zenon, <1>3, <1>4
    <2> QED
      BY <1>3, <2>1 DEF Lines
  <1>6. ASSUME NEW l \in 1..(n + 1), G[l].type = "turn", NEW k \in DOMAIN G[l].uses
        PROVE  G[l].uses[k].id = <<l - 1, k>>
    <2>1. CASE l \in 1..n
      BY Zenon, <1>3, <1>6, <2>1 DEF IsTranscript
    <2>2. CASE l = n + 1
      <3>1. G[l] = e /\ l - 1 = n
        BY <1>3, <2>2
      <3> QED
        BY <1>6, <3>1
    <2> QED
      BY <1>4, <2>1, <2>2
  <1> QED
    BY Zenon, <1>5, <1>6 DEF IsTranscript, G

(* A transcript is one, and a step on one adds a message, a result or a     *)
(* torn line.                                                               *)
TranscriptTyped == input.kind = "transcript" => \E n : IsTranscript(input.items, n)

(* A step on a transcript is one of these.                                  *)
LEMMA TranscriptStep ==
    ASSUME InputNext, input.kind = "transcript"
    PROVE  Turn \/ Result \/ Torn
  <1>1. ~Enter /\ ~Locate /\ ~Match /\ ~Paginate /\ ~Declare /\ ~Score /\ ~Infer /\ ~Type /\ ~Form /\ ~Tell
    BY DEF Enter, Locate, Match, Paginate, Declare, Score, Infer, Type, Form, Tell, Grown
  <1>2. ~Ask /\ ~Hit /\ ~Cite /\ ~Conclude /\ ~Back /\ ~Wrap /\ ~ReadVariable /\ ~State
    BY DEF Ask, Hit, Cite, Conclude, Back, Wrap, ReadVariable, State, Grown
  <1>3. ~Save /\ ~Recalls /\ ~Meter /\ ~Write /\ ~WriteOlder /\ ~Damage
    BY DEF Save, Recalls, Meter, Write, WriteOlder, Damage, Grown
  <1> QED
    BY <1>1, <1>2, <1>3 DEF InputNext

(* The line a step adds to a file of n lines.                               *)
IsNext(e, n) ==
    IsLine(e) /\ (e.type = "turn" => \A k \in DOMAIN e.uses : e.uses[k].id = <<n, k>>)

(* The line of a turn is one.                                               *)
LEMMA TurnIsNext ==
    ASSUME NEW n \in Nat, NEW acts \in UNION {[1..k -> Actions] : k \in 1..2}
    PROVE  IsNext([type |-> "turn",
                   uses |-> [k \in DOMAIN acts |-> [id |-> <<n, k>>, action |-> acts[k], noise |-> n]]], n)
  <1> DEFINE uses == [k \in DOMAIN acts |-> [id |-> <<n, k>>, action |-> acts[k], noise |-> n]]
             e == [type |-> "turn", uses |-> uses]
  <1>1. PICK q \in 1..2 : acts \in [1..q -> Actions]
    OBVIOUS
  <1>2. q \in Nat /\ DOMAIN uses = 1..q /\ uses = [k \in 1..q |-> uses[k]]
    BY <1>1
  <1>3. ASSUME NEW k \in 1..q PROVE uses[k] \in ToolUse /\ uses[k].id = <<n, k>>
    <2>1. uses[k] = [id |-> <<n, k>>, action |-> acts[k], noise |-> n]
      BY <1>1, <1>3
    <2>2. acts[k] \in Actions /\ k \in Nat
      BY <1>1, <1>3
    <2>3. <<n, k>> \in Nat \X Nat
      BY <2>2
    <2> HIDE DEF uses
    <2> QED
      BY <2>1, <2>2, <2>3 DEF ToolUse
  <1> HIDE DEF uses
  <1>4. uses \in Seq(ToolUse)
    BY <1>2, <1>3
  <1>5. e.type = "turn" /\ e.uses = uses
    OBVIOUS
  <1> HIDE DEF e
  <1>6. IsNext(e, n)
    BY <1>2, <1>3, <1>4, <1>5 DEF IsNext, IsLine
  <1> QED
    BY <1>6 DEF e, uses

(* A step on a transcript adds such a line.                                 *)
LEMMA NextLine ==
    ASSUME Shape, NEW n, IsTranscript(input.items, n), Turn \/ Result \/ Torn
    PROVE  \E e : IsNext(e, n) /\ input'.items = Append(input.items, e)
  <1>1. n \in Nat /\ Len(input.items) = n
    <2>1. Lines(input.items, n)
      BY DEF IsTranscript
    <2>2. Len(input.items) = n
      BY <2>1, LineMore
    <2> QED
      BY <2>1, <2>2 DEF Lines
  <1>2. CASE Turn
    <2> DEFINE LineOf(acts) ==
            [type |-> "turn",
             uses |-> [k \in DOMAIN acts |-> [id |-> <<n, k>>, action |-> acts[k], noise |-> n]]]
    <2>1. PICK acts \in UNION {[1..k -> Actions] : k \in 1..2} : Grown("transcript", LineOf(acts))
      BY Zenon, <1>1, <1>2 DEF Turn
    <2>2. IsNext(LineOf(acts), n)
      BY <1>1, TurnIsNext
    <2> HIDE DEF LineOf
    <2>3. input'.items = Append(input.items, LineOf(acts))
      BY <2>1, GrownKind
    <2> QED
      BY <2>2, <2>3
  <1>3. CASE Result
    <2>1. PICK c \in CallsOf(input.items), error \in BOOLEAN :
              Grown("transcript", [type |-> "result", id |-> UseAt(input.items, c).id, error |-> error])
      BY <1>3 DEF Result
    <2> DEFINE e == [type |-> "result", id |-> UseAt(input.items, c).id, error |-> error]
    <2>2. e.type = "result" /\ e.error \in BOOLEAN
      OBVIOUS
    <2>3. input'.items = Append(input.items, e)
      BY <2>1, GrownKind
    <2> HIDE DEF e
    <2>4. IsNext(e, n)
      BY <2>2 DEF IsNext, IsLine
    <2> QED
      BY <2>3, <2>4
  <1>4. CASE Torn
    <2> DEFINE e == [type |-> "torn"]
    <2>1. input'.items = Append(input.items, e)
      BY <1>4, GrownKind DEF Torn
    <2>2. IsNext(e, n)
      BY DEF IsNext, IsLine
    <2> QED
      BY <2>1, <2>2
  <1> QED
    BY <1>2, <1>3, <1>4

(* A transcript stays one.                                                  *)
LEMMA TranscriptTypedStep ==
    ASSUME Shape, TranscriptTyped, [InputNext]_input
    PROVE  TranscriptTyped'
  <1>1. input'.kind = input.kind
    BY ShapeStep
  <1>2. CASE UNCHANGED input
    BY <1>2 DEF TranscriptTyped
  <1>3. CASE InputNext /\ input.kind = "transcript"
    <2>1. PICK n : IsTranscript(input.items, n)
      BY <1>3 DEF TranscriptTyped
    <2>2. PICK e : IsNext(e, n) /\ input'.items = Append(input.items, e)
      BY <1>3, <2>1, TranscriptStep, NextLine
    <2>3. IsTranscript(input'.items, n + 1)
      BY <2>1, <2>2, TranscriptGrows DEF IsNext
    <2> QED
      BY <2>3 DEF TranscriptTyped
  <1>4. CASE input.kind # "transcript"
    BY <1>1, <1>4 DEF TranscriptTyped
  <1> QED
    BY <1>2, <1>3, <1>4

(* What a read takes of a file is a tail of it.                             *)
LEMMA ReadIsTail ==
    ASSUME NEW F, NEW N, Lines(F, N), NEW from \in 0..N, NEW off, off = (IF from = 0 THEN 0 ELSE from + 1)
    PROVE  \E n : IsTail(TailOf(F, from, N), n, F, N, off)
  <1> DEFINE S == {F[l] : l \in 1..N}
             L == TailOf(F, from, N)
  <1>1. N \in Nat /\ F = [l \in 1..N |-> F[l]] /\ \A l \in 1..N : F[l] \in S
    BY DEF Lines
  <1> HIDE DEF S
  <1>2. F \in Seq(S) /\ Len(F) = N
    BY <1>1
  <1>3. off \in Nat /\ L = SubSeq(F, off + 1, N)
    BY <1>1 DEF TailOf
  <1> HIDE DEF L
  <1>4. CASE off <= N
    <2> DEFINE n == N - off
    <2>1. L = [i \in 1..n |-> L[i]] /\ \A i \in 1..n : L[i] = F[i + off]
      <3>1. IsEnd(SubSeq(F, off + 1, N), F, off, N)
        BY <1>2, <1>3, <1>4, EndOf
      <3> QED
        BY Zenon, <1>3, <3>1 DEF IsEnd
    <2>2. n \in Nat /\ n + off = N /\ (n = 0 => N <= off)
      BY <1>1, <1>3, <1>4
    <2> HIDE DEF n
    <2>3. IsTail(L, n, F, N, off)
      BY Zenon, <1>3, <2>1, <2>2 DEF IsTail
    <2> QED
      BY <2>3 DEF L
  <1>5. CASE ~(off <= N)
    <2>1. L = <<>>
      BY <1>1, <1>2, <1>3, <1>5
    <2>2. L = [l \in 1..0 |-> L[l]] /\ 1..0 = {}
      BY <2>1
    <2>3. N <= off
      BY <1>1, <1>3, <1>5
    <2>4. IsTail(L, 0, F, N, off)
      BY <1>3, <2>2, <2>3 DEF IsTail
    <2> QED
      BY <2>4 DEF L
  <1> QED
    BY <1>4, <1>5

(* A transcript is screened truly.                                          *)
LEMMA TranscriptScreened ==
    ASSUME TranscriptTyped
    PROVE  FlagsMatchTranscript
  <1> DEFINE F == input.items
  <1> SUFFICES ASSUME input.kind = "transcript",
                      NEW from \in 0..Len(F)
               PROVE  /\ Screen(TailOf(F, from, Len(F))) \subseteq Truth(F)
                      /\ from = 0 /\ Cardinality(CallsOf(F)) <= WindowEntries
                           => Screen(TailOf(F, from, Len(F))) = Truth(F)
    BY Zenon DEF FlagsMatchTranscript
  <1>1. PICK N : IsTranscript(F, N)
    BY DEF TranscriptTyped
  <1>2. Lines(F, N) /\ OwnIds(F)
    BY <1>1, PlacesAreOwn
  <1>3. Len(F) = N
    BY <1>2, LineMore
  <1> DEFINE off == IF from = 0 THEN 0 ELSE from + 1
  <1>4. PICK n : IsTail(TailOf(F, from, N), n, F, N, off)
    BY <1>2, <1>3, ReadIsTail
  <1>5. FlagsAreTrue(F, off, Screen(TailOf(F, from, N)))
    BY <1>2, <1>4, TailScreened
  <1>6. from = 0 => off = 0
    OBVIOUS
  <1> HIDE DEF F, off
  <1> QED
    BY <1>3, <1>5, <1>6, Zenon DEF FlagsAreTrue, IsWhole

(* Whatever part of a session's file one evaluation reads, it raises no flag*)
(* the file does not bear out, and when it reads the whole of a file that   *)
(* fits the window, it raises every flag there is to raise: for any         *)
(* actions, any transcript and any thresholds (screen.rs, trajectory.rs).   *)
THEOREM ScreeningIsTrue == InputSpec => []FlagsMatchTranscript
  <1>1. InputInit => Shape /\ TranscriptTyped
    <2> SUFFICES ASSUME InputInit PROVE Shape /\ TranscriptTyped
      OBVIOUS
    <2>1. Shape /\ input.items = <<>>
      BY ShapeInit
    <2>2. <<>> = [l \in 1..0 |-> <<>>[l]] /\ \A l \in 1..0 : FALSE
      OBVIOUS
    <2>3. IsTranscript(<<>>, 0)
      BY <2>2 DEF IsTranscript, Lines
    <2> QED
      BY <2>1, <2>3 DEF TranscriptTyped
  <1>2. Shape /\ TranscriptTyped /\ [InputNext]_input => Shape' /\ TranscriptTyped'
    BY ShapeStep, TranscriptTypedStep
  <1>3. TranscriptTyped => FlagsMatchTranscript
    BY TranscriptScreened
  <1> QED
    BY <1>1, <1>2, <1>3, PTL DEF InputSpec
=============================================================================
