----------------------------- MODULE Fetch_proofs -----------------------------
(***************************************************************************)
(* Proofs about the fetcher, for any fetches, origins and hosts, any hosts *)
(* denied, any number of redirects and any spacing.                        *)
(***************************************************************************)
EXTENDS Fetch, FiniteSetTheorems, TLAPS

(* The invariant.  A lock's queue holds those that asked for it and have    *)
(* not released it, each once.                                              *)
Queueing == {"queued", "robots", "sending"}

QueueIsItsFetches(h) ==
    /\ \A i \in 1..Len(lock[h]) : phase[lock[h][i]] \in Queueing /\ At(lock[h][i]) = h
    /\ \A i, j \in 1..Len(lock[h]) : lock[h][i] = lock[h][j] => i = j

(* Who is on the wire heads the queue of its host.                          *)
Heads(f) == Len(lock[At(f)]) >= 1 /\ lock[At(f)][1] = f

Guarded(f) ==
    /\ OnTheWire(f) => Heads(f)
    /\ phase[f] \in Queueing => At(f) \notin Denied
    /\ phase[f] \in {"sending", "reading", "got"} => robots[target[f]] # "unknown"

(* A robots.txt that was asked for is known, or on its way to one fetch.    *)
AskedIsAwaited ==
    /\ \A f \in Fetches : phase[f] = "robots" =>
            robots[target[f]] = "unknown" /\ asked[target[f]] = 1
    /\ \A o \in Origins :
        /\ asked[o] <= 1
        /\ asked[o] = 1 /\ robots[o] = "unknown" =>
              \E f \in Fetches : phase[f] = "robots" /\ target[f] = o

Inv ==
    /\ TypeOK
    /\ \A h \in Hosts : QueueIsItsFetches(h)
    /\ \A f \in Fetches : Guarded(f)
    /\ AskedIsAwaited
-----------------------------------------------------------------------------
(* A queue without its head.                                                *)
LEMMA TailOf ==
    ASSUME NEW S, NEW s \in Seq(S), Len(s) >= 1
    PROVE  /\ Tail(s) \in Seq(S)
           /\ Len(Tail(s)) = Len(s) - 1
           /\ \A i \in 1..Len(Tail(s)) : Tail(s)[i] = s[i + 1]
  OBVIOUS

(* A queue with one more fetch.                                             *)
LEMMA AppendOf ==
    ASSUME NEW S, NEW s \in Seq(S), NEW x \in S
    PROVE  /\ Append(s, x) \in Seq(S)
           /\ Len(Append(s, x)) = Len(s) + 1
           /\ Append(s, x)[Len(s) + 1] = x
           /\ \A i \in 1..Len(s) : Append(s, x)[i] = s[i]
  OBVIOUS

(* A fetch is at some host, whose lock has a queue.                         *)
LEMMA HostOfFetch ==
    ASSUME TypeOK, NEW f \in Fetches
    PROVE  At(f) \in Hosts /\ lock[At(f)] \in Seq(Fetches)
  BY DEF TypeOK, At, Hosts

(* To hold the lock is to head its queue.                                   *)
LEMMA HoldsHeads ==
    ASSUME TypeOK, NEW f \in Fetches
    PROVE  Holds(f, At(f)) <=> Heads(f)
  BY HostOfFetch DEF Holds, Heads

(* Initially no fetch has begun and no lock is taken.                       *)
LEMMA InvInit == Init => Inv
  <1> SUFFICES ASSUME Init PROVE Inv
    OBVIOUS
  <1>1. TypeOK
    BY FetchAssumption DEF Init, TypeOK, Phases, Never, RobotsBodies
  <1>2. \A h \in Hosts : QueueIsItsFetches(h)
    BY DEF Init, QueueIsItsFetches
  <1>3. (\A f \in Fetches : Guarded(f)) /\ AskedIsAwaited
    BY DEF Init, Guarded, AskedIsAwaited, OnTheWire, Queueing
  <1> QED
    BY <1>1, <1>2, <1>3 DEF Inv

(* Two fetches on the wire to one host are one.                             *)
LEMMA OneOnTheWire ==
    ASSUME Inv, NEW f \in Fetches, NEW g \in Fetches, At(f) = At(g),
           OnTheWire(f), Heads(g)
    PROVE  f = g
  BY DEF Inv, Guarded, Heads
-----------------------------------------------------------------------------
(* A fetch moves without touching the queues.                               *)
LEMMA QueuesStill ==
    ASSUME Inv, NEW f \in Fetches, NEW p \in Phases, Goto(f, p),
           phase[f] \in Queueing <=> p \in Queueing, UNCHANGED <<target, lock>>
    PROVE  \A h \in Hosts : QueueIsItsFetches(h)'
  <1> SUFFICES ASSUME NEW h \in Hosts PROVE QueueIsItsFetches(h)'
    OBVIOUS
  <1>1. QueueIsItsFetches(h) /\ lock[h] \in Seq(Fetches)
    BY DEF Inv, TypeOK
  <1>2. ASSUME NEW i \in 1..Len(lock[h])
        PROVE  phase'[lock[h][i]] \in Queueing /\ Host(target[lock[h][i]]) = h
    BY <1>1, <1>2 DEF Inv, TypeOK, Goto, QueueIsItsFetches, At
  <1> QED
    BY <1>1, <1>2 DEF QueueIsItsFetches, At

(* The only lock a fetch can hold is that of the host it is at.             *)
LEMMA ReleasesItsLock ==
    ASSUME TypeOK, \A h \in Hosts : QueueIsItsFetches(h),
           NEW f \in Fetches, Heads(f), Release(f)
    PROVE  lock' = [lock EXCEPT ![At(f)] = Tail(@)]
  <1>1. lock \in [Hosts -> Seq(Fetches)] /\ Holds(f, At(f))
    BY HoldsHeads DEF TypeOK
  <1>2. ASSUME NEW h \in Hosts, Holds(f, h) PROVE h = At(f)
    BY <1>1, <1>2 DEF Holds, QueueIsItsFetches
  <1> QED
    BY <1>1, <1>2 DEF Release

(* The head of a queue leaves it, for no other.                             *)
LEMMA QueuesReleased ==
    ASSUME Inv, NEW f \in Fetches, Heads(f), Release(f),
           NEW p \in Phases \ Queueing, Goto(f, p),
           target' \in [Fetches -> Origins], \A g \in Fetches \ {f} : target'[g] = target[g]
    PROVE  /\ lock' \in [Hosts -> Seq(Fetches)]
           /\ \A h \in Hosts : QueueIsItsFetches(h)'
           /\ \A g \in Fetches \ {f} : OnTheWire(g) => Heads(g)'
  <1> DEFINE a == At(f)
             s == lock[a]
             t == Tail(s)
  <1>1. a \in Hosts /\ s \in Seq(Fetches) /\ Len(s) >= 1 /\ s[1] = f
    BY HostOfFetch DEF Inv, Heads
  <1>2. t \in Seq(Fetches) /\ Len(t) = Len(s) - 1 /\ \A i \in 1..Len(t) : t[i] = s[i + 1]
    BY <1>1, TailOf
  <1>3. lock' = [lock EXCEPT ![a] = t]
    BY ReleasesItsLock DEF Inv
  <1>4. QueueIsItsFetches(a)
    BY <1>1 DEF Inv
  <1> HIDE DEF a, s, t
  <1>5. lock \in [Hosts -> Seq(Fetches)] /\ phase \in [Fetches -> Phases]
    BY DEF Inv, TypeOK
  <1>6. lock' \in [Hosts -> Seq(Fetches)]
    BY <1>1, <1>2, <1>3, <1>5
  <1>7. ASSUME NEW g \in Fetches \ {f} PROVE phase'[g] = phase[g] /\ Host(target'[g]) = At(g)
    BY <1>5, <1>7 DEF Goto, At
  <1>8. ASSUME NEW h \in Hosts PROVE QueueIsItsFetches(h)'
    <2>1. CASE h = a
      <3>1. lock'[h] = t
        BY <1>1, <1>3, <1>5, <2>1
      <3>2. ASSUME NEW i \in 1..Len(t)
            PROVE  i + 1 \in 1..Len(s) /\ t[i] = s[i + 1] /\ t[i] \in Fetches \ {f}
        <4>1. i + 1 \in 1..Len(s) /\ t[i] = s[i + 1] /\ 1 \in 1..Len(s) /\ i + 1 # 1
          BY <1>1, <1>2
        <4>2. s[i + 1] # f
          BY <1>1, <1>4, <4>1 DEF QueueIsItsFetches, s
        <4> QED
          BY <1>2, <4>1, <4>2
      <3>3. ASSUME NEW i \in 1..Len(t) PROVE phase'[t[i]] \in Queueing /\ Host(target'[t[i]]) = h
        BY <1>4, <1>7, <2>1, <3>2 DEF QueueIsItsFetches, s
      <3>4. ASSUME NEW i \in 1..Len(t), NEW j \in 1..Len(t), t[i] = t[j] PROVE i = j
        <4>1. i + 1 = j + 1
          BY <1>4, <3>2, <3>4 DEF QueueIsItsFetches, s
        <4> QED
          BY <1>2, <4>1
      <3> QED
        BY <3>1, <3>3, <3>4 DEF QueueIsItsFetches, At
    <2>2. CASE h # a
      <3>1. lock'[h] = lock[h] /\ QueueIsItsFetches(h) /\ lock[h] \in Seq(Fetches)
        BY <1>3, <1>5, <2>2 DEF Inv
      <3>2. ASSUME NEW i \in 1..Len(lock[h])
            PROVE  phase'[lock[h][i]] \in Queueing /\ Host(target'[lock[h][i]]) = h
        <4>1. phase[lock[h][i]] \in Queueing /\ At(lock[h][i]) = h /\ lock[h][i] \in Fetches
          BY <3>1 DEF QueueIsItsFetches
        <4>2. lock[h][i] # f
          BY <2>2, <4>1 DEF a
        <4> QED
          BY <1>7, <4>1, <4>2
      <3> QED
        BY <3>1, <3>2 DEF QueueIsItsFetches, At
    <2> QED
      BY <2>1, <2>2
  <1>9. ASSUME NEW g \in Fetches \ {f}, OnTheWire(g) PROVE Heads(g)'
    <2>1. At(g) # a
      BY <1>9, OneOnTheWire DEF a
    <2>2. Heads(g) /\ At(g) \in Hosts
      BY <1>9, HostOfFetch DEF Inv, Guarded
    <2>3. lock'[At(g)] = lock[At(g)] /\ Host(target'[g]) = At(g)
      BY <1>3, <1>5, <1>7, <2>1, <2>2
    <2> QED
      BY <2>2, <2>3 DEF Heads, At
  <1> QED
    BY <1>6, <1>8, <1>9

(* A fetch that was in no queue joins one.                                  *)
LEMMA QueuesJoined ==
    ASSUME Inv, NEW f \in Fetches, phase[f] = "guarding", Goto(f, "queued"), UNCHANGED target,
           lock' = [lock EXCEPT ![At(f)] = Append(@, f)]
    PROVE  /\ lock' \in [Hosts -> Seq(Fetches)]
           /\ \A h \in Hosts : QueueIsItsFetches(h)'
           /\ \A g \in Fetches : OnTheWire(g) => Heads(g)'
  <1> DEFINE a == At(f)
             s == lock[a]
             t == Append(s, f)
  <1>1. a \in Hosts /\ s \in Seq(Fetches)
    BY HostOfFetch DEF Inv
  <1>2. /\ t \in Seq(Fetches) /\ Len(t) = Len(s) + 1 /\ t[Len(s) + 1] = f
        /\ \A i \in 1..Len(s) : t[i] = s[i]
    BY <1>1, AppendOf
  <1>3. lock' = [lock EXCEPT ![a] = t]
    OBVIOUS
  <1>4. QueueIsItsFetches(a)
    BY <1>1 DEF Inv
  <1>5. lock \in [Hosts -> Seq(Fetches)] /\ phase \in [Fetches -> Phases]
    BY DEF Inv, TypeOK
  <1> HIDE DEF s, t
  <1>6. lock' \in [Hosts -> Seq(Fetches)]
    BY <1>1, <1>2, <1>3, <1>5
  <1>7. phase'[f] = "queued" /\ \A g \in Fetches \ {f} : phase'[g] = phase[g]
    BY <1>5 DEF Goto
  <1>8. ASSUME NEW h \in Hosts PROVE QueueIsItsFetches(h)'
    <2>1. QueueIsItsFetches(h) /\ lock[h] \in Seq(Fetches)
      BY <1>5 DEF Inv
    <2>2. ASSUME NEW i \in 1..Len(lock[h])
          PROVE  lock[h][i] # f /\ phase'[lock[h][i]] \in Queueing /\ At(lock[h][i]) = h
      <3>1. lock[h][i] \in Fetches /\ phase[lock[h][i]] \in Queueing /\ At(lock[h][i]) = h
        BY <2>1 DEF QueueIsItsFetches
      <3> QED
        BY <1>7, <3>1 DEF Queueing
    <2>3. CASE h # a
      <3>1. lock'[h] = lock[h]
        BY <1>3, <1>5, <2>3
      <3>2. \A i \in 1..Len(lock'[h]) : phase'[lock'[h][i]] \in Queueing /\ Host(target'[lock'[h][i]]) = h
        BY <2>2, <3>1 DEF At
      <3>3. \A i, j \in 1..Len(lock'[h]) : lock'[h][i] = lock'[h][j] => i = j
        BY <2>1, <3>1 DEF QueueIsItsFetches
      <3> QED
        BY <3>2, <3>3 DEF QueueIsItsFetches, At
    <2>4. CASE h = a
      <3>1. lock'[h] = t /\ lock[h] = s
        BY <1>1, <1>3, <1>5, <2>4 DEF s
      <3>2. ASSUME NEW i \in 1..Len(t) PROVE phase'[t[i]] \in Queueing /\ At(t[i]) = h
        <4>1. CASE i = Len(s) + 1
          BY <1>2, <1>7, <2>4, <4>1 DEF Queueing
        <4>2. CASE i # Len(s) + 1
          <5>1. i \in 1..Len(s)
            BY <1>1, <1>2, <4>2
          <5> QED
            BY <1>2, <2>2, <3>1, <5>1
        <4> QED
          BY <4>1, <4>2
      <3>3. ASSUME NEW i \in 1..Len(t), NEW j \in 1..Len(t), t[i] = t[j] PROVE i = j
        <4>1. ASSUME NEW k \in 1..Len(t)
              PROVE  \/ k \in 1..Len(s) /\ t[k] = s[k] /\ t[k] # f
                     \/ k = Len(s) + 1 /\ t[k] = f
          <5>1. k \in 1..Len(s) \/ k = Len(s) + 1
            BY <1>1, <1>2
          <5> QED
            BY <1>2, <2>2, <3>1, <5>1
        <4>2. \A m, n \in 1..Len(s) : s[m] = s[n] => m = n
          BY <1>4 DEF QueueIsItsFetches, s
        <4> QED
          BY <3>3, <4>1, <4>2
      <3> QED
        BY <3>1, <3>2, <3>3 DEF QueueIsItsFetches, At
    <2> QED
      BY <2>3, <2>4
  <1>9. ASSUME NEW g \in Fetches, OnTheWire(g) PROVE Heads(g)'
    <2>1. Heads(g) /\ At(g) \in Hosts
      BY <1>9, HostOfFetch DEF Inv, Guarded
    <2>2. CASE At(g) = a
      <3>1. lock'[At(g)] = t /\ lock[At(g)] = s
        BY <1>1, <1>3, <1>5, <2>2 DEF s
      <3> QED
        BY <1>1, <1>2, <2>1, <3>1 DEF Heads, At
    <2>3. CASE At(g) # a
      BY <1>3, <1>5, <2>1, <2>3 DEF Heads, At
    <2> QED
      BY <2>2, <2>3
  <1> QED
    BY <1>6, <1>8, <1>9
-----------------------------------------------------------------------------
(* What a step of one fetch leaves true of the others.                      *)
LEMMA OthersGuarded ==
    ASSUME Inv, NEW f \in Fetches, NEW p, Goto(f, p),
           \A g \in Fetches \ {f} : target'[g] = target[g],
           \A g \in Fetches \ {f} : OnTheWire(g) => Heads(g)',
           \A o \in Origins : robots[o] # "unknown" => robots'[o] # "unknown",
           NEW g \in Fetches \ {f}
    PROVE  Guarded(g)'
  <1>1. phase'[g] = phase[g] /\ target'[g] = target[g] /\ target[g] \in Origins /\ Guarded(g)
    BY DEF Inv, TypeOK, Goto
  <1>2. OnTheWire(g)' => Heads(g)'
    BY <1>1 DEF OnTheWire
  <1>3. phase'[g] \in Queueing => At(g)' \notin Denied
    BY <1>1 DEF Guarded, At
  <1>4. phase'[g] \in {"sending", "reading", "got"} => robots'[target'[g]] # "unknown"
    BY <1>1 DEF Guarded
  <1> QED
    BY <1>2, <1>3, <1>4 DEF Guarded

(* Who waits for robots.txt is untouched by a step of another.              *)
LEMMA AwaitedStill ==
    ASSUME Inv, NEW f \in Fetches, NEW p, Goto(f, p), phase[f] # "robots", p # "robots",
           \A g \in Fetches \ {f} : target'[g] = target[g], UNCHANGED <<robots, asked>>
    PROVE  AskedIsAwaited'
  <1>1. /\ phase'[f] # "robots"
        /\ \A g \in Fetches \ {f} : phase'[g] = phase[g] /\ target'[g] = target[g]
    BY DEF Inv, TypeOK, Goto
  <1>2. AskedIsAwaited
    BY DEF Inv
  <1>3. ASSUME NEW g \in Fetches, phase'[g] = "robots"
        PROVE  robots'[target'[g]] = "unknown" /\ asked'[target'[g]] = 1
    BY <1>1, <1>2, <1>3 DEF AskedIsAwaited
  <1>4. ASSUME NEW o \in Origins, asked'[o] = 1, robots'[o] = "unknown"
        PROVE  \E g \in Fetches : phase'[g] = "robots" /\ target'[g] = o
    <2>1. PICK g \in Fetches : phase[g] = "robots" /\ target[g] = o
      BY <1>2, <1>4 DEF AskedIsAwaited
    <2> QED
      BY <1>1, <2>1
  <1> QED
    BY <1>2, <1>3, <1>4 DEF AskedIsAwaited

(* Queues that do not change keep their heads.                              *)
LEMMA OthersHead ==
    ASSUME Inv, UNCHANGED <<target, lock>>
    PROVE  \A g \in Fetches : OnTheWire(g) => Heads(g)'
  BY DEF Inv, Guarded, Heads, At

(* The steps outside the lock.                                              *)
LEMMA OutsideKeeps ==
    ASSUME Inv, NEW f \in Fetches, Begin(f) \/ GuardRefuses(f) \/ BodyEnds(f)
    PROVE  Inv'
  <1>1. PICK p \in {"guarding", "failed", "got"} :
            /\ Goto(f, p) /\ phase[f] \in {"new", "guarding", "reading"}
            /\ p = "got" => phase[f] = "reading"
            /\ UNCHANGED <<target, hops, lock, since, robots, asked>>
    BY DEF Begin, GuardRefuses, BodyEnds
  <1>2. TypeOK'
    BY <1>1 DEF Inv, TypeOK, Goto, Phases
  <1>3. phase'[f] = p
    BY <1>1 DEF Inv, TypeOK, Goto
  <1>4. \A h \in Hosts : QueueIsItsFetches(h)'
    BY <1>1, QueuesStill DEF Phases, Queueing
  <1>5. AskedIsAwaited'
    BY <1>1, AwaitedStill
  <1>6. Guarded(f)'
    BY <1>1, <1>3 DEF Inv, Guarded, OnTheWire, Queueing
  <1>7. ASSUME NEW g \in Fetches \ {f} PROVE Guarded(g)'
    BY <1>1, OthersHead, OthersGuarded
  <1> QED
    BY <1>2, <1>4, <1>5, <1>6, <1>7 DEF Inv

(* A fetch passes the guard and joins the queue of its host.                *)
LEMMA GuardPassesKeeps ==
    ASSUME Inv, NEW f \in Fetches, GuardPasses(f)
    PROVE  Inv'
  <1>1. /\ lock' \in [Hosts -> Seq(Fetches)]
        /\ \A h \in Hosts : QueueIsItsFetches(h)'
        /\ \A g \in Fetches : OnTheWire(g) => Heads(g)'
    BY QueuesJoined DEF GuardPasses
  <1>2. TypeOK'
    BY <1>1 DEF Inv, TypeOK, GuardPasses, Goto, Phases
  <1>3. phase'[f] = "queued"
    BY DEF Inv, TypeOK, Goto, GuardPasses
  <1>4. AskedIsAwaited'
    BY AwaitedStill DEF GuardPasses
  <1>5. Guarded(f)'
    BY <1>3 DEF GuardPasses, Guarded, OnTheWire, At
  <1>6. ASSUME NEW g \in Fetches \ {f} PROVE Guarded(g)'
    BY <1>1, OthersGuarded DEF GuardPasses
  <1> QED
    BY <1>1, <1>2, <1>4, <1>5, <1>6 DEF Inv

(* A fetch leaves the wire: it fails, is redirected or reads its page.      *)
LEMMA LeavingKeeps ==
    ASSUME Inv, NEW f \in Fetches, SendFails(f) \/ Redirect(f) \/ HeadersArrive(f)
    PROVE  Inv'
  <1>1. PICK p \in {"failed", "guarding", "reading"} :
            /\ Goto(f, p) /\ phase[f] = "sending" /\ Release(f)
            /\ p = "reading" => target' = target
            /\ UNCHANGED <<since, robots, asked>>
    BY DEF SendFails, Redirect, HeadersArrive
  <1>2. /\ target' \in [Fetches -> Origins] /\ hops' \in [Fetches -> 0..MaxHops]
        /\ \A g \in Fetches \ {f} : target'[g] = target[g]
    <2>1. target \in [Fetches -> Origins] /\ hops \in [Fetches -> 0..MaxHops]
      BY DEF Inv, TypeOK
    <2>2. CASE Redirect(f)
      <3>1. hops[f] + 1 \in 0..MaxHops /\ hops' = [hops EXCEPT ![f] = hops[f] + 1]
        BY <2>1, <2>2, FetchAssumption DEF Redirect
      <3>2. PICK o \in Origins : target' = [target EXCEPT ![f] = o]
        BY <2>2 DEF Redirect
      <3> QED
        BY <2>1, <3>1, <3>2
    <2>3. CASE SendFails(f) \/ HeadersArrive(f)
      BY <2>1, <2>3 DEF SendFails, HeadersArrive
    <2> QED
      BY <2>2, <2>3
  <1>3. Heads(f)
    BY <1>1 DEF Inv, Guarded, OnTheWire
  <1>4. p \in Phases \ Queueing
    BY DEF Phases, Queueing
  <1>5. /\ lock' \in [Hosts -> Seq(Fetches)]
        /\ \A h \in Hosts : QueueIsItsFetches(h)'
        /\ \A g \in Fetches \ {f} : OnTheWire(g) => Heads(g)'
    BY <1>1, <1>2, <1>3, <1>4, QueuesReleased
  <1>6. TypeOK'
    BY <1>1, <1>2, <1>4, <1>5 DEF Inv, TypeOK, Goto
  <1>7. phase'[f] = p
    BY <1>1 DEF Inv, TypeOK, Goto
  <1>8. AskedIsAwaited'
    BY <1>1, <1>2, AwaitedStill
  <1>9. Guarded(f)'
    BY <1>1, <1>7 DEF Inv, Guarded, OnTheWire, Queueing
  <1>10. ASSUME NEW g \in Fetches \ {f} PROVE Guarded(g)'
    BY <1>1, <1>2, <1>5, OthersGuarded
  <1> QED
    BY <1>5, <1>6, <1>8, <1>9, <1>10 DEF Inv

(* A request is stamped while its fetch heads the queue: nobody else awaits *)
(* the robots.txt of its origin.                                            *)
LEMMA StampKeeps ==
    ASSUME Inv, NEW f \in Fetches, Stamp(f)
    PROVE  Inv'
  <1> DEFINE o == target[f]
  <1>1. /\ TypeOK /\ phase[f] = "queued" /\ Heads(f) /\ At(f) \notin Denied /\ o \in Origins
        /\ since' = [since EXCEPT ![At(f)] = 0] /\ UNCHANGED <<target, hops, robots>>
    BY HoldsHeads DEF Inv, TypeOK, Stamp, Guarded, Queueing
  <1>2. since' \in [Hosts -> 0..Never]
    <2>1. 0 \in 0..Never
      BY FetchAssumption DEF Never
    <2>2. since \in [Hosts -> 0..Never]
      BY <1>1 DEF TypeOK
    <2> QED
      BY <1>1, <2>1, <2>2
  <1>3. CASE robots[o] = "unknown"
    <2>1. Goto(f, "robots") /\ UNCHANGED lock /\ asked' = [asked EXCEPT ![o] = @ + 1]
      BY <1>3 DEF Stamp
    <2>2. asked[o] = 0
      <3>1. ASSUME asked[o] = 1 PROVE FALSE
        <4>1. PICK g \in Fetches : phase[g] = "robots" /\ target[g] = o
          BY <1>1, <1>3, <3>1 DEF Inv, AskedIsAwaited
        <4>2. g = f
          BY <1>1, <4>1, OneOnTheWire DEF OnTheWire, At
        <4> QED
          BY <1>1, <4>1, <4>2
      <3> QED
        BY <1>1, <3>1 DEF Inv, TypeOK, AskedIsAwaited
    <2>3. TypeOK'
      BY <1>1, <1>2, <2>1 DEF TypeOK, Goto, Phases
    <2>4. phase'[f] = "robots" /\ asked'[o] = 1
      BY <1>1, <2>1, <2>2 DEF TypeOK, Goto
    <2>5. \A h \in Hosts : QueueIsItsFetches(h)'
      BY <1>1, <2>1, QueuesStill DEF Phases, Queueing
    <2>6. Guarded(f)'
      BY <1>1, <2>1, <2>4 DEF Guarded, Heads, At
    <2>7. ASSUME NEW g \in Fetches \ {f} PROVE Guarded(g)'
      BY <1>1, <2>1, OthersHead, OthersGuarded
    <2>8. AskedIsAwaited'
      <3>1. \A g \in Fetches \ {f} : phase'[g] = phase[g]
        BY <1>1, <2>1 DEF TypeOK, Goto
      <3>2. \A q \in Origins \ {o} : asked'[q] = asked[q]
        BY <1>1, <2>1 DEF TypeOK
      <3>3. ASSUME NEW g \in Fetches, phase'[g] = "robots"
            PROVE  robots'[target'[g]] = "unknown" /\ asked'[target'[g]] = 1
        <4>1. CASE target[g] = o
          BY <1>1, <1>3, <2>4, <4>1
        <4>2. CASE target[g] # o
          <5>1. g # f /\ target[g] \in Origins \ {o}
            BY <1>1, <4>2 DEF TypeOK
          <5> QED
            BY <1>1, <3>1, <3>2, <3>3, <5>1 DEF Inv, AskedIsAwaited
        <4> QED
          BY <4>1, <4>2
      <3>4. ASSUME NEW q \in Origins
            PROVE  /\ asked'[q] <= 1
                   /\ asked'[q] = 1 /\ robots'[q] = "unknown" =>
                         \E g \in Fetches : phase'[g] = "robots" /\ target'[g] = q
        <4>1. CASE q = o
          BY <1>1, <2>4, <4>1
        <4>2. CASE q # o
          <5>1. asked'[q] = asked[q] /\ robots'[q] = robots[q]
            BY <1>1, <3>2, <4>2
          <5>2. ASSUME asked[q] = 1, robots[q] = "unknown"
                PROVE  \E g \in Fetches : phase'[g] = "robots" /\ target'[g] = q
            <6>1. PICK g \in Fetches : phase[g] = "robots" /\ target[g] = q
              BY <5>2 DEF Inv, AskedIsAwaited
            <6> QED
              BY <1>1, <3>1, <6>1
          <5> QED
            BY <5>1, <5>2 DEF Inv, AskedIsAwaited
        <4> QED
          BY <4>1, <4>2
      <3> QED
        BY <3>3, <3>4 DEF AskedIsAwaited
    <2> QED
      BY <2>3, <2>5, <2>6, <2>7, <2>8 DEF Inv
  <1>4. CASE robots[o] # "unknown" /\ Goto(f, "sending") /\ UNCHANGED <<lock, asked>>
    <2>1. TypeOK'
      BY <1>1, <1>2, <1>4 DEF TypeOK, Goto, Phases
    <2>2. phase'[f] = "sending"
      BY <1>1, <1>4 DEF TypeOK, Goto
    <2>3. \A h \in Hosts : QueueIsItsFetches(h)'
      BY <1>1, <1>4, QueuesStill DEF Phases, Queueing
    <2>4. Guarded(f)'
      BY <1>1, <1>4, <2>2 DEF Guarded, Heads, At
    <2>5. ASSUME NEW g \in Fetches \ {f} PROVE Guarded(g)'
      BY <1>1, <1>4, OthersHead, OthersGuarded
    <2>6. AskedIsAwaited'
      BY <1>1, <1>4, AwaitedStill
    <2> QED
      BY <2>1, <2>3, <2>4, <2>5, <2>6 DEF Inv
  <1>5. CASE robots[o] = "disallows" /\ Goto(f, "failed") /\ Release(f) /\ UNCHANGED asked
    <2>1. target' \in [Fetches -> Origins]
      BY <1>1 DEF TypeOK
    <2>2. /\ lock' \in [Hosts -> Seq(Fetches)]
          /\ \A h \in Hosts : QueueIsItsFetches(h)'
          /\ \A g \in Fetches \ {f} : OnTheWire(g) => Heads(g)'
      BY <1>1, <1>5, <2>1, QueuesReleased DEF Phases, Queueing
    <2>3. TypeOK'
      BY <1>1, <1>2, <1>5, <2>2 DEF TypeOK, Goto, Phases
    <2>4. phase'[f] = "failed"
      BY <1>1, <1>5 DEF TypeOK, Goto
    <2>5. Guarded(f)'
      BY <2>4 DEF Guarded, OnTheWire, Queueing
    <2>6. ASSUME NEW g \in Fetches \ {f} PROVE Guarded(g)'
      BY <1>1, <1>5, <2>2, OthersGuarded
    <2>7. AskedIsAwaited'
      BY <1>1, <1>5, AwaitedStill
    <2> QED
      BY <2>2, <2>3, <2>5, <2>6, <2>7 DEF Inv
  <1>6. \/ robots[o] = "unknown"
        \/ robots[o] # "unknown" /\ Goto(f, "sending") /\ UNCHANGED <<lock, asked>>
        \/ robots[o] = "disallows" /\ Goto(f, "failed") /\ Release(f) /\ UNCHANGED asked
    BY DEF Stamp
  <1> QED
    BY <1>3, <1>4, <1>5, <1>6

(* Only the fetch that asked awaits the robots.txt that is read.            *)
LEMMA RobotsReadKeeps ==
    ASSUME Inv, NEW f \in Fetches, RobotsRead(f)
    PROVE  Inv'
  <1> DEFINE o == target[f]
  <1>1. PICK body \in RobotsBodies, p \in {"sending", "failed"} :
            /\ robots' = [robots EXCEPT ![o] = body]
            /\ Goto(f, p)
            /\ p = "sending" => UNCHANGED lock
            /\ p = "failed" => Release(f)
            /\ UNCHANGED <<target, hops, since, asked>>
    BY DEF RobotsRead
  <1>2. /\ TypeOK /\ phase[f] = "robots" /\ OnTheWire(f) /\ Heads(f) /\ At(f) \notin Denied
        /\ o \in Origins /\ target' \in [Fetches -> Origins]
    BY <1>1 DEF Inv, TypeOK, RobotsRead, Guarded, OnTheWire, Queueing
  <1>3. phase'[f] = p /\ \A g \in Fetches \ {f} : phase'[g] = phase[g]
    BY <1>1, <1>2 DEF TypeOK, Goto
  <1>4. /\ robots' \in [Origins -> RobotsBodies \cup {"unknown"}] /\ robots'[o] # "unknown"
        /\ \A q \in Origins : robots[q] # "unknown" => robots'[q] # "unknown"
        /\ \A q \in Origins \ {o} : robots'[q] = robots[q]
    BY <1>1, <1>2 DEF TypeOK, RobotsBodies
  <1>5. /\ lock' \in [Hosts -> Seq(Fetches)]
        /\ \A h \in Hosts : QueueIsItsFetches(h)'
        /\ \A g \in Fetches \ {f} : OnTheWire(g) => Heads(g)'
        /\ p = "sending" => Heads(f)'
    <2>1. CASE p = "sending"
      <3>1. UNCHANGED <<target, lock>>
        BY <1>1, <2>1
      <3>2. \A h \in Hosts : QueueIsItsFetches(h)'
        BY <1>1, <1>2, <2>1, <3>1, QueuesStill DEF Phases, Queueing
      <3> QED
        BY <1>2, <3>1, <3>2, OthersHead DEF TypeOK
    <2>2. CASE p = "failed"
      <3>1. p \in Phases \ Queueing
        BY <2>2 DEF Phases, Queueing
      <3> QED
        BY <1>1, <1>2, <2>2, <3>1, QueuesReleased
    <2> QED
      BY <2>1, <2>2
  <1>6. TypeOK'
    BY <1>1, <1>2, <1>4, <1>5 DEF TypeOK, Goto, Phases
  <1>7. Guarded(f)'
    BY <1>1, <1>2, <1>3, <1>4, <1>5 DEF Guarded, OnTheWire, Queueing, At
  <1>8. ASSUME NEW g \in Fetches \ {f} PROVE Guarded(g)'
    BY <1>1, <1>4, <1>5, OthersGuarded
  <1>9. AskedIsAwaited'
    <2>1. ASSUME NEW g \in Fetches, phase'[g] = "robots"
          PROVE  robots'[target'[g]] = "unknown" /\ asked'[target'[g]] = 1
      <3>1. g # f /\ phase[g] = "robots"
        BY <1>3, <2>1
      <3>2. target[g] # o
        <4> SUFFICES ASSUME target[g] = o PROVE FALSE
          OBVIOUS
        <4>1. At(g) = At(f) /\ OnTheWire(g)
          BY <3>1 DEF At, OnTheWire
        <4> QED
          BY <1>2, <3>1, <4>1, OneOnTheWire
      <3>3. target[g] \in Origins \ {o}
        BY <1>2, <3>2 DEF TypeOK
      <3> QED
        BY <1>1, <1>4, <3>1, <3>3 DEF Inv, AskedIsAwaited
    <2>2. ASSUME NEW q \in Origins, asked'[q] = 1, robots'[q] = "unknown"
          PROVE  \E g \in Fetches : phase'[g] = "robots" /\ target'[g] = q
      <3>1. q # o
        BY <1>4, <2>2
      <3>2. PICK g \in Fetches : phase[g] = "robots" /\ target[g] = q
        BY <1>1, <1>4, <2>2, <3>1 DEF Inv, AskedIsAwaited
      <3>3. g # f
        BY <3>1, <3>2
      <3> QED
        BY <1>1, <1>3, <3>2, <3>3
    <2>3. \A q \in Origins : asked'[q] <= 1
      BY <1>1 DEF Inv, AskedIsAwaited
    <2> QED
      BY <2>1, <2>2, <2>3 DEF AskedIsAwaited
  <1> QED
    BY <1>5, <1>6, <1>7, <1>8, <1>9 DEF Inv

(* Nothing but the spacing depends on the clock.                            *)
LEMMA ClockKeeps ==
    ASSUME Inv, UNCHANGED <<phase, target, hops, lock, robots, asked>>,
           since' \in [Hosts -> 0..Never]
    PROVE  Inv'
  <1>1. TypeOK'
    BY DEF Inv, TypeOK
  <1>2. ASSUME NEW h \in Hosts PROVE QueueIsItsFetches(h)'
    BY DEF Inv, QueueIsItsFetches, At
  <1>3. ASSUME NEW f \in Fetches PROVE Guarded(f)'
    BY DEF Inv, Guarded, OnTheWire, Heads, At
  <1>4. AskedIsAwaited'
    BY DEF Inv, AskedIsAwaited
  <1> QED
    BY <1>1, <1>2, <1>3, <1>4 DEF Inv

(* Every step keeps the invariant.                                          *)
LEMMA InvStep == Inv /\ [Next]_vars => Inv'
  <1> SUFFICES ASSUME Inv, [Next]_vars PROVE Inv'
    OBVIOUS
  <1>1. CASE Tick
    <2>1. \A h \in Hosts : (IF since[h] < Never THEN since[h] + 1 ELSE Never) \in 0..Never
      BY FetchAssumption DEF Inv, TypeOK, Never
    <2>2. since' \in [Hosts -> 0..Never]
      BY <1>1, <2>1 DEF Tick
    <2> QED
      BY <1>1, <2>2, ClockKeeps DEF Tick
  <1>2. ASSUME NEW f \in Fetches, Begin(f) \/ Step(f) PROVE Inv'
    BY <1>2, OutsideKeeps, GuardPassesKeeps, StampKeeps, RobotsReadKeeps, LeavingKeeps DEF Step
  <1>3. CASE UNCHANGED vars
    BY <1>3, ClockKeeps DEF vars, Inv, TypeOK
  <1> QED
    BY <1>1, <1>2, <1>3 DEF Next

(* So it holds in every run.                                                *)
LEMMA Inductive == Spec => []Inv
  BY InvInit, InvStep, PTL DEF Spec
-----------------------------------------------------------------------------
(* The fetcher's state is well-formed in every run.                         *)
THEOREM TypeCorrect == Spec => []TypeOK
  <1>1. Inv => TypeOK
    BY DEF Inv
  <1> QED
    BY <1>1, Inductive, PTL

(* Two fetches on the wire to one host would both head its queue.           *)
LEMMA InvSpares == Inv => HostsAreSpared
  <1> SUFFICES ASSUME Inv PROVE HostsAreSpared
    OBVIOUS
  <1>1. ASSUME NEW f \in Fetches, NEW g \in Fetches, OnTheWire(f), OnTheWire(g), At(f) = At(g)
        PROVE  f = g
    BY <1>1, OneOnTheWire DEF Inv, Guarded
  <1>2. ASSUME NEW f \in Fetches, OnTheWire(f) PROVE Holds(f, At(f))
    BY <1>2, HoldsHeads DEF Inv, Guarded
  <1>3. ASSUME NEW f \in Fetches PROVE Cardinality({h \in Hosts : f \in ToSet(lock[h])}) <= 1
    <2> DEFINE held == {h \in Hosts : f \in ToSet(lock[h])}
    <2>1. ASSUME NEW h \in held PROVE h = At(f)
      <3>1. PICK i \in 1..Len(lock[h]) : lock[h][i] = f
        BY <2>1 DEF ToSet, Inv, TypeOK
      <3> QED
        BY <2>1, <3>1 DEF Inv, QueueIsItsFetches
    <2>2. held \subseteq {At(f)}
      BY <2>1
    <2>3. IsFiniteSet({At(f)}) /\ Cardinality({At(f)}) = 1
      BY FS_Singleton
    <2> HIDE DEF held
    <2>4. Cardinality(held) <= 1
      BY <2>2, <2>3, FS_Subset
    <2> QED
      BY <2>4 DEF held
  <1>4. OneRequestPerHost
    BY <1>1, <1>2, <1>3 DEF OneRequestPerHost
  <1>5. RobotsOnce
    BY DEF Inv, AskedIsAwaited, RobotsOnce
  <1>6. HopsAreGuarded
    BY DEF Inv, Guarded, HopsAreGuarded, OnTheWire, Queueing
  <1> QED
    BY <1>4, <1>5, <1>6 DEF HostsAreSpared

(* A host is sent one request at a time, under its lock, which a fetch      *)
(* never holds while it waits for another, so the locks cannot close a      *)
(* cycle; its origins' robots.txt is asked for once; and no redirect leads  *)
(* past the guards.                                                         *)
THEOREM HostsAlwaysSpared == Spec => []HostsAreSpared
  BY Inductive, InvSpares, PTL
-----------------------------------------------------------------------------
(* What a step does to the queues.                                          *)
Stays ==
    /\ UNCHANGED lock
    /\ \A g \in Fetches : phase'[g] = "queued" => phase[g] = "queued" /\ target'[g] = target[g]

OthersStay(f) == \A g \in Fetches \ {f} : phase'[g] = phase[g] /\ target'[g] = target[g]

Leaves(f) ==
    /\ Heads(f) /\ Release(f) /\ OthersStay(f)
    /\ phase'[f] \notin Queueing

Joins(f) ==
    /\ lock' = [lock EXCEPT ![At(f)] = Append(@, f)]
    /\ phase[f] = "guarding" /\ target'[f] = target[f] /\ OthersStay(f)

(* A step leaves the queues alone, or one fetch leaves or joins one.        *)
LEMMA StepQueues ==
    ASSUME Inv, [Next]_vars
    PROVE  Stays \/ \E f \in Fetches : Leaves(f) \/ Joins(f)
  <1>1. TypeOK
    BY DEF Inv
  <1>2. CASE Tick \/ UNCHANGED vars
    BY <1>2 DEF Tick, vars, Stays
  <1>3. ASSUME NEW f \in Fetches, Begin(f) \/ Step(f) PROVE Stays \/ Leaves(f) \/ Joins(f)
    <2>1. ASSUME NEW p, Goto(f, p)
          PROVE  phase'[f] = p /\ \A g \in Fetches \ {f} : phase'[g] = phase[g]
      BY <1>1, <2>1 DEF TypeOK, Goto
    <2>2. ASSUME NEW p, p \notin {"queued"}, Goto(f, p), UNCHANGED <<target, lock>> PROVE Stays
      BY <2>1, <2>2 DEF Stays
    <2>3. ASSUME NEW p, p \notin Queueing, Goto(f, p), Release(f), phase[f] \in Queueing, Heads(f),
                 \A g \in Fetches \ {f} : target'[g] = target[g]
          PROVE  Leaves(f)
      BY <2>1, <2>3 DEF Leaves, OthersStay
    <2>4. OnTheWire(f) => Heads(f) /\ phase[f] \in Queueing
      BY DEF Inv, Guarded, OnTheWire, Queueing
    <2>5. CASE Begin(f)
      BY <2>2, <2>5 DEF Begin
    <2>6. CASE GuardRefuses(f)
      BY <2>2, <2>6 DEF GuardRefuses
    <2>7. CASE GuardPasses(f)
      <3>1. \A g \in Fetches : target'[g] = target[g]
        BY <2>7 DEF GuardPasses
      <3> QED
        BY <2>1, <2>7, <3>1 DEF GuardPasses, Joins, OthersStay
    <2>8. CASE Stamp(f)
      <3>1. /\ Heads(f) /\ phase[f] \in Queueing /\ UNCHANGED target
            /\ \/ Goto(f, "failed") /\ Release(f)
               \/ \E p \in {"robots", "sending"} : Goto(f, p) /\ UNCHANGED lock
        BY <1>1, <2>8, HoldsHeads DEF Stamp, Queueing
      <3> QED
        BY <2>2, <2>3, <3>1 DEF Queueing
    <2>9. CASE RobotsRead(f)
      <3>1. /\ OnTheWire(f) /\ UNCHANGED target
            /\ \/ Goto(f, "failed") /\ Release(f)
               \/ Goto(f, "sending") /\ UNCHANGED lock
        BY <2>9 DEF RobotsRead, OnTheWire
      <3> QED
        BY <2>2, <2>3, <2>4, <3>1 DEF Queueing
    <2>10. CASE SendFails(f) \/ Redirect(f) \/ HeadersArrive(f)
      <3>1. /\ OnTheWire(f) /\ Release(f)
            /\ \E p \in {"failed", "guarding", "reading"} : Goto(f, p)
        BY <2>10 DEF SendFails, Redirect, HeadersArrive, OnTheWire
      <3>2. \A g \in Fetches \ {f} : target'[g] = target[g]
        BY <1>1, <2>10 DEF SendFails, Redirect, HeadersArrive, TypeOK
      <3> QED
        BY <2>3, <2>4, <3>1, <3>2 DEF Queueing
    <2>11. CASE BodyEnds(f)
      BY <2>2, <2>11 DEF BodyEnds
    <2> QED
      BY <1>3, <2>5, <2>6, <2>7, <2>8, <2>9, <2>10, <2>11 DEF Step
  <1> QED
    BY <1>2, <1>3 DEF Next

(* Where a fetch that stays in a queue stands after a step.                 *)
LEMMA PlacesKept ==
    ASSUME Inv, [Next]_vars, NEW h \in Hosts
    PROVE  \/ lock'[h] = lock[h]
           \/ \E f \in Fetches : /\ Leaves(f) /\ lock[h][1] = f
                               /\ Len(lock'[h]) = Len(lock[h]) - 1
                               /\ \A i \in 2..Len(lock[h]) : lock'[h][i - 1] = lock[h][i]
           \/ \E f \in Fetches : /\ Joins(f) /\ At(f) = h
                               /\ Len(lock'[h]) = Len(lock[h]) + 1
                               /\ lock'[h][Len(lock[h]) + 1] = f
                               /\ \A i \in 1..Len(lock[h]) : lock'[h][i] = lock[h][i]
  <1>1. lock \in [Hosts -> Seq(Fetches)]
    BY DEF Inv, TypeOK
  <1>2. CASE Stays
    BY <1>2 DEF Stays
  <1>3. ASSUME NEW f \in Fetches, Leaves(f), h = At(f)
        PROVE  /\ lock[h][1] = f /\ Len(lock'[h]) = Len(lock[h]) - 1
               /\ \A i \in 2..Len(lock[h]) : lock'[h][i - 1] = lock[h][i]
    <2>1. lock[h] \in Seq(Fetches) /\ Len(lock[h]) >= 1 /\ lock[h][1] = f
      BY <1>1, <1>3 DEF Leaves, Heads
    <2>2. lock'[h] = Tail(lock[h])
      BY <1>1, <1>3, ReleasesItsLock DEF Leaves, Inv
    <2>3. /\ Len(Tail(lock[h])) = Len(lock[h]) - 1
          /\ \A i \in 1..Len(Tail(lock[h])) : Tail(lock[h])[i] = lock[h][i + 1]
      BY <2>1, TailOf
    <2>4. ASSUME NEW i \in 2..Len(lock[h]) PROVE lock'[h][i - 1] = lock[h][i]
      <3>1. i - 1 \in 1..Len(Tail(lock[h])) /\ (i - 1) + 1 = i
        BY <2>1, <2>3
      <3> QED
        BY <2>2, <2>3, <3>1
    <2> QED
      BY <2>1, <2>2, <2>3, <2>4
  <1>4. ASSUME NEW f \in Fetches, Joins(f), h = At(f)
        PROVE  /\ Len(lock'[h]) = Len(lock[h]) + 1 /\ lock'[h][Len(lock[h]) + 1] = f
               /\ \A i \in 1..Len(lock[h]) : lock'[h][i] = lock[h][i]
    <2>1. lock[h] \in Seq(Fetches) /\ lock'[h] = Append(lock[h], f)
      BY <1>1, <1>4 DEF Joins
    <2> QED
      BY <2>1, AppendOf
  <1>5. ASSUME NEW f \in Fetches, Leaves(f) \/ Joins(f), h # At(f) PROVE lock'[h] = lock[h]
    BY <1>1, <1>5, ReleasesItsLock DEF Leaves, Joins, Inv
  <1> QED
    BY <1>2, <1>3, <1>4, <1>5, StepQueues

(* Who waits stands in the queue of the host it is at.                      *)
Stands(f) == \E i \in 1..Len(lock[At(f)]) : lock[At(f)][i] = f

WaitersStand == \A f \in Fetches : phase[f] = "queued" => Stands(f)

LEMMA WaitersStandStep == Inv /\ WaitersStand /\ [Next]_vars => WaitersStand'
  <1> SUFFICES ASSUME Inv, WaitersStand, [Next]_vars, NEW g \in Fetches, phase'[g] = "queued"
               PROVE  Stands(g)'
    BY DEF WaitersStand
  <1> DEFINE h == At(g)
  <1>1. lock \in [Hosts -> Seq(Fetches)] /\ h \in Hosts
    BY HostOfFetch DEF Inv, TypeOK
  <1>2. \/ target'[g] = target[g] /\ phase[g] = "queued"
        \/ target'[g] = target[g] /\ Joins(g)
    BY <1>1, StepQueues DEF Stays, Leaves, Joins, OthersStay, Queueing
  <1>3. Host(target'[g]) = h
    BY <1>2 DEF At
  <1> SUFFICES \E i \in 1..Len(lock'[h]) : lock'[h][i] = g
    BY <1>3 DEF Stands, At
  <1>4. CASE phase[g] = "queued"
    <2>1. PICK i \in 1..Len(lock[h]) : lock[h][i] = g
      BY <1>4 DEF WaitersStand, Stands
    <2>2. Len(lock[h]) \in Nat
      BY <1>1
    <2>3. CASE lock'[h] = lock[h]
      BY <2>1, <2>3
    <2>4. ASSUME NEW f \in Fetches, Leaves(f), lock[h][1] = f,
                 Len(lock'[h]) = Len(lock[h]) - 1,
                 \A k \in 2..Len(lock[h]) : lock'[h][k - 1] = lock[h][k]
          PROVE  \E k \in 1..Len(lock'[h]) : lock'[h][k] = g
      <3>1. f # g
        BY <1>4, <2>4 DEF Leaves, Queueing
      <3>2. i \in 2..Len(lock[h]) /\ i - 1 \in 1..Len(lock'[h])
        BY <2>1, <2>2, <2>4, <3>1
      <3> QED
        BY <2>1, <2>4, <3>2
    <2>5. ASSUME Len(lock'[h]) = Len(lock[h]) + 1, \A k \in 1..Len(lock[h]) : lock'[h][k] = lock[h][k]
          PROVE  \E k \in 1..Len(lock'[h]) : lock'[h][k] = g
      <3>1. i \in 1..Len(lock'[h])
        BY <2>1, <2>2, <2>5
      <3> QED
        BY <2>1, <2>5, <3>1
    <2> QED
      BY <1>1, <2>3, <2>4, <2>5, PlacesKept
  <1>5. CASE Joins(g)
    <2>1. lock[h] \in Seq(Fetches) /\ lock'[h] = Append(lock[h], g)
      BY <1>1, <1>5 DEF Joins
    <2>2. Len(lock'[h]) = Len(lock[h]) + 1 /\ lock'[h][Len(lock[h]) + 1] = g /\ Len(lock[h]) \in Nat
      BY <2>1, AppendOf
    <2> QED
      BY <2>2
  <1> QED
    BY <1>2, <1>4, <1>5

(* A fetch on the wire stands first and nowhere else.                       *)
LEMMA OnTheWireIsFirst ==
    ASSUME Inv, NEW h \in Hosts, NEW j \in 1..Len(lock[h]), OnTheWire(lock[h][j])
    PROVE  j = 1
  <1>1. lock[h] \in Seq(Fetches)
    BY DEF Inv, TypeOK
  <1>2. lock[h][j] \in Fetches /\ At(lock[h][j]) = h
    BY <1>1 DEF Inv, QueueIsItsFetches
  <1>3. Len(lock[h]) >= 1 /\ lock[h][1] = lock[h][j]
    BY <1>2 DEF Inv, Guarded, Heads
  <1>4. 1 \in 1..Len(lock[h])
    BY <1>1, <1>3
  <1> QED
    BY <1>3, <1>4 DEF Inv, QueueIsItsFetches

(* A waiter stands in the queue of the host it is at, behind others that    *)
(* wait there or are on the wire there: whatever the redirects, no fetch    *)
(* waits for one that waits elsewhere, so no set of fetches waits on itself.*)
THEOREM NobodyStranded == Spec => []NobodyIsStranded
  <1>1. ASSUME Inv, WaitersStand PROVE NobodyIsStranded
    <2> SUFFICES ASSUME NEW f \in Fetches, phase[f] = "queued"
                 PROVE  \E i \in DOMAIN lock[At(f)] :
                            /\ lock[At(f)][i] = f
                            /\ \A j \in 1..(i - 1) : LET g == lock[At(f)][j] IN
                                  At(g) = At(f) /\ (phase[g] = "queued" \/ (j = 1 /\ OnTheWire(g)))
      BY DEF NobodyIsStranded
    <2> DEFINE h == At(f)
    <2>1. h \in Hosts /\ lock[h] \in Seq(Fetches)
      BY <1>1, HostOfFetch DEF Inv
    <2>2. PICK i \in 1..Len(lock[h]) : lock[h][i] = f
      BY <1>1 DEF WaitersStand, Stands
    <2>3. ASSUME NEW j \in 1..(i - 1)
          PROVE  LET g == lock[h][j] IN At(g) = h /\ (phase[g] = "queued" \/ (j = 1 /\ OnTheWire(g)))
      <3>1. j \in 1..Len(lock[h])
        BY <2>1, <2>2
      <3>2. phase[lock[h][j]] \in Queueing /\ At(lock[h][j]) = h
        BY <1>1, <2>1, <3>1 DEF Inv, QueueIsItsFetches
      <3>3. OnTheWire(lock[h][j]) => j = 1
        BY <1>1, <2>1, <3>1, OnTheWireIsFirst
      <3> QED
        BY <3>2, <3>3 DEF Queueing, OnTheWire
    <2>4. DOMAIN lock[h] = 1..Len(lock[h])
      BY <2>1
    <2> QED
      BY <2>2, <2>3, <2>4
  <1>2. Init => WaitersStand
    BY DEF Init, WaitersStand
  <1> QED
    BY <1>1, <1>2, Inductive, WaitersStandStep, PTL DEF Spec

(* The lock of a host serves the fetches in the order they asked for it:    *)
(* one that stands ahead stays ahead until its turn is over, and those      *)
(* behind it send the host nothing before that.                             *)
LEMMA StepOvertakesNobody ==
    ASSUME Inv, [Next]_vars, NEW f \in Fetches, NEW g \in Fetches, Before(f, g)
    PROVE  ~OnTheWire(g) /\ (Before(f, g)' \/ phase'[f] \notin {"queued", "robots", "sending"})
  <1>1. PICK h \in Hosts : \E j \in DOMAIN lock[h] : \E i \in 1..(j - 1) : lock[h][i] = f /\ lock[h][j] = g
    BY DEF Before
  <1>2. PICK j \in DOMAIN lock[h] : \E i \in 1..(j - 1) : lock[h][i] = f /\ lock[h][j] = g
    BY <1>1
  <1>3. PICK i \in 1..(j - 1) : lock[h][i] = f /\ lock[h][j] = g
    BY <1>2
  <1>4. lock[h] \in Seq(Fetches) /\ lock'[h] \in Seq(Fetches)
    BY InvStep DEF Inv, TypeOK
  <1>5. j \in 1..Len(lock[h]) /\ i \in 1..Len(lock[h]) /\ Len(lock[h]) \in Nat /\ i < j
    BY <1>3, <1>4
  <1>6. ~OnTheWire(g)
    BY <1>3, <1>5, OnTheWireIsFirst
  <1>7. ASSUME NEW m \in 1..Len(lock'[h]), NEW n \in 1..Len(lock'[h]), m < n,
               lock'[h][m] = f, lock'[h][n] = g
        PROVE  Before(f, g)'
    <2>1. n \in DOMAIN lock'[h] /\ m \in 1..(n - 1)
      BY <1>4, <1>7
    <2>2. \E n1 \in DOMAIN lock'[h] : \E m1 \in 1..(n1 - 1) : lock'[h][m1] = f /\ lock'[h][n1] = g
      BY <1>7, <2>1
    <2> QED
      BY <2>2 DEF Before
  <1>8. CASE lock'[h] = lock[h]
    BY <1>3, <1>5, <1>6, <1>7, <1>8
  <1>9. ASSUME NEW e \in Fetches, Leaves(e), lock[h][1] = e,
               Len(lock'[h]) = Len(lock[h]) - 1,
               \A k \in 2..Len(lock[h]) : lock'[h][k - 1] = lock[h][k]
        PROVE  Before(f, g)' \/ phase'[f] \notin {"queued", "robots", "sending"}
    <2>1. CASE e = f
      BY <1>9, <2>1 DEF Leaves, Queueing
    <2>2. CASE e # f
      <3>1. i \in 2..Len(lock[h]) /\ j \in 2..Len(lock[h])
        BY <1>3, <1>5, <1>9, <2>2
      <3>2. i - 1 \in 1..Len(lock'[h]) /\ j - 1 \in 1..Len(lock'[h]) /\ i - 1 < j - 1
        BY <1>5, <1>9, <3>1
      <3>3. lock'[h][i - 1] = f /\ lock'[h][j - 1] = g
        BY <1>3, <1>9, <3>1
      <3> QED
        BY <1>7, <3>2, <3>3
    <2> QED
      BY <2>1, <2>2
  <1>10. ASSUME Len(lock'[h]) = Len(lock[h]) + 1, \A k \in 1..Len(lock[h]) : lock'[h][k] = lock[h][k]
        PROVE  Before(f, g)'
    <2>1. i \in 1..Len(lock'[h]) /\ j \in 1..Len(lock'[h])
      BY <1>5, <1>10
    <2> QED
      BY <1>3, <1>5, <1>7, <1>10, <2>1
  <1> QED
    BY <1>6, <1>8, <1>9, <1>10, PlacesKept

(* The same of every run.                                                   *)
THEOREM NobodyOvertaken == Spec => NobodyIsOvertaken
  <1> DEFINE A == \A f, g \in Fetches : Before(f, g) =>
                    /\ ~OnTheWire(g)
                    /\ Before(f, g)' \/ phase'[f] \notin {"queued", "robots", "sending"}
  <1>1. Inv /\ [Next]_vars => [A]_vars
    BY StepOvertakesNobody
  <1> QED
    BY <1>1, Inductive, PTL DEF Spec, NobodyIsOvertaken
=============================================================================
