--------------------------------- MODULE Fetch ---------------------------------
(***************************************************************************)
(* The fetcher of one research run (research/fetch.rs): concurrent calls   *)
(* of fetch(), each following redirects hop by hop.                        *)
(*                                                                         *)
(* Every hop is guarded: its scheme, its domain and its address are        *)
(* checked, then the lock of its host is taken, the spacing since the last *)
(* request to the host is slept out, the robots.txt of its origin is       *)
(* consulted (fetched once a run) and the request is sent, all under the   *)
(* lock.  The lock is released when the headers arrive; the body is read   *)
(* without it.                                                             *)
(***************************************************************************)
EXTENDS Naturals, Sequences, SequencesExt, FiniteSets

CONSTANTS
    Fetches,    \* the calls of fetch()
    Origins,    \* the origins pages and redirects may lead to
    Host(_),    \* the host of an origin
    Denied,     \* hosts that check_domain or check_address refuses
    MaxHops,    \* FETCH_MAX_REDIRECTS
    Spacing     \* domain_spacing_ms, in ticks

Hosts == {Host(o) : o \in Origins}
Never == Spacing + 1

ASSUME FetchAssumption ==
    /\ Denied \subseteq Hosts
    /\ MaxHops \in Nat
    /\ Spacing \in Nat

VARIABLES
    phase,      \* where each fetch stands
    target,     \* the origin of its next or current hop
    hops,       \* redirects it followed
    lock,       \* the holder and the waiters of each host's lock, in order
    since,      \* ticks since DomainState::last_request, up to Never
    robots,     \* the run's robots cache, by origin
    asked       \* history: robots.txt requests sent, by origin

vars == <<phase, target, hops, lock, since, robots, asked>>

Phases == {"new", "guarding", "queued", "robots", "sending", "reading", "got", "failed"}
RobotsBodies == {"absent", "allows", "disallows"}

TypeOK ==
    /\ phase \in [Fetches -> Phases]
    /\ target \in [Fetches -> Origins]
    /\ hops \in [Fetches -> 0..MaxHops]
    /\ lock \in [Hosts -> Seq(Fetches)]
    /\ since \in [Hosts -> 0..Never]
    /\ robots \in [Origins -> RobotsBodies \cup {"unknown"}]
    /\ asked \in [Origins -> Nat]

Init ==
    /\ phase = [f \in Fetches |-> "new"]
    /\ target \in [Fetches -> Origins]
    /\ hops = [f \in Fetches |-> 0]
    /\ lock = [h \in Hosts |-> <<>>]
    /\ since = [h \in Hosts |-> Never]
    /\ robots = [o \in Origins |-> "unknown"]
    /\ asked = [o \in Origins |-> 0]
-----------------------------------------------------------------------------
At(f) == Host(target[f])

(* tokio's mutex is granted in the order it was asked for.                  *)
Holds(f, h) == lock[h] # <<>> /\ Head(lock[h]) = f

(* The guards a fetch holds are dropped at the end of their scope.          *)
Release(f) == lock' = [h \in Hosts |-> IF Holds(f, h) THEN Tail(lock[h]) ELSE lock[h]]

Goto(f, p) == phase' = [phase EXCEPT ![f] = p]

(* fetch() is called.                                                       *)
Begin(f) ==
    /\ phase[f] = "new"
    /\ Goto(f, "guarding")
    /\ UNCHANGED <<target, hops, lock, since, robots, asked>>

(* check_domain and check_address, before the lock is asked for.            *)
GuardRefuses(f) ==
    /\ phase[f] = "guarding" /\ At(f) \in Denied
    /\ Goto(f, "failed")
    /\ UNCHANGED <<target, hops, lock, since, robots, asked>>

GuardPasses(f) ==
    /\ phase[f] = "guarding" /\ At(f) \notin Denied
    /\ Goto(f, "queued")
    /\ lock' = [lock EXCEPT ![At(f)] = Append(@, f)]
    /\ UNCHANGED <<target, hops, since, robots, asked>>

(* The lock is held and the spacing has passed: the request is stamped, and *)
(* robots.txt is asked for unless the cache has it.                         *)
Stamp(f) ==
    LET h == At(f) IN
    /\ phase[f] = "queued" /\ Holds(f, h)
    /\ since[h] >= Spacing
    /\ since' = [since EXCEPT ![h] = 0]
    /\ CASE robots[target[f]] = "unknown" ->
              /\ Goto(f, "robots")
              /\ asked' = [asked EXCEPT ![target[f]] = @ + 1]
              /\ UNCHANGED lock
         [] robots[target[f]] = "disallows" ->
              \/ Goto(f, "failed") /\ Release(f) /\ UNCHANGED asked
              \/ Goto(f, "sending") /\ UNCHANGED <<lock, asked>>
         [] OTHER -> Goto(f, "sending") /\ UNCHANGED <<lock, asked>>
    /\ UNCHANGED <<target, hops, robots>>

(* Defect: a robots.txt that could not be read is not cached.               *)
RobotsUncached(f) ==
    /\ phase[f] = "robots"
    /\ \E body \in RobotsBodies :
        /\ robots' = IF body = "absent" THEN robots ELSE [robots EXCEPT ![target[f]] = body]
        /\ IF body = "disallows"
           THEN Goto(f, "failed") /\ Release(f)
           ELSE Goto(f, "sending") /\ UNCHANGED lock
    /\ UNCHANGED <<target, hops, since, asked>>

(* robots.txt was read, or failed in any way and counts as absent; either   *)
(* is cached.  A page it disallows is refused, one it allows is asked for   *)
(* at once, in the same turn of the lock.                                   *)
RobotsRead(f) ==
    /\ phase[f] = "robots"
    /\ \E body \in RobotsBodies :
        /\ robots' = [robots EXCEPT ![target[f]] = body]
        /\ \/ Goto(f, "sending") /\ UNCHANGED lock
           \/ body = "disallows" /\ Goto(f, "failed") /\ Release(f)
    /\ UNCHANGED <<target, hops, since, asked>>

(* The request times out, fails, or is answered by an error status, a       *)
(* redirect without a Location or one past the last hop, or a content type  *)
(* that is not extractable.                                                 *)
SendFails(f) ==
    /\ phase[f] = "sending"
    /\ Goto(f, "failed")
    /\ Release(f)
    /\ UNCHANGED <<target, hops, since, robots, asked>>

(* Defect: the lock of a hop is kept while the next hop, on another host,   *)
(* asks for its own, and both are dropped when the fetch ends.              *)
RedirectHolding(f) ==
    /\ phase[f] = "sending" /\ hops[f] < MaxHops
    /\ \E o \in Origins :
        /\ target' = [target EXCEPT ![f] = o]
        /\ IF Host(o) \in Denied \cup {At(f)} THEN Release(f) ELSE UNCHANGED lock
    /\ Goto(f, "guarding")
    /\ hops' = [hops EXCEPT ![f] = @ + 1]
    /\ UNCHANGED <<since, robots, asked>>

(* A redirect: the lock is released and the next hop is guarded afresh.     *)
Redirect(f) ==
    /\ phase[f] = "sending" /\ hops[f] < MaxHops
    /\ \E o \in Origins : target' = [target EXCEPT ![f] = o]
    /\ Goto(f, "guarding")
    /\ Release(f)
    /\ hops' = [hops EXCEPT ![f] = @ + 1]
    /\ UNCHANGED <<since, robots, asked>>

(* The headers of a page: the lock is released before the body is read.     *)
HeadersArrive(f) ==
    /\ phase[f] = "sending"
    /\ Goto(f, "reading")
    /\ Release(f)
    /\ UNCHANGED <<target, hops, since, robots, asked>>

(* read_capped: the body, a read error, or more than the cap.               *)
BodyEnds(f) ==
    /\ phase[f] = "reading"
    /\ \E p \in {"got", "failed"} : Goto(f, p)
    /\ UNCHANGED <<target, hops, lock, since, robots, asked>>

Tick ==
    /\ since' = [h \in Hosts |-> IF since[h] < Never THEN since[h] + 1 ELSE Never]
    /\ UNCHANGED <<phase, target, hops, lock, robots, asked>>

Step(f) ==
    \/ GuardRefuses(f) \/ GuardPasses(f) \/ Stamp(f) \/ RobotsRead(f)
    \/ SendFails(f) \/ Redirect(f) \/ HeadersArrive(f) \/ BodyEnds(f)

Next == Tick \/ \E f \in Fetches : Begin(f) \/ Step(f)

Spec == Init /\ [][Next]_vars

(* Time passes, and a request or a body ends, each under its timeout.       *)
FairSpec == Spec /\ WF_vars(Tick) /\ \A f \in Fetches : WF_vars(Step(f))
-----------------------------------------------------------------------------
OnTheWire(f) == phase[f] \in {"robots", "sending"}

(* Politeness: at most one request to a host awaits its headers, it holds   *)
(* the host's lock, and a fetch never holds one lock and waits for another. *)
OneRequestPerHost ==
    /\ \A f, g \in Fetches : OnTheWire(f) /\ OnTheWire(g) /\ At(f) = At(g) => f = g
    /\ \A f \in Fetches : OnTheWire(f) => Holds(f, At(f))
    /\ \A f \in Fetches : Cardinality({h \in Hosts : f \in ToSet(lock[h])}) <= 1

(* No redirect escapes the guards: a denied host is sent nothing, and a     *)
(* page is asked for only when the robots.txt of its own origin was         *)
(* consulted.                                                               *)
HopsAreGuarded ==
    \A f \in Fetches :
        /\ OnTheWire(f) => At(f) \notin Denied
        /\ phase[f] \in {"sending", "reading", "got"} => robots[target[f]] # "unknown"

(* robots.txt is asked for at most once per origin and run, though fetches  *)
(* of an origin run side by side and a failed request counts as absent.     *)
RobotsOnce == \A o \in Origins : asked[o] <= 1

(* A host is asked one thing at a time, for its robots.txt once, and never  *)
(* behind the guards, through whatever redirects.                           *)
HostsAreSpared == OneRequestPerHost /\ RobotsOnce /\ HopsAreGuarded

(* Nobody is stranded: who waits for a lock stands in the queue of the host *)
(* it is at, whatever redirects brought it there, and those ahead of it are *)
(* at that host too: the first on the wire or about to be, the others       *)
(* waiting as it does, none of them for another lock.                       *)
NobodyIsStranded ==
    \A f \in Fetches : phase[f] = "queued" =>
        \E i \in DOMAIN lock[At(f)] :
            /\ lock[At(f)][i] = f
            /\ \A j \in 1..(i - 1) : LET g == lock[At(f)][j] IN
                  At(g) = At(f) /\ (phase[g] = "queued" \/ (j = 1 /\ OnTheWire(g)))

(* Nobody is overtaken: a fetch stays ahead of those that asked for the     *)
(* lock after it until its turn is over, and till then they send nothing.   *)
Before(f, g) ==
    \E h \in Hosts : \E j \in DOMAIN lock[h] : \E i \in 1..(j - 1) : lock[h][i] = f /\ lock[h][j] = g

NobodyIsOvertaken ==
    [][\A f, g \in Fetches : Before(f, g) =>
        /\ ~OnTheWire(g)
        /\ Before(f, g)' \/ phase'[f] \notin {"queued", "robots", "sending"}]_vars

(* Every fetch ends: nobody waits for a lock for ever.                      *)
FetchEnds == \A f \in Fetches : phase[f] = "guarding" ~> phase[f] \in {"got", "failed"}
=============================================================================
