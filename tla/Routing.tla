-------------------------------- MODULE Routing --------------------------------
(***************************************************************************)
(* Which model, at which effort, answers a call site: the resolution of    *)
(* routing.rs and the pool of clients that client/pool.rs builds from it.  *)
(*                                                                         *)
(* An environment maps the suffixes of its PARALLAX_MODEL_* and            *)
(* PARALLAX_EFFORT_* variables to their values; "" is a blank value.  A    *)
(* client is the pair of the model and the effort it was built with.       *)
(***************************************************************************)
EXTENDS FiniteSets

CallSites == {"VERIFY", "UNSTICK", "DIVERGE", "DECIDE", "ELICIT", "GROUNDED_VERIFY",
              "CHECK_TRANSLATE", "RESEARCH_SCOPE", "RESEARCH_EXTRACT", "RESEARCH_VERIFY",
              "RESEARCH_SYNTHESIZE", "CHECKPOINT_REVIEW"}
Tiers == {"BULK", "JUDGMENT"}
Efforts == {"low", "medium", "high", "max", "xhigh"}
NoEffort == "none"

Tier(site) == IF site = "RESEARCH_EXTRACT" THEN "BULK" ELSE "JUDGMENT"

(* Both namespaces are reserved: an unknown suffix, a blank model or a      *)
(* value that is no effort is an error.                                     *)
NamespacesValid(models, efforts) ==
    /\ DOMAIN models \cup DOMAIN efforts \subseteq CallSites \cup Tiers
    /\ \A name \in DOMAIN models : models[name] # ""
    /\ \A name \in DOMAIN efforts : efforts[name] \in Efforts

(* Most specific first: the site, its tier, the default.                    *)
Lookup(settings, site, default) ==
    IF site \in DOMAIN settings THEN settings[site]
    ELSE IF Tier(site) \in DOMAIN settings THEN settings[Tier(site)] ELSE default

ModelFor(env, site) == Lookup(env.models, site, env.default)
EffortFor(env, site) == Lookup(env.efforts, site, NoEffort)

RoutedPairs(env) == {<<ModelFor(env, site), EffortFor(env, site)>> : site \in CallSites}
RoutedModels(env) == {ModelFor(env, site) : site \in CallSites}

(* build_model_client: a client sends its model and its effort; the openai  *)
(* backend accepts an effort and drops it at the wire.                      *)
Connect(env, model, effort) ==
    <<model, IF env.backend = "anthropic" THEN effort ELSE NoEffort>>

(* The client injected at boot, for the default model at no effort.         *)
InjectedClient(env) == Connect(env, env.default, NoEffort)

(* Defect: the injected client is reused at any effort.                     *)
FactoryReusing(env, model, effort) ==
    IF model = env.default THEN InjectedClient(env) ELSE Connect(env, model, effort)

(* The factory that with_capabilities hands to the pool.                    *)
Factory(env, model, effort) ==
    IF model = env.default /\ effort = NoEffort THEN InjectedClient(env) ELSE Connect(env, model, effort)

(* by_key: the clients the routing names.  by_effort: every effort and none *)
(* of every routed model besides.                                           *)
ByKey(env) == [pair \in RoutedPairs(env) |-> Factory(env, pair[1], pair[2])]
ByEffort(env) ==
    [pair \in RoutedModels(env) \X (Efforts \cup {NoEffort}) |->
        IF pair \in DOMAIN ByKey(env) THEN ByKey(env)[pair] ELSE Factory(env, pair[1], pair[2])]

ForSite(env, site) == ByKey(env)[<<ModelFor(env, site), EffortFor(env, site)>>]

(* A call may ask for an effort of its own; the site keeps its model.       *)
ForSiteWithEffort(env, site, effort) ==
    LET pair == <<ModelFor(env, site), effort>>
    IN  IF effort = NoEffort \/ pair \notin DOMAIN ByEffort(env)
        THEN ForSite(env, site)
        ELSE ByEffort(env)[pair]
=============================================================================
