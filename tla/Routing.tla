------------------------------ MODULE Routing ------------------------------
(***************************************************************************)
(* Route resolution (routing.js): which provider serves a model for a      *)
(* project, under which id, or why nobody does.  Everything here is a      *)
(* function of the configuration at the instant it is asked: the record c  *)
(* holds the fields of CFG that routing reads, and openrouter's catalogue. *)
(*                                                                         *)
(* Ids are taken after the lowercasing the code applies.  A project is a   *)
(* path <<consumer, job>>.  Base URLs follow from the provider; the login  *)
(* of a claudecode call is attached later, by the pipeline.                *)
(***************************************************************************)
EXTENDS Naturals, Sequences

CONSTANTS ClaudeModels,   \* ids that begin with claudePrefix
          ImageModels,    \* ids that are served under /images/ only
          None            \* no model, no rule, no job

Providers == {"local", "claudecode", "crazyrouter", "openrouter", "freeaiapikey", "groq"}

\* What serves a call, and the id that is sent for it.
RouteTo(provider, model) == [provider |-> provider, sent |-> model]
Blocked == RouteTo("blocked", None)

-----------------------------------------------------------------------------
(* The rule of a project: exact path, then its consumer. *)

RuleFor(c, path) ==
    IF path \in DOMAIN c.rules THEN c.rules[path]
    ELSE IF <<path[1], None>> \in DOMAIN c.rules THEN c.rules[<<path[1], None>>]
    ELSE None

\* Where unknown, missing and refused models go.
DefaultRoute(c) == IF c.default = None THEN Blocked
                   ELSE RouteTo(c.default.provider, c.default.model)

\* A provider that needs a key does nothing without one.
Configured(c, provider) == provider \in c.keys

\* The id is openrouter's: written down by the operator, or in the catalogue and free
\* (or paid, when paid ones are allowed).
OpenrouterTarget(c, m) ==
    /\ Configured(c, "openrouter")
    /\ \/ m \in c.openrouterModels
       \/ m \in c.catalogFree
       \/ ~c.freeOnly /\ m \in c.catalogPaid

\* Defect: the metered reseller is asked before the free lane.
DefectLanes == <<"force", "override", "local", "claude", "nothing",
                 "freeaiapikey", "groq", "openrouter", "cloud">>

\* The chain of baseRoute: the first lane that claims the model has it.
Lanes == <<"force", "override", "local", "claude", "nothing",
           "groq", "openrouter", "freeaiapikey", "cloud">>

Claims(c, m, lane) ==
    CASE lane = "force"        -> c.force # None
      [] lane = "override"     -> m \in DOMAIN c.modelRoutes
      [] lane = "local"        -> m \in DOMAIN c.localMap
      [] lane = "claude"       -> m \in ClaudeModels
      [] lane = "nothing"      -> m = None
      [] lane = "groq"         -> Configured(c, "groq") /\ m \in c.groqModels
      [] lane = "openrouter"   -> OpenrouterTarget(c, m)
      [] lane = "freeaiapikey" -> Configured(c, "freeaiapikey") /\ m \in c.freeaiapikeyModels
      [] lane = "cloud"        -> TRUE

LaneOf(c, m) ==
    Lanes[CHOOSE i \in DOMAIN Lanes :
            Claims(c, m, Lanes[i]) /\ \A j \in 1..(i - 1) : ~Claims(c, m, Lanes[j])]

\* An override or rule without a model keeps the caller's.
Rewritten(target, m) == RouteTo(target.provider, IF target.model = None THEN m ELSE target.model)

CloudAllows(c, m) == \/ c.cloudPolicy = "open"
                     \/ c.cloudPolicy = "allowlist" /\ m \in c.cloudAllowlist

BaseRoute(c, m) ==
    LET lane == LaneOf(c, m) IN
    CASE lane = "force"    -> RouteTo(c.force.provider, c.force.model)
      [] lane = "override" -> Rewritten(c.modelRoutes[m], m)
      [] lane = "local"    -> RouteTo("local", c.localMap[m])
      [] lane = "claude"   -> RouteTo("claudecode", m)
      [] lane = "nothing"  -> DefaultRoute(c)
      [] lane = "cloud"    -> IF CloudAllows(c, m) THEN RouteTo("crazyrouter", m) ELSE DefaultRoute(c)
      [] OTHER             -> RouteTo(lane, m)

\* The allowlists of a rule refuse; they never substitute.  An empty list allows all.
EnforceAllow(r, m, rule) ==
    IF \/ r = Blocked
       \/ /\ rule.allowProviders = {} \/ r.provider \in rule.allowProviders
          /\ rule.allowModels = {} \/ r.sent \in rule.allowModels
    THEN r ELSE Blocked

ResolveRoute(c, m, path) ==
    LET rule == IF path = None THEN None ELSE RuleFor(c, path) IN
    IF m \in ImageModels THEN Blocked
    ELSE IF rule = None THEN BaseRoute(c, m)
    ELSE IF rule.block THEN Blocked
    ELSE EnforceAllow(IF rule.provider = None THEN BaseRoute(c, m) ELSE Rewritten(rule, m), m, rule)

-----------------------------------------------------------------------------
(* What the chain is for. *)

\* Lanes that serve m without metering it, whatever their place in the chain.
FreeFor(c, m) ==
    {p \in Providers :
       \/ p = "local" /\ m \in DOMAIN c.localMap
       \/ p = "claudecode" /\ m \in ClaudeModels
       \/ p = "groq" /\ Configured(c, p) /\ m \in c.groqModels
       \/ p = "openrouter" /\ Configured(c, p) /\ m \in c.catalogFree}

\* An operator wrote down where this call goes.
Written(c, m, path) ==
    \/ c.force # None
    \/ m \in DOMAIN c.modelRoutes
    \/ path # None /\ RuleFor(c, path) # None /\ RuleFor(c, path).provider # None
=============================================================================
