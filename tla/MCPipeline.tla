----------------------------- MODULE MCPipeline -----------------------------
EXTENDS Pipeline

CONSTANTS t1, t2

App == <<"app", None>>
Job == <<"app", "job">>
Dev == <<"dev", None>>
MCPaths == {App, Job, Dev}

NoRules == [p \in {} |-> None]
Rule(block, provider, model, providers, models) ==
    [block |-> block, provider |-> provider, model |-> model,
     allowProviders |-> providers, allowModels |-> models]

\* Keyed and open: a key is asked for where one is required, and nothing else is.
Base == [authMode |-> "optional", requireProject |-> FALSE, requireRegistered |-> FALSE,
         kind |-> [n \in {"app", "dev"} |-> n],
         allowUa |-> [n \in {"app", "dev"} |-> IF n = "dev" THEN {"cli"} ELSE {}],
         keyOf |-> [k \in {"ka", "kd"} |-> IF k = "ka" THEN "app" ELSE "dev"],
         aliases |-> [n \in {"old"} |-> Job],
         gated |-> {}, jsonEnforce |-> FALSE,
         limits |-> NoRules, limitDefault |-> None,
         rules |-> NoRules, force |-> None, default |-> None,
         modelRoutes |-> NoRules, localMap |-> [m \in {"tiny"} |-> "qwen"],
         keys |-> {}, groqModels |-> {}, openrouterModels |-> {}, freeaiapikeyModels |-> {},
         catalogFree |-> {}, catalogPaid |-> {}, freeOnly |-> TRUE,
         cloudPolicy |-> "off", cloudAllowlist |-> {}]

Cap(n, hard) == [cap |-> n, slowAt |-> n, warnAt |-> n, hard |-> hard]

\* Two caps: one on the whole app, one on its job alone.
Capped2 == [Base EXCEPT !.limits = [p \in {App} |-> [Cap(2, "block") EXCEPT !.slowAt = 1]]]
JobCap == [Base EXCEPT !.limits = [p \in {App, Job} |-> IF p = App THEN Cap(0, "block") ELSE Cap(1, "slow")],
                       !.limitDefault = Cap(1, "block")]

\* The app may use what is free and small; its key is gone; keys are required.
Narrow == [Base EXCEPT !.rules = [p \in {App} |-> Rule(FALSE, None, None, {"local"}, {"qwen"})]]
Pinned == [Base EXCEPT !.rules = [p \in {App, Job} |->
                IF p = App THEN Rule(FALSE, "claudecode", "claude", {}, {}) ELSE Rule(TRUE, None, None, {}, {})],
                !.jsonEnforce = TRUE]
Revoked == [Base EXCEPT !.authMode = "required", !.requireRegistered = TRUE,
                        !.keyOf = [k \in {"kd"} |-> "dev"], !.gated = {"qwen"}]
Off == [Base EXCEPT !.authMode = "off", !.requireProject = TRUE, !.requireRegistered = TRUE]

\* Every way an id is claimed, under none or one of the four things that stand above the
\* chain.  A configuration is named by a tuple.
Key(k) == CASE k = 0 -> {} [] k = 1 -> {"groq", "freeaiapikey"} [] k = 2 -> {"openrouter", "freeaiapikey"}
OssIf(b) == IF b THEN {"oss"} ELSE {}
List(ix) == [Base EXCEPT !.keys = Key(ix[1]), !.groqModels = OssIf(ix[2]), !.openrouterModels = OssIf(ix[3]),
                         !.freeaiapikeyModels = {"oss"},
                         !.catalogFree = OssIf(ix[4]), !.catalogPaid = OssIf(~ix[4]), !.freeOnly = ix[5],
                         !.cloudPolicy = ix[6], !.cloudAllowlist = {"gpt"}]
Above(ix) ==
    LET c == List(ix) IN
    CASE ix[7] = 0 -> c
      [] ix[7] = 1 -> [c EXCEPT !.force = [provider |-> "crazyrouter", model |-> "gpt"]]
      [] ix[7] = 2 -> [c EXCEPT !.modelRoutes = [m \in {"oss", "tiny"} |-> [provider |-> "local", model |-> "qwen"]],
                                !.default = [provider |-> "claudecode", model |-> "claude"]]
      [] ix[7] = 3 -> [c EXCEPT !.rules = [p \in {App} |-> Rule(FALSE, None, None, {"groq", "local"}, {})]]
      [] ix[7] = 4 -> [c EXCEPT !.rules = [p \in {App, Job} |-> Rule(FALSE, None, None, {}, {"claude", "oss"})],
                                !.default = [provider |-> "local", model |-> "qwen"]]
Chains == (0..2) \X BOOLEAN \X BOOLEAN \X BOOLEAN \X BOOLEAN \X {"open", "allowlist", "off"} \X (0..4)

base == <<"base">>
capped == <<"capped">>
jobcap == <<"jobcap">>
narrow == <<"narrow">>
pinned == <<"pinned">>
revoked == <<"revoked">>
off == <<"off">>
Edited == {base, capped, jobcap, narrow, pinned, revoked, off}
MCConfigs == [n \in Edited \cup Chains |->
                CASE n = base -> Base [] n = capped -> Capped2 [] n = jobcap -> JobCap
                  [] n = narrow -> Narrow [] n = pinned -> Pinned
                  [] n = revoked -> Revoked [] n = off -> Off [] OTHER -> Above(n)]

Rq(post, key, claims, model) ==
    [post |-> post, key |-> key, claims |-> claims, job |-> None, model |-> model, json |-> FALSE,
     ua |-> "node", bearer |-> FALSE]

Bare1 == Rq(TRUE, "ka", None, "tiny")
JobCall == [Bare1 EXCEPT !.job = "job"]

MCPlays ==
    <<[configs |-> {capped}, saves |-> 0, flips |-> FALSE, tasks |-> {t1, t2}, quiet |-> FALSE,
      menu |-> {Bare1, JobCall}],
     [configs |-> {capped, jobcap}, saves |-> 1, flips |-> FALSE, tasks |-> {t1}, quiet |-> FALSE,
      menu |-> {JobCall, Rq(TRUE, None, <<"old", None>>, "tiny"), Rq(TRUE, "kd", None, "tiny")}],
     [configs |-> {base, narrow, pinned, revoked, off}, saves |-> 2, flips |-> FALSE, tasks |-> {t1}, quiet |-> TRUE,
      menu |-> {Bare1, [JobCall EXCEPT !.model = "claude", !.json = TRUE],
                Rq(TRUE, "bad", App, "tiny"), Rq(TRUE, None, Job, "tiny"), Rq(TRUE, None, None, "claude"),
                [Rq(TRUE, "kd", App, "claude") EXCEPT !.ua = "cli"], Rq(TRUE, "kd", App, "claude"),
                Rq(TRUE, None, <<"typo", None>>, "tiny"),
                Rq(FALSE, None, None, None)}],
     [configs |-> {base, pinned}, saves |-> 1, flips |-> TRUE, tasks |-> {t1}, quiet |-> TRUE,
      menu |-> {[Bare1 EXCEPT !.model = "claude"], [Bare1 EXCEPT !.model = "claude", !.json = TRUE]}],
     [configs |-> Chains, saves |-> 0, flips |-> FALSE, tasks |-> {t1}, quiet |-> TRUE,
      menu |-> {Rq(TRUE, None, p, m) : p \in {App, Job}, m \in {"oss", "gpt", "claude", "tiny", "imagegen"}}]>>
=============================================================================
