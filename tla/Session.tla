-------------------------------- MODULE Session --------------------------------
(***************************************************************************)
(* What a user types and what reaches DeepSeek: command lines are parsed   *)
(* (main.go), --doctor reports (Doctor), a launch merges configuration,    *)
(* flags and environment, gives claude its environment and starts the      *)
(* proxy or not, and claude's requests go through the proxy (Rewrite,      *)
(* Headers) or straight to DeepSeek.  How a launch holds and gives back    *)
(* its resources is Launcher.tla.                                          *)
(***************************************************************************)
EXTENDS Doctor, Headers

CONSTANTS
  Worlds,        \* where a session may take place, see SessionWorlds
  OnSpec,        \* the spec of the word --proxy-on=<spec>
  AutoSpec,      \* the spec auto
  OffSpec,       \* the spec off
  UnsetSpec,     \* no spec at all
  InternalIds,   \* claude-* ids claude uses on its own account
  Thinkings,     \* `thinking` blocks of claude's requests
  ClientHeaders  \* headers of claude's requests

\* Configurations as LoadConfig returns them: applyDefaults leaves none without a model.
SavedConfigs ==
  [model : STRING \ {NoModel}, vision : STRING, ref : BOOLEAN, unlock : BOOLEAN, otlp : BOOLEAN,
   effort : Specs, tierModel : [Tiers -> STRING], tierEffort : [Tiers -> Specs]]

\* Where a session takes place: the command lines to come, the configuration the file
\* holds or onboarding will write, CLAUDE_DS_PROXY_EFFORT, an inherited
\* CLAUDE_CODE_DISABLE_EXPERIMENTAL_BETAS, the two header lists, and the doctor's world.
SessionWorlds ==
  [script : Seq(Seq(STRING)), saved : SavedConfigs, effort : Specs, noBetas : BOOLEAN,
   strips : Seq(HeaderNames \cup {""}),
   adds : Seq([colon : BOOLEAN, name : HeaderNames \cup {""}, value : Seq(STRING)]),
   file : Files, claude : BOOLEAN, secret : Secrets, key : KeyAnswers, collector : BOOLEAN]

\* Onboarding asks for no model of a tier.
ASSUME SessionAssumption ==
  /\ {OnSpec, AutoSpec, OffSpec, UnsetSpec} \subseteq Specs
  /\ OffSpec.kind = "off" /\ UnsetSpec.kind = "unset"
  /\ Worlds \subseteq SessionWorlds
  /\ \A w \in Worlds : w.file = "missing" => w.saved.tierModel = [t \in Tiers |-> NoModel]
  /\ Thinkings \subseteq Thinking
  /\ InternalIds \subseteq ClaudeIds \ Spoofs
  /\ ClientHeaders \subseteq [HeaderNames -> Seq(Seq(STRING))]
  /\ IsFiniteSet(Plain)

VARIABLES
  world,     \* configuration file, secret store, environment, see Doctor
  typed,     \* the command lines still to come, in order
  argv,      \* the command line being served
  parsed,    \* parsedArgs
  pc,        \* "shell" or the step of runLaunch
  cfg,       \* the configuration in force
  slate,     \* the environment buildClaudeEnv makes for claude
  warned,    \* whether warnFlashDowngrade ran
  report,    \* the doctor's last report, all FALSE before there is one
  asked,     \* claude's last request
  upstream   \* what DeepSeek got of it

vars == <<world, typed, argv, parsed, pc, cfg, slate, warned, report, asked, upstream>>

launch == <<cfg, slate, warned, asked, upstream>>

-------------------------------------------------------------------------------
(* parseArgs.  Words are strings; any other word is claude's. *)

Commands == [w \in {"--doctor", "--version", "upgrade"} |->
               CASE w = "--doctor" -> "doctor" [] w = "--version" -> "print" [] OTHER -> "upgrade"]

FlagWords == {"--", "--proxy-off", "--proxy-on", "--proxy-on=spec", "--no-update-check"}

NoArgs == [cmd |-> "launch", passthrough |-> <<>>, on |-> UnsetSpec, off |-> FALSE,
           noUpdateCheck |-> FALSE, dashes |-> FALSE]

\* A word of claude-ds itself.
ReadWord(p, w) ==
  CASE w = "--"                -> [p EXCEPT !.dashes = TRUE]
    [] w \in DOMAIN Commands   -> [p EXCEPT !.cmd = Commands[w]]
    [] w = "--proxy-off"       -> [p EXCEPT !.off = TRUE]
    [] w = "--proxy-on"        -> [p EXCEPT !.on = AutoSpec]
    [] w = "--proxy-on=spec"   -> [p EXCEPT !.on = OnSpec]
    [] w = "--no-update-check" -> [p EXCEPT !.noUpdateCheck = TRUE]

OwnWords == FlagWords \cup DOMAIN Commands

\* Mutant of ParseWord: the words after -- are still read.
ParseWordAlways(p, w) ==
  IF w \notin OwnWords THEN [p EXCEPT !.passthrough = Append(@, w)] ELSE ReadWord(p, w)

ParseWord(p, w) ==
  IF p.dashes \/ w \notin OwnWords THEN [p EXCEPT !.passthrough = Append(@, w)]
  ELSE ReadWord(p, w)

ParseArgs(args) ==
  LET read[i \in 0 .. Len(args)] == IF i = 0 THEN NoArgs ELSE ParseWord(read[i - 1], args[i])
  IN  read[Len(args)]

-------------------------------------------------------------------------------
(* The configuration in force *)

\* Mutant of ApplyFlagOverrides: --proxy-off leaves the specs of the tiers alone.
ApplyFlagDefaultOnly(c, p) ==
  CASE p.off                          -> [c EXCEPT !.effort = OffSpec]
    [] ~ p.off /\ p.on # UnsetSpec    -> [c EXCEPT !.effort = p.on]
    [] OTHER                          -> c

\* applyFlagOverrides: --proxy-off turns everything off and wins over --proxy-on.
ApplyFlagOverrides(c, p) ==
  CASE p.off                          ->
         [c EXCEPT !.effort = OffSpec, !.tierEffort = [t \in Tiers |-> OffSpec]]
    [] ~ p.off /\ p.on # UnsetSpec    -> [c EXCEPT !.effort = p.on]
    [] OTHER                          -> c

\* CLAUDE_DS_PROXY_EFFORT has the last word on the default.
ApplyEnvOverride(c, w) ==
  IF w.effort = UnsetSpec THEN c ELSE [c EXCEPT !.effort = w.effort]

\* defaultShouldStart
ShouldStart(c) ==
  c.otlp \/ IsEffortActive(c.effort) \/ \E t \in Tiers : IsEffortActive(c.tierEffort[t])

-------------------------------------------------------------------------------
(* buildClaudeEnv: the model ids claude is told, where it sends its        *)
(* requests, and CLAUDE_CODE_DISABLE_EXPERIMENTAL_BETAS.                   *)

Names == Tiers \cup {"main"}

\* Mutant of TierId: a tier without a model has no id, unless it is spoofed.
TierIdUnset(c, t) ==
  IF c.tierModel[t] = NoModel /\ c.unlock THEN SpoofOf[t] ELSE c.tierModel[t]

TierId(c, t) ==
  CASE c.tierModel[t] # NoModel               -> c.tierModel[t]
    [] c.tierModel[t] = NoModel /\ c.unlock   -> SpoofOf[t]
    [] c.tierModel[t] = NoModel /\ ~ c.unlock -> c.model

\* Mutant of BuildClaudeEnv: the spoofs win over the tier models.
BuildClaudeEnvSpoofs(c) ==
  [models  |-> [n \in Names |->
                  CASE c.unlock /\ n # "main" -> SpoofOf[n]
                    [] c.unlock /\ n = "main" -> SpoofOpus
                    [] OTHER                  -> c.model],
   base    |-> "deepseek",
   noBetas |-> TRUE]

BuildClaudeEnv(c) ==
  [models  |-> [n \in Names |->
                  IF n = "main" THEN IF c.unlock THEN SpoofOpus ELSE c.model ELSE TierId(c, n)],
   base    |-> "deepseek",
   noBetas |-> TRUE]

\* envSlice: what the slate does not set is inherited.
SeesNoBetas == slate.noBetas \/ world.noBetas

-------------------------------------------------------------------------------

NoSlate == [models |-> [n \in Names |-> NoModel], base |-> "none", noBetas |-> FALSE]
NoAsk   == [name |-> "none"]

Init ==
  /\ world \in Worlds
  /\ typed = world.script
  /\ argv = <<>> /\ parsed = NoArgs
  /\ pc = "shell"
  /\ cfg = world.saved
  /\ slate = NoSlate
  /\ warned = FALSE
  /\ report = [check \in DOMAIN Report(world, world.saved) |-> FALSE]
  /\ asked = NoAsk /\ upstream = NoAsk

\* run: the command line is parsed and dispatched.  --version and its like only
\* print; upgrade is Upgrade.tla.
Invoke ==
  /\ pc = "shell" /\ typed # <<>>
  /\ argv' = Head(typed) /\ typed' = Tail(typed)
  /\ parsed' = ParseArgs(Head(typed))
  /\ pc' = CASE parsed'.cmd = "launch" -> "ensure"
             [] parsed'.cmd = "doctor" -> "doctor"
             [] OTHER                  -> "shell"
  /\ UNCHANGED <<world, launch, report>>

LoadedConfig == IF world.file = "ok" THEN world.saved ELSE Defaulted(world.saved)

\* runDoctorCmd
RunDoctor ==
  /\ pc = "doctor" /\ pc' = "shell"
  /\ report' = Report(world, LoadedConfig)
  /\ UNCHANGED <<world, typed, argv, parsed, launch>>

\* ensureConfig: a file it may not look at ends the launch; without a file, first-run
\* onboarding (Onboarding.tla) writes one or gives up.
EnsureConfig ==
  /\ pc = "ensure"
  /\ \/ world.file \in {"unloadable", "ok"} /\ pc' = "load" /\ UNCHANGED world
     \/ world.file = "hidden" /\ pc' = "failed" /\ UNCHANGED world
     \/ world.file = "missing" /\ pc' = "load" /\ world' = [world EXCEPT !.file = "ok"]
     \/ world.file = "missing" /\ pc' = "failed" /\ UNCHANGED world
  /\ UNCHANGED <<typed, argv, parsed, launch, report>>

\* LoadConfig, then the overrides.
LoadConfig ==
  /\ pc = "load"
  /\ \/ /\ world.file = "ok" /\ pc' = "resolve"
        /\ cfg' = ApplyEnvOverride(ApplyFlagOverrides(world.saved, parsed), world)
     \/ world.file = "unloadable" /\ pc' = "failed" /\ UNCHANGED cfg
  /\ UNCHANGED <<world, typed, argv, parsed, slate, warned, report, asked, upstream>>

\* api_key_ref, when there is one, must yield a key.
ResolveKey ==
  /\ pc = "resolve"
  /\ pc' = IF cfg.ref /\ world.secret # "ok" THEN "failed" ELSE "proxy"
  /\ UNCHANGED <<world, typed, argv, parsed, launch, report>>

\* Mutant of StartProxy: the betas are allowed before Start has succeeded.
StartProxyBetasFirst ==
  /\ pc = "proxy" /\ pc' = "exec"
  /\ \/ ~ ShouldStart(cfg) /\ slate' = BuildClaudeEnv(cfg) /\ UNCHANGED warned
     \/ /\ ShouldStart(cfg)
        /\ slate' = [BuildClaudeEnv(cfg) EXCEPT !.base = "proxy", !.noBetas = FALSE]
        /\ UNCHANGED warned
     \/ /\ ShouldStart(cfg)
        /\ slate' = [BuildClaudeEnv(cfg) EXCEPT !.noBetas = FALSE]
        /\ warned' = cfg.unlock
  /\ UNCHANGED <<world, typed, argv, parsed, cfg, report, asked, upstream>>

\* buildClaudeEnv, NewProxy and Start: no proxy is wanted, it serves and the slate is
\* changed for it, or it cannot be had.
StartProxy ==
  /\ pc = "proxy" /\ pc' = "exec"
  /\ \/ ~ ShouldStart(cfg) /\ slate' = BuildClaudeEnv(cfg) /\ UNCHANGED warned
     \/ /\ ShouldStart(cfg)
        /\ slate' = [BuildClaudeEnv(cfg) EXCEPT !.base = "proxy", !.noBetas = FALSE]
        /\ UNCHANGED warned
     \/ /\ ShouldStart(cfg)
        /\ slate' = BuildClaudeEnv(cfg)
        /\ warned' = cfg.unlock
  /\ UNCHANGED <<world, typed, argv, parsed, cfg, report, asked, upstream>>

\* LookPath and Start of claude, with parsed.passthrough.
Exec ==
  /\ pc = "exec"
  /\ pc' = IF world.claude THEN "claude" ELSE "failed"
  /\ UNCHANGED <<world, typed, argv, parsed, launch, report>>

-------------------------------------------------------------------------------
(* claude's requests *)

Opts == LoadHeaderOpts(world.strips, world.adds)

\* The proxy's work on a body, or none.
Forwarded(body) ==
  IF slate.base = "proxy"
  THEN RunEffort(cfg, RewriteModel(cfg, body), UpstreamModel(cfg, body.model))
  ELSE body

ForwardedHeaders(h, hasBody) ==
  IF slate.base = "proxy" THEN BuildUpstreamHeaders(h, hasBody, Opts) ELSE h

\* Bound: one request of a session is looked at, since none leaves anything behind
\* that the next one sees.
MayAsk == pc = "claude" /\ asked = NoAsk

\* claude uses the ids of the slate and some of its own, and experimental betas
\* unless its environment tells it not to.
Allowed(h) == SeesNoBetas => FilesApi \notin ToSet(Joined(h[Beta]))

Message ==
  /\ MayAsk
  /\ \E n \in Names \cup {"internal"}, th \in Thinkings, h \in ClientHeaders :
       \E m \in IF n = "internal" THEN InternalIds ELSE {slate.models[n]} :
         LET body == [json |-> TRUE, model |-> m, thinking |-> th,
                      reasoning_effort |-> "absent"]
         IN  /\ Allowed(h)
             /\ asked' = [name |-> n, body |-> body, headers |-> h]
             /\ upstream' = [name |-> n, body |-> Forwarded(body),
                             headers |-> ForwardedHeaders(h, TRUE)]
  /\ UNCHANGED <<world, typed, argv, parsed, pc, cfg, slate, warned, report>>

\* A request with no body, which the proxy passes on.
Get ==
  /\ MayAsk
  /\ \E h \in ClientHeaders :
       /\ Allowed(h)
       /\ asked' = [name |-> "get", headers |-> h]
       /\ upstream' = [name |-> "get", headers |-> ForwardedHeaders(h, FALSE)]
  /\ UNCHANGED <<world, typed, argv, parsed, pc, cfg, slate, warned, report>>

Next ==
  \/ Invoke \/ RunDoctor \/ EnsureConfig \/ LoadConfig \/ ResolveKey \/ StartProxy \/ Exec
  \/ Message \/ Get

Spec == Init /\ [][Next]_vars

-------------------------------------------------------------------------------

IsMessage == upstream # NoAsk /\ upstream.name \in Names \cup {"internal"}

\* claude gets every word that is none of the wrapper's, in order, and all words after
\* the first --, whatever they are; and none of those decides what the wrapper does.
PassthroughExact ==
  LET ends   == {i \in DOMAIN argv : argv[i] = "--"}
      end    == IF ends = {} THEN Len(argv) ELSE Min(ends) - 1
      before == SubSeq(argv, 1, end)
  IN  /\ parsed.passthrough = Without(before, OwnWords) \o SubSeq(argv, end + 2, Len(argv))
      /\ parsed.off <=> "--proxy-off" \in ToSet(before)
      /\ parsed.cmd # "launch" <=> \E w \in DOMAIN Commands : w \in ToSet(before)

\* The model of the configuration that a request by that name is to get.  With
\* unlock_auto_mode the main model and an unset small_fast have the spoof of
\* another tier, and share its model.
ModelFor(n) ==
  CASE n = "main" /\ ~ cfg.unlock -> cfg.model
    [] n = "main" /\ cfg.unlock   -> WireOf(cfg, "opus")
    [] n = "internal" -> cfg.model
    [] n = "small_fast" /\ cfg.unlock /\ cfg.tierModel[n] = NoModel -> WireOf(cfg, "haiku")
    [] OTHER -> WireOf(cfg, n)

\* Through the environment of claude and the wire-model map of the proxy, each tier
\* is served by the model the configuration gives it, spoofed or not, and a model of
\* claude's own by the main one; without a proxy, tiers without a spoof are.
TierModelHonoured ==
  IsMessage /\ (slate.base = "proxy" \/ (~ cfg.unlock /\ upstream.name # "internal")) =>
    upstream.body.model = ModelFor(upstream.name)

\* With --proxy-off, and nothing in the environment, no request has its effort
\* changed, even when the proxy serves for the sake of telemetry.
ProxyOffHolds ==
  IsMessage /\ parsed.off /\ world.effort = UnsetSpec =>
    /\ upstream.body.thinking = asked.body.thinking
    /\ upstream.body.reasoning_effort = asked.body.reasoning_effort

\* A Files API beta is asked for only of the proxy, which serves it, and never gets
\* past it.
FilesApiStaysLocal ==
  upstream # NoAsk => FilesApi \notin ToSet(Joined(upstream.headers[Beta]))

\* Fields of Anthropic-Beta and values of the other headers.
HeaderSize(h) ==
  Total([n \in HeaderNames |-> IF n = Beta THEN Len(Without(Joined(h[n]), {EmptyField}))
                               ELSE Len(h[n])])

\* What the statistics say was stripped and injected accounts for the difference
\* between what claude sent and what DeepSeek got.
HeaderCountsConserved ==
  slate.base = "proxy" /\ upstream # NoAsk /\ Beta \notin Opts.strip =>
    HeaderSize(upstream.headers) + StripCount(asked.headers, Opts)
      = HeaderSize(asked.headers) + InjectCount(upstream.name # "get", Opts)

Overridden == parsed.off \/ parsed.on # UnsetSpec \/ world.effort # UnsetSpec

\* Whether a tier with the wire id of t has the spec off, which the lint skips.
SharedWithOff(t) ==
  \E u \in Tiers : /\ cfg.tierModel[u] = cfg.tierModel[t]
                   /\ cfg.tierEffort[u].kind = "off"

\* The tiers with a model and a spec of their own that the doctor, looking at the
\* configuration the session uses, has found free of collisions.
Vouched ==
  {t \in Tiers : /\ report.lint /\ cfg.unlock /\ ~ Overridden
                 /\ cfg.tierModel[t] # NoModel /\ ~ IsProxySpecEmpty(cfg.tierEffort[t])}

\* Whether a request gets the effort that spec asks for: the one it came with if the
\* spec does not parse.
EffortFrom(spec) ==
  LET plain == [asked.body EXCEPT !.model = upstream.body.model]
  IN  upstream.body =
        IF ParseFails(spec) THEN plain
        ELSE ApplyRegime(plain, Resolver(spec)[BucketFromThinking(plain.thinking)])

\* Once the doctor has found no collision, the spec of a tier that has a model of its
\* own is the spec its requests get.
LintVouches ==
  IsMessage /\ slate.base = "proxy" /\ upstream.name \in {t \in Vouched : ~ SharedWithOff(t)} =>
    EffortFrom(cfg.tierEffort[upstream.name])

\* A launch in the world the doctor has looked at does as its report says; after seven
\* ticks it gets as far as claude.
DoctorVouches == LintVouches /\ (AllTicks(report) => pc # "failed")

-------------------------------------------------------------------------------
(* What the repository's text says of a session and its code does not do. *)

\* CHANGELOG.md: flash-downgrade warnings on every path that disables the proxy.
NoSilentDowngrade == IsMessage /\ upstream.body.model \in Spoofs => warned

\* main.go, the system prompt: unlock_auto_mode does not change which model serves.
UnlockKeepsModel ==
  IsMessage /\ slate.base = "proxy" /\ upstream.name # "internal" =>
    upstream.body.model =
      IF upstream.name = "main" THEN cfg.model ELSE WireOf(cfg, upstream.name)

\* README.md: CLAUDE_DS_PROXY_EFFORT=off skips the proxy this invocation.
EnvOffSkipsProxy == slate.base = "proxy" => world.effort # OffSpec

\* doctor.go: two tiers that share a wire id are what the lint surfaces.
LintSeesOff ==
  IsMessage /\ slate.base = "proxy" /\ upstream.name \in Vouched =>
    EffortFrom(cfg.tierEffort[upstream.name])

\* doctor.go: the second check is LoadConfig.
UnloadableIsReported == pc = "failed" /\ world.file = "unloadable" => ~ report.config

\* doctor.go: an endpoint that is down shows up in the seventh check.
TickMeansReachable ==
  [][RunDoctor /\ LoadedConfig.otlp /\ report'.otlp => world.collector]_vars
===============================================================================
