# claude-ds in TLA+

claude-ds starts Claude Code against a DeepSeek-compatible service. It loads a
configuration file, starts a loopback HTTP proxy that rewrites requests, runs
`claude` as a child process, forwards signals to it and cleans up when it exits;
it also updates its own binary. This directory models the Go program (the files
`*.go` at the root of the repository) in TLA+, checks the models with TLC on
small instances and proves theorems about them with TLAPS.

## 1. Inventory

| Part | Source | State | Operations | Interacts with |
|---|---|---|---|---|
| Effort specifications | `spec.go` | none | parse a spec, bucket a thinking block, apply a regime | rewriting |
| Request rewriting | `rewrite.go` | none (reads the configuration and the file cache) | model mapping, tier effort lookup, file substitution | proxy, file cache |
| Vision routing | `vision.go` | none | move images to the last user turn, drop tool machinery, choose the vision model | proxy |
| File cache | `files.go` | map id -> file, gauge of entries | upload, lookup | proxy handlers, concurrently |
| Proxy server | `proxy.go` | listener, server, one connection per request | start, shut down, three handlers, relay of the upstream response | launcher, claude, upstream service |
| Headers | `headers.go` | none | filter the headers of a request, drop, add and count | configuration, proxy |
| Configuration store | `config.go` | the file and its backups | load, validate, repair, migrate, write | launcher, onboarding, other processes |
| Onboarding | `onboarding.go` | keychain entry, the file | first run, `--setup`, `--rotate-key` | configuration, secrets |
| Secret resolution | `secretref.go` | none of its own (external stores) | resolve and store a secret | onboarding, launcher |
| Launcher | `main.go` | the deferred calls it owes, the child, the signal channel | one launch from configuration to exit | everything |
| tmux branding | `branding.go` | the tmux options it saved | apply, restore | launcher |
| Update check and self-update | `update.go` | the installed binary, `.old`, the cache of the last check | startup check, `upgrade` | launcher, other sessions |
| OTLP providers | `otel.go` | three exporters | set up, shut down | launcher, proxy |
| Doctor | `doctor.go` | none | check configuration, secret, key, proxy, collector and claude | configuration, secrets, proxy |
| Shell launcher, Python proxy, installer | `claude-ds`, `claude-ds-proxy.py`, `install.sh` | | replaced by the Go program, or a linear script | |

What is hard here, and what makes each part correct:

* **Pipeline** (effort, rewriting, vision). Three passes over one body that read
  each other's results. Correct when no image and no text is lost, a routed
  request looks as the vision backend needs it, and what goes upstream is coherent
  for every configuration.
* **File cache.** Handlers run concurrently, and the cache dies with the process
  while conversations are resumed. Correct when an id claude was given means the
  file claude uploaded for as long as the process lives.
* **Streaming.** Client, upstream service and shutdown can each end a response at
  every point. Correct when a response that looks complete is complete, errors are
  attributed to whom they belong, a status line is written once, and every handler
  ends.
* **Configuration.** A hand-edited file is read by four passes with rules of their
  own, written without a temporary file, and shared by processes without a lock.
  Correct when nothing the user wrote is lost or silently changed.
* **Launch.** Deferred calls, a signal goroutine and an update goroutine that may
  end the process run beside a child that needs the proxy. Correct when a launch
  that returns has cleaned up and claude never finds its proxy gone.
* **Self-update.** Several files are replaced one after the other, a step may
  fail and the process may die. Correct when a working binary is always on disk and
  nothing unchecked is installed.
* **Onboarding.** A key goes to the keychain, a reference to the file, and the user
  or a failure may end the command between the two. Correct when what is saved can be
  used by the next launch, and an entered key is the one that is used.
* **Session.** The command line, the configuration and the environment decide
  together what claude is told and what the proxy does, and the doctor predicts it.
  Correct when each tier gets its model and its effort, a switch that is off is off,
  and a report without complaints means a launch that works.
* **Branding.** Each tmux command is a process, and several launches decorate one
  window. Correct when the window is marked while they run and looks as before after.

`PROJECT.json` lists the hazards one by one with their lines in the source.

## 2. Modules

| Module | Models | State and actions |
|---|---|---|
| `EffortSpec` | `spec.go` | operators: `Resolver` (ParseSpec), `BucketFromThinking`, `ApplyRegime` |
| `Rewrite` (extends it) | `rewrite.go`, `runEffort` of `proxy.go` | operators: `UpstreamModel`, `EffortSpecForModel`, `ResolveFiles`, `RewriteModel`, `RunEffort` |
| `Vision` (extends it, and `Sums`) | `vision.go` | operators: `ImagesCollected`, `UserBlock`, `AssistantBlock`, `RouteVision` |
| `Sums` | the counters that loops add up | operator `Total`: the sum of a function's values |
| `MessagesPipeline` | `messagesHandler`'s passes | one body through `RunRewrite`, `RunVision`, `RunEffortStep` |
| `Proxy` (extends `Vision`) | `proxy.go`, `files.go` | processes, file cache, connections, upstream service; one action per stretch of handler code |
| `ConfigStore` | `config.go`, the edits of `onboarding.go` | the file, its backups, commands as processes; one action per file operation |
| `FileStore`, `Relay` | what `files.go` and `streamLoop` promise | abstract specifications, implemented by `Proxy` |
| `Onboarding` | `onboarding.go`, `secretref.go`, `ensureConfig` | keychain, configuration and one command at a time; one action per question, write or store |
| `Headers` (extends `Sums`) | `headers.go` | operators: `LoadHeaderOpts`, `BuildUpstreamHeaders` and the counts |
| `Doctor` (extends `Rewrite`) | `doctor.go` | operators: `Report` and the checks it is made of |
| `Session` (extends `Doctor`, `Headers`) | `main.go`: `parseArgs`, `applyFlagOverrides`, `buildClaudeEnv`, the steps of `runLaunch` | command lines, the configuration in force, claude's environment, one request of claude |
| `Launcher` | `main.go`, `otel.go`, the update goroutine | one launch, its deferred calls in order, signals, claude, the exporters |
| `Branding` | `branding.go` | a tmux window, the launches in its panes; one action per tmux command |
| `Semver` | `cmpSemver` of `update.go`; the precedence of semantic versioning, as its reference | operators: `SplitSemver`, `Below`, `SemverBelow` |
| `Upgrade` (extends it) | `update.go` | the binary, `.old`, the cache of the last check, the clock, processes that launch or upgrade |
| `Requests_proofs` | | theorems about `MessagesPipeline` and `Session` |
| `Vision_proofs`, `Proxy_proofs`, `ConfigStore_proofs`, `Onboarding_proofs`, `Upgrade_proofs`, `Launcher_proofs`, `Branding_proofs` | | theorems about the module they name; those of `Vision_proofs` are the lemmas that `Requests_proofs` and `Proxy_proofs` rest on |
| `MCPipeline`, `MCProxy`, `MCConfig`, `MCOnboarding`, `MCSession`, `MCUpgrade`, `MCBranding` | | instances: configurations, bodies, files, worlds, versions |

`MessagesPipeline` and `Proxy` use the same operators: the first explores many
bodies and configurations one at a time, the second runs the operators inside
concurrent handlers. `Session` composes `Rewrite` with `Headers` behind the environment
that claude gets, so a request in it is the way from a word of the command line to the
service. A launch is looked at from two sides: `Launcher` has its goroutines, deferred
calls and signals and knows of the proxy only whether it serves, `Session` has the
values it computes. In the same way the first run and its relatives are two modules,
`Onboarding` for what they ask and keep and `ConfigStore` for the bytes of the file
they share with other processes. `PROJECT.json` maps every definition to its lines.

Definitions whose comment begins with "Mutant of" are plausible bugs. Each
property is broken by one of them, which shows that the property depends on the
code it is about.

### Choices of abstraction

* **Granularity.** In `Proxy` an action is what a handler does between two points
  where another goroutine, the client or the upstream service can be seen: a lock
  of the file cache, a read or write of a connection, a look at the request
  context. In `ConfigStore` it is one read, one truncating open or one write. In
  `Upgrade` a copy is one step, for `copyFileMode` renames a temporary file.
* **Bodies** are records of the fields the passes look at. A text is a value that
  is never looked into, a file's content likewise. Labels made from tool calls are
  the name of the tool.
* **Status.** 200 stands for whatever status the upstream service sends; 502, 400
  and 500 are the proxy's own, also when an id cannot be made (`MintFails`) or a request
  not be built (`DispatchFails`).
* **Handlers in `Launcher`** are one flag, `streaming`: whether any is at work. What
  each of them does is `Proxy`.
* **Configuration files** are sequences of lines. The keys stand for kinds of treatment:
  the schema number, a plain string, one with a default, a boolean that is coerced, an
  effort, one the environment overrides, and a key of a future release. The integers and
  the comma-separated lists of `config.go` have no key. `Values` are what a line may
  hold; a file may be of any length.
* **I/O errors** of a configuration write end the command at the places where a
  crash does and leave the same disk, so `Crash` stands for both.
* **Commands of `Onboarding`** run one after the other, for each holds the terminal.
  `Abort` is whatever ends one early. A key is valid or not at the service, and the
  probe may also fail to find out.
* **Headers** are a function from names to lists of values; `Anthropic-Beta` is a list of
  lists of fields. Letter case, and spaces around commas, are abstracted.
* **The tmux window** has a name (so many whales before a text), `automatic-rename` and
  the border options that have our value. A tmux command succeeds, or fails and is
  passed over.
* **Versions** are their numbers, and of what follows `-` or `+` its place in the order
  of strings, which `cmpSemver` goes by, and its identifiers, which semantic versioning
  does.
* **Numbers.** A thinking budget that does not fit an `int` becomes `HugeBudget`, a
  constant: Go leaves the result of the conversion to the implementation.

## 3. Checks

`tlc -config <run>.cfg <module>` runs one. Deadlock is not checked, for every
system here stops: a client sends a bounded number of requests, programs end.

| Run | Module | Instance | Distinct states |
|---|---|---|---|
| `pipeline` | `MCPipeline` | 311 conversations of up to four turns with and without a vision model; 640 effort configurations with 112 bodies | 289 216 |
| `proxy_files` | `MCProxy` | 3 requests, 2 file ids, 2 contents, 2 processes, up to dispatch | 372 015 |
| `proxy_stream` | `MCProxy` | 2 requests, 1 process, 2 chunks | 1 099 751 |
| `proxy_live` | `MCProxy` | 1 request, 2 processes, 2 chunks, with fairness | 8 757 |
| `config_load` | `MCConfig` | every file of up to 3 lines out of 11, a launch, `--rotate-key` or `--setup` with crashes, 2 commands | 1 196 778 |
| `onboarding` | `MCOnboarding` | 2 accounts, 1 remote reference, 2 keys, 2 specs of which 1 parses, 3 commands | 3 084 275 |
| `session` | `MCSession` | four families of worlds: command lines of up to 3 words, 1 536 configurations, every answer to the doctor's checks, header lists | 304 360 |
| `launcher` | `Launcher` | every input, 2 signals, 3 exporters, with fairness | 543 854 |
| `branding` | `MCBranding` | 2 launches in a window of up to 2 panes, 2 names, 1 failure | 1 788 228 |
| `upgrade` | `MCUpgrade` | 1 process at a time, 4 versions, 3 starts, 3 hours with an interval of 2 | 772 392 |

What they show:

* **`pipeline`.** `ContentConserved`: a routed body has all images of the conversation,
  in order, at the head of the last user turn and nowhere else; each text block of a
  user turn is one of that turn's blocks afterwards, equal texts as often as before and
  all in their order (`TextConserved` asks for an injection that keeps the order); and
  the pass that decides about routing counts what the other collects. `NoToolMachinery`:
  it has no trace of tools. `EffortCoherent`: it keeps its thinking block, and no
  combination of spec and request yields a contradictory effort elsewhere.
  `ShadowedTiersAreDead`: tiers with one wire id are decided in the documented order.
* **`proxy_files`.** `GaugeExact` and `SubstitutionFaithful` under every interleaving of
  uploads, lookups, restarts and crashes. `ImplementsFileStore`: the cache with its
  concurrent handlers is a `FileStore`, in which an upload gets a new id that means it
  until the process ends.
* **`proxy_stream`.** `NoFalseDisconnect`: who left is counted as having left, nobody
  else. `StatusWrittenOnce`, also after late errors. `DrainLosesNothing`: a shutdown
  that returns in time has answered everything it accepted.
* **`proxy_live`.** `HandlersTerminate`, and `ImplementsRelay`: a response is relayed
  chunk by chunk, and called complete only when it is, also when the last chunk and the
  end come in one `Read`.
* **`config_load`.** `LoadFaithful`: through repair, migration and parsing the last
  line of a key decides. `OriginalOnDisk`: the file a command found is on disk until
  its load is done. `LeavesCleanFile`, `EditKeepsSettings`, `NewerSchemaUntouched`.
* **`onboarding`.** `SavedConfigUsable`: wherever commands were cut off, the file refers
  to a key that is there and has an effort that parses. `EnteredKeyTakesEffect`: the key
  entered last is the one the reference stands for. `LaunchVetted`: claude starts with a
  key the service accepts, or the user was warned, or has replaced it since.
* **`session`.** `PassthroughExact`: claude gets its words in order, whatever they are
  after `--`. `TierModelHonoured`: through claude's environment, the spoofed ids and the
  rewriting each tier is served by its model, and claude's own ids by the main one.
  `ProxyOffHolds`, `FilesApiStaysLocal`. `HeaderCountsConserved`: the counts account for
  every value. `DoctorVouches`: a table of tiers without collisions is the one requests
  meet, and after seven ticks the launch that follows reaches claude.
* **`launcher`.** `ReturnCleansUp`, `ProxyOutlivesClaude`, and `DrainAfterProxy`: an
  exporter is drained when no handler of the proxy is at work, or when `Shutdown` has
  given up on those that are, which leaves the proxy `"abandoned"`, for the launch
  ignores its error. Under fairness `SignalsReachClaude`: a signal in the channel makes
  claude get one more than it had, the first as well as any later one; signals that come
  while one is there are one with it. And `LaunchEnds`.
* **`branding`.** `OneWhale` under every interleaving and failure; `MarkedWhileRunning`
  and `RestoredInOrder` for launches that come and go one inside the other.
* **`upgrade`.** `InstalledVerified`: the installed binary matched its checksum.
  `InstallSurvives`: at every point, also after a crash, a build that works is on disk,
  and a failed upgrade has put back what it started from. `UpdatesGoUp`: over
  all updates, rollbacks and crashes no version that has run is above the installed one
  by the precedence of semantic versioning, which `Semver` states by its section 11,
  as long as the two differ in their numbers or are a release and a candidate of it
  (`PlainlyOrdered`). For two candidates of one release it does not hold (section 4).
  `QuietForInterval`: the startup check asks once per interval.

`TypeOK` of `ConfigStore` is one of the properties of `config_load`, for there a value
read from a file may be of the wrong kind. The types of `Proxy`, `Launcher`, `Upgrade`,
`Onboarding` and `Branding` are only proved.

### Bounds, and why they are enough

* Three requests let an upload, a second upload and a lookup overlap, which is all
  the file cache relates; two processes give one restart. The constraint
  `UntilDispatch` cuts `proxy_files` off where a request is sent, after which no
  step touches the cache, and passthrough requests, which never do.
* `proxy_stream` has no restart: a handler dies with its process, and no property of
  the run speaks of two processes. Two chunks are the smallest stream with a
  middle, where a disconnect or a failure can fall.
* Requests, ids and contents are interchangeable: no definition names one. The runs
  with temporal properties about a single step use the symmetry of requests; the run
  with fairness uses none.
* Three lines are enough for a repeated key around another line, a repeated schema
  line and one line of garbage among good ones. Two commands are a command and what
  the next one finds.
* Four versions and three starts let an upgrade fail, be repeated and be followed by
  another; those of `MCUpgrade` are two releases and two candidates of the second, whose
  order is not that of their strings. Three hours of clock and an interval of two give
  an answer, a time when it still counts and one when it does not.
* Two accounts, a remote reference and two keys let a rotation change the key, the
  account, or the kind of reference; three commands are a first run, a change, and the
  launch that meets its result. No definition names a key, so keys are interchangeable.
* `session` joins four families, each wide in one respect: all command lines of up to
  two words and those of three with `--` in them; the tiers' models and efforts with
  every kind of sharing; every answer the doctor can get; header lists with an empty
  entry, a repeated one and a hop-by-hop one. No definition relates two of these
  respects but through the configuration, which all of them have.
* Two launches in two panes come and go one inside the other or crosswise. With one
  fault each tmux command of each launch fails in some behaviour, and each point of a
  launch is one where it is killed.

### Fairness

* Weak fairness of each handler: the Go scheduler runs what can run. A client reads
  the response it asked for or leaves; claude is the only client, on the same
  machine, and the server has no time-out for a client that does neither.
* Weak fairness of "answers or refuses" and "ends or breaks": `upstreamTimeout` ends
  a request after 600 seconds, which is one of the ways to refuse or break. Nothing
  makes the upstream service answer well, or send.
* In `Launcher` weak fairness of the main goroutine and of the one that forwards
  signals: each deferred call has a limit of its own. Nothing makes claude exit, the
  user answer the prompt, or a handler of the proxy return.
* The other specifications have safety properties only and state no fairness.

## 4. Known disagreements

Two runs check what the repository's text says and end in a counterexample:

| Run | Property | The code |
|---|---|---|
| `finding_flash_downgrade` | `NoSilentDowngrade` | with `unlock_auto_mode` and no effort configured `NewProxy` returns nothing and no error, so claude sends spoofed model names to the service and nobody is warned (`main.go:389`; `CHANGELOG.md:35` has a warning on every such path) |
| `finding_rotation_lost` | `RotationSticks` | a launch that reads the file between the truncation and the write of a rotation migrates the empty file and overwrites the rotated one (`config.go:876`) |

The modules state more of what the text says in their last section. Each of the
following is violated too: putting its name in the place of the properties of the
configuration named, with the changes in brackets, shows the behaviour.

| Property | Configuration | The text, and the code |
|---|---|---|
| `TierEffortHonoured` | `pipeline` | `README.md:317` and `:532`: `proxy_effort_opus` applies to the opus tier; without `model_opus` it does nothing (`rewrite.go:196` keys its map by the tier's own model) |
| `PlaceholderForEveryImage` | `pipeline` | `vision.go:38` replaces every image of an earlier turn by a placeholder; a `tool_result` gets one at most (`vision.go:228`) |
| `TierOffFallsToDefault` | `pipeline` | `rewrite.go:169`: a per-tier `off` leaves the global default; `rewrite.go:181` overrides it with nothing |
| `MatrixOffRemovesBucket` | `pipeline` | `spec.go:163`: `off` removes the bucket; the code skips the clause |
| `EveryFileBlockInlined` | `pipeline` | `rewrite.go:335` walks every content block; nested ones are not visited (`rewrite.go:360`) |
| `UltraThinkIsMax` | `pipeline` | `spec.go:200`: a budget of 31 000 or more is of the bucket max; one that does not fit an `int` becomes whatever the conversion makes of it (`spec.go:250`) |
| `ModelUpstreamIsSent` | `pipeline` | `proxy.go:129`: the model after vision routing; it is the one before (`proxy.go:613`) |
| `DisconnectCounted` | `proxy_stream` | the observability document counts a client that leaves mid-stream; one that leaves while a read from upstream blocks shows up as a read error and is not counted (`proxy.go:1058`) |
| `UnreachableMeansUpstream` | `proxy_stream` | `upstream.unreachable` is logged for a client that left before the headers too (`proxy.go:970`) |
| `MissMeansNeverMinted` | `proxy_files` | `files.go:221`: a miss is an id never minted; an id of an earlier process misses as well |
| `RepairIdempotent` | `config_load` | `config.go:289`: a repair is idempotent; a known key without a value survives it and damages the file again |
| `RerunSafe` | `config_load` [`Cmds = {"launch"}`, `Stamps = {"s1"}`] | `config.go:400`: re-running is safe; a crash between truncation and write, and a new launch, overwrite the only backup (`config.go:876`) |
| `EnvNeverOnDisk` | `config_load` [`EnvHeaders = "secret"`, `Files <- CleanFiles`, `MaxRuns = 1`] | `config.go:27`: values of the environment never reach the disk; `--rotate-key` writes back a configuration they are merged into (`onboarding.go:185`) |
| `LatePromptIsLost` | `launcher` | `update.go:85`: a prompt that misses its window is lost; answered after claude has started it upgrades and exits under the session (`update.go:117`) |
| `FlagsWin` | `launcher` | `main.go:344`: flags win over the environment; `main.go:348` applies the environment last |
| `WarnedWhenUnproxied` | `launcher` | `main.go:20`: the downgrade is warned about; not when `NewProxy` decides not to start (`main.go:389`) |
| `BrandingRestored` | `launcher` | `branding.go:63`: restored by a deferred call; `os.Exit` skips it |
| `FailedUpdateProceeds` | `launcher` | `update.go:66`: the launch proceeds on failure; `update.go:117` exits |
| `NoDrainStarved` | `launcher` | `otel.go:72`: a slow exporter does not starve another's drain; all three share one second (`otel.go:165`) |
| `FailedUpgradesKeepInstall` | `upgrade` [`Procs = {p1, p2}`] | the design document restores the old binary after a failed smoke test; two sessions share one `.old` (`update.go:376`) |
| `CandidatesGoUp` | `upgrade` | `update.go:13`: a strict semver comparison; two candidates are compared as strings (`update.go:150`), so rc.10 gives way to rc.2, and build metadata counts as a prerelease (`update.go:165`) |
| `SetupKeepsRef` | `onboarding` | `onboarding.go:110`: `--setup` reuses the reference; its flow asks for one anew |
| `RotationAsksForKey` | `onboarding` | `README.md:403`, `docs/claude-ds.md:51`: rotation asks for the new key of the same account; with an entry there it does not |
| `ExistingEntryReused` | `onboarding` | `onboarding.go:363`: an existing entry is reused; the lookup that fails for another reason leads to a prompt and a replacement |
| `UnlockKeepsModel` | `session` | the system prompt at `main.go:645`, `README.md:354`: the spoofed names do not change which model serves; an unset `model_small_fast` and the main model get another tier's model |
| `EnvOffSkipsProxy` | `session` | `README.md:512`, `:632`: `CLAUDE_DS_PROXY_EFFORT=off` skips the proxy; the tiers' efforts and telemetry still start it |
| `LintSeesOff` | `session` | `doctor.go:411`: tiers that share a wire id are surfaced; a tier with `off` is skipped, and still overrides the others |
| `UnloadableIsReported` | `session` | `doctor.go:10`: the second check is `LoadConfig`; defaults stand in for a file that does not load |
| `TickMeansReachable` | `session` | `doctor.go:511`: an endpoint that is down makes the probe fail; with no span to send, none is asked (`doctor.go:531`) |
| `WhaleGoes` | `branding` | `docs/claude-ds.md:101`: the name is restored on exit; the launch that came second restores the name it found, with the whale |
| `BadgeGoes` | `branding` | `branding.go:156`: in a window of one pane the border goes with the pane; the options are the window's, which may get another pane |
| `BadgeWhileRunning` | `branding` | `README.md:603`: the pane of a launch has the border; a sibling that ends takes it away |

Two more are a matter of words: `README.md:336` says collisions are linted on launch, and
only `--doctor` does; `update.go:66` says the cache is updated on any failure, and it is
when the service refuses only, not when it cannot be reached.

## 5. Proofs

They hold for every value of the constants, under the assumptions the modules name:
bounds are numbers, "no value" is no value, a file that is missing is no content, a body
names ids a proxy can mint and has the shape of a conversation (`tool_use` in assistant
turns, `tool_result` in user turns and not inside another). TLC evaluates these in each
run. A theorem that needs more has it as a hypothesis, which the table names.

| Module | Theorem | Says |
|---|---|---|
| `Proxy_proofs` | `TypeCorrect`, `KnownIdsAlwaysResolve`, `MissesOnlyAfterRestart` | `Spec => []` of `TypeOK`, `KnownIdsResolve`, `MissOnlyAfterRestart` |
| `Proxy_proofs` | `SubstitutionsAreFaithful` | `Spec => []SubstitutionFaithful` |
| `Proxy_proofs` | `FileStoreImplemented`, `GaugeIsExact` | `Spec => ImplementsFileStore`, `Spec => []GaugeExact` |
| `Proxy_proofs` | `DisconnectsAreReal`, `StatusIsFinal`, `DrainIsLossless` | `Spec => []NoFalseDisconnect`; `Spec => StatusWrittenOnce`, `Spec => DrainLosesNothing` |
| `Proxy_proofs` | `RelayImplemented` | `Spec => ImplementsRelay` |
| `Requests_proofs` | `VisionSeesNoTools`, `EffortStaysCoherent`, `ShadowedSpecsAreDead`, `ContentSurvives` | `PipelineSpec => []` of `NoToolMachinery`, `EffortCoherent`, `ShadowedTiersAreDead`, `ContentConserved` |
| `Requests_proofs` | `ArgumentsReachClaude`, `ProxyOffIsOff` | `Spec => []` of `PassthroughExact`, `ProxyOffHolds` |
| `Requests_proofs` | `TiersGetTheirModel`, `DoctorKeepsItsWord` | `Spec => []` of `TierModelHonoured`, `DoctorVouches`, where no model of the configuration is a `claude-*` id (`NoClaudeModels`) |
| `Requests_proofs` | `FilesApiIsKept` | `Spec => []FilesApiStaysLocal`, where the user adds no Files API field (`NoAddedFilesApi`) |
| `Requests_proofs` | `HeadersAreCounted` | `Spec => []HeaderCountsConserved`, where each `Anthropic-Beta` entry the user adds is one field (`AddsOneField`) |
| `ConfigStore_proofs` | `TypeCorrect` | `Spec => []TypeOK`, for any number of processes |
| `ConfigStore_proofs` | `OriginalIsKept`, `CleanFileIsLeft`, `EditsKeepSettings`, `NewerIsUntouched` | `Spec => []` of `OriginalOnDisk`, `LeavesCleanFile`, `EditKeepsSettings`; `Spec => NewerSchemaUntouched`, for one process |
| `ConfigStore_proofs` | `LoadsAreFaithful` | `Spec => []LoadFaithful`, for one process and no headers in its environment |
| `Onboarding_proofs` | `SavedConfigStaysUsable`, `EnteredKeyCounts`, `LaunchesAreVetted` | `Spec => []` of `SavedConfigUsable`, `EnteredKeyTakesEffect`, `LaunchVetted` |
| `Launcher_proofs` | `TypeCorrect`, `ReturnsClean`, `ProxyOutlives`, `DrainedLast` | `Spec => []` of `TypeOK`, `ReturnCleansUp`, `ProxyOutlivesClaude`; `Spec => DrainAfterProxy` |
| `Branding_proofs` | `NeverTwoWhales`, `MarkedAsLongAsOneRuns`, `LeftAsFound` | `Spec => []` of `OneWhale`, `MarkedWhileRunning`, `RestoredInOrder` |
| `Upgrade_proofs` | `TypeCorrect`, `InstalledIsVerified` | `Spec => []` of `TypeOK`, `InstalledVerified`, for any number of processes |
| `Upgrade_proofs` | `InstallKept`, `QuietKept` | `Spec => []InstallSurvives`, `Spec => QuietForInterval`, for one process |
| `Upgrade_proofs` | `CmpSemverOrders` | `Below` is irreflexive and transitive on all versions |
| `Upgrade_proofs` | `UpdatesNeverGoBack` | `Spec => []UpdatesGoUp`, for one process and tags of the type of `Semver` (`TagsTyped`) |

*Types of `Proxy`.* `TypeOK` is not inductive: a lookup takes the first reference its
handler still has to visit and reads the body there, so it has to be a place of the body
that names an id. `TypeInv` adds `PendingRefs`, which says so; it holds while
earlier references are replaced, because replacing one changes no other. That a
nonempty set of places has a first one (`FirstRefIn`) rests on `NatMin`, which is
proved from the well-foundedness of finite subsets.

*Files.* That a known id resolves is not inductive: an upload that has been stored
and not answered may share nothing with another one, ids that are not told yet are
in the cache, a handler of an earlier process must not reply any more. `FilesInv`
has one conjunct for each: `OwnProcess` (a handler that runs belongs to the running
process), `ToldIds` (what claude knows was minted, by a process that has started),
`UnpublishedIds` (an id stored and not told is in the cache with its upload, and of
one handler only), `KnownIdsResolve`, `KnownRefs` (a body in work names known ids
only, for claude cannot send others), and `MissedIds` (what missed was told by an
earlier process). The proof has one step per action, and lemmas for those that
touch no file.

*What is inlined.* `SubstInv` adds two conjuncts. `CacheAgrees`: an id is minted once,
so what the cache has under it is what claude knows it by, after any restart too.
`FaithfulBody`: the blocks of a body in work are built from the ids claude referred to
and the data that claude sent inline or had uploaded under them; this is a type, and
`Vision_proofs` shows of each operator of the pipeline that it keeps it (`RoutedIsPlain`
for vision routing). That no data comes in on the way to the service is then a matter of
what such a body can hold (`InlineIn`).

*The pipeline.* `PipeInv` makes the body of each stage a function of the inputs, so the
properties become facts about operators. `NoToolMachinery` follows block by block from
what `UserBlock` and `AssistantBlock` leave, `EffortCoherent` from the cases of
`ApplyRegime`. For `ShadowedTiersAreDead` the choice among tiers with one wire id is
shown not to look at the value of a tier another one comes after.

`ContentConserved` is about order and number. A block's images are at positions of the
block, a turn's at positions of its blocks, the conversation's at positions of its turns,
and each level is flattened into the next; `Holds` says of a sequence that it has what a
list of places has, place by place and in their order, and is kept by concatenation and by
`FlattenSeq` (`HoldsConcat`, `HoldsFlat`), so no induction over the body is needed. What
`collectImages` gathers then is the images of the user turns in the order of their places
(`CollectedIs`), and two lists that hold the same places in the same order are equal. What
`countImages` adds up is a sum over user blocks, which is the number of their places
(`CountIs`, by `TotalByKey`). `PipeInv` has, for this, that the number of images the
vision step reports is the one its branch computed (`ImagesSeen`). Of a routed body
there remains where they are put (`ImagesKept`), and that each text has a place of its
own in its turn, in the order the texts had (`TextsKept`): the injection is read off
`Holds` for the content that `NormalizedContent` makes.

*The session.* `SessionInv` makes what a session knows a function of the world and of the
command line: the parsed words (`TypedInv`), the configuration in force (`ConfigInv`),
the environment of claude (`SlateInv`), the last request with its way to the service
(`AskInv`) and the last report of the doctor (`ReportInv`); the world is the one the
session found, or that one with the configuration file onboarding has written
(`WorldInv`). `parseArgs` is a loop that returns early at `--`, so what it has read is
compared with the words before the first `--` one at a time. For `TierModelHonoured` each
name is followed through spoof and wire map and back (`WireTargets`), `DoctorVouches`
adds that without a collision no other tier decides its spec. A count of
headers is a sum over the names, of which one is changed at a time.

Three hypotheses go with these. `NoClaudeModels`: a model the configuration names is one
of DeepSeek; with a `claude-*` id there, which `config.go` accepts, the wire map would
take it for a spoof or an id of claude's own and send another model. `NoAddedFilesApi`:
`headers.go` filters what claude sends and then adds what the user configured, so a user
who adds a Files API field gets it sent. `AddsOneField`: the statistics count an entry
as one, and one that holds a list of fields adds more. Nothing else about configurations,
command lines or environments is assumed but what `SessionAssumption` says of their
shape.

*The file store.* The refinement mapping takes the abstract store to be the cache of the
process, and an upload to be answered when its reply is written. A step of a handler
is a step of the abstract store or a stutter, given `FilesInv` and `Uploads` (an upload
in progress carries contents); a lookup answers with what the store holds at that
moment, so the order of concurrent uploads does not matter.

*The gauge.* It is exact only between uploads, so `GaugeInv` says what holds always:
what the gauge shows and the uploads that are stored and not counted make up the
entries of the cache. Storing adds to both sides because the id is new (the cache holds
minted ids only) and the upload is not empty (`Uploads`). Nothing needs the sets of
requests or ids to be finite, for the entries of a process always are.

*Streams.* `FlowInv` says of each connection, together with the service's side of it,
where it stands: before the answer no status, chunk or request to the service is out
that the place in the handler does not explain; while relaying the status is 200 and a
client that is still there has every chunk read but the one in hand; the end of the
response comes along with the last chunk only; a context is cancelled, or a disconnect
recorded, for a client that has left only. `DisconnectsAreReal` is a conjunct of it, and
`StatusIsFinal` follows since a handler without a status is the only one that writes
one. For the drain `KilledInv` is added: a handler that was killed belongs to a process
that has ended, so when no handler of a draining process runs any more, each of its
connections has been answered. For the refinement, a chunk written to a
client that is there is a delivery (with the end of the response, perhaps, in the same
step), a return with no cause finishes the relay, one with a cause cuts it, and the end
of a process is a stutter: a relay that dies with its process has not ended.

*Launch.* `IInv` says for each stretch of `runLaunch` what is still owed: the branding,
the proxy, claude (`BrandingOwed`, `ProxyOwed`, `ClaudeOwed`), and in which order the
exporters are drained (`DrainsInOrder`). A return is where nothing is owed any more.
When the exporters are drained no handler is at work, or `Shutdown` has abandoned it
(`HandlersServed`). The step that needs care is the end of the update goroutine, which
ends the launch anywhere: the theorems say what they say of launches that return.

*Configuration.* `TypeInv` adds to the types that a command past its look for the file
has one to read: no process ever removes it. What a process that runs alone promises is
`AloneInv`, by the place of a command: where the file it found is (`Preserved`,
`NoneToBackUp`); what the file is when it is read (`Reading`: the original, its repair, or
one that is `Ready`, which has every line of the original with the last value of its
key); that a backup in the making is of the original (`Copying`); that data on the way to
the file is a repair, a migration or an edit of it (`Writing`); and what a command that is
done has left (`Left`). Lemmas say what `Repaired`, `Migrated`, `Parsed` and `Serialized`
make of files of any length, each by the places its lines come from (`AmongLines`):
repair and migration keep the last value of each key, and what is serialized parses as
what it was. A second process can write between any two of these steps, and then settings
are lost (section 4).

*Onboarding.* `SavedConfigUsable` speaks of the disk, the inductive invariant of the
command too: a reference it carries towards the write is one whose key has been stored,
and an effort it carries has been parsed. `VetInv` adds where a key that was typed in has
to stand at each prompt (`Vetted`), what was known of a reference when it was saved
(`SavedVetted`), and that a command that prompts is a later one than the one that saved,
so that whatever it stores counts as stored since.

*Branding.* A whale is added only by a launch that has read a name without one, or
strips what it has read, so that every name read, kept or to be written has one whale at
most (`WhaleInv`); what anybody else does to the name changes nothing in that.
`NestInv` is about launches that come and go one inside the other: the stack holds each
launch that has not ended once (`StackInv`), the first one knows the window as it was
(`FirstKnows`), later ones know the marked one (`LaterKnows`), and the window is at each
step of the first one's commands what those commands make of the one before
(`WindowOf`).

*Upgrade.* Verification needs that a temporary file is replaced into place only after
its checksum matched, which every process does on its own: `IInv` is about any number of
them. Survival does not hold for two, which share `.old` (section 4). `AloneInv` adds for
a single process that from the backup on `.old` is the build it was started as
(`OldKept`), that before it the binary is (`BinKept`), and that what it leaves has run
(`BinRuns`). For the silence after an answer `QuietInv` ties the cache to it: as long as
the answer counts, the cache is on disk and as old as the answer is. For `UpdatesGoUp`
a build is fetched only when its version is `Newer` than the running one (`GoesUp`), and
`HistoryInv` carries on that everything that has run is the installed version or below
it, and during the smoke test below the one that would be put back (`RanUpTo`); an update
keeps that because `cmpSemver` is transitive (`CmpSemverOrders`), on any strings.
That `cmpSemver` is the precedence of semantic versioning where `PlainlyOrdered` holds
(`BelowIsSemver`) turns it into the property.

Every invariant, every action property and both refinements that a run checks are the
statement of a theorem above. What is model-checked only is liveness under fairness:
`HandlersTerminate`, `SignalsReachClaude`, `LaunchEnds`. Their proofs need ENABLED of
the fair actions, for which there is no prover here. The words and the headers that
loops of the code go through are recursive functions over the places of a sequence
(`ParseArgs`, and `Without` through `FlattenSeq`), never RECURSIVE operators. What they
return is proved by looking at the first place where it would go wrong (`NatMin`), so it
needs no induction theorem.

## 6. Not modelled

* `secretref.go`: how the external tools (`op`, `security`, `secret-tool`, `pass`) are
  run and their output parsed, and the pickers that list their entries. What a reference
  resolves to, and which entry is stored, is in `Onboarding`. `KeychainDelete` has no
  caller.
* `otel.go`: resource attributes, samplers and exporters; how they are drained is in
  `Launcher`. Spans and histograms, which change
  nothing, are left out of `Proxy`.
* `branding.go`: escape sequences for the terminal's title and colours.
* The wording of prompts and reports, `--help` and its pager.
* `version.go`, `deps.go`: constants. The shell launcher, the Python proxy and the
  installer: replaced by the Go program, or a linear script.

## 7. Plan

Done, in this order: the operators of the pipeline and their composition, the proxy
with its file cache and streams and their proofs, the configuration store, the
launch, the upgrade; then the abstract file store and relay with their refinements,
onboarding with the keychain, headers, doctor and session, version comparison and the
startup check, the drain of the exporters, branding call by call, and proofs about every
invariant and action property of the runs.

What could come next, in this order: the parsing of what the secret stores print and the
choice of an entry there (`secretref.go`), and what else can make a request of the proxy
fail than the service (`proxy.go:970`).
