------------------------------- MODULE Launcher -------------------------------
(***************************************************************************)
(* One launch (runLaunch of main.go): the main goroutine, the goroutine    *)
(* that forwards signals, the one of startupUpdateCheck (update.go), the   *)
(* child claude, and the signals the process gets.  What the launch holds  *)
(* (the proxy, the tmux branding, the OTLP providers) is given back by the *)
(* deferred calls of runLaunch, which run only if runLaunch returns.       *)
(* The proxy itself is Proxy.tla, loading the configuration ConfigStore.   *)
(***************************************************************************)
EXTENDS Naturals, SequencesExt

CONSTANT MaxSignals   \* bound: signals the process gets

ASSUME LauncherAssumption == MaxSignals \in Nat

Efforts == {"off", "auto"}
Flags   == {"none", "on", "off"}         \* --proxy-on, --proxy-off
EnvEfforts == Efforts \cup {"unset"}     \* CLAUDE_DS_PROXY_EFFORT

VARIABLES
  input,     \* what this launch finds: flags, environment, the rest of the configuration
  pc,        \* where runLaunch is
  effort,    \* the effort specs, configured and then overridden: default and a tier's
  otel,      \* OTLP providers: "none" "on" "drained"
  proxy,     \* "none" "serving" "closed" "abandoned": closed with handlers at work
  streaming, \* whether a handler of the proxy is at work, and will emit
  branded,   \* whether the tmux window is decorated
  warned,    \* whether warnFlashDowngrade ran
  child,     \* claude: "none" "running" "exited"
  base,      \* its ANTHROPIC_BASE_URL: "direct" or "loopback"
  notified,  \* whether SIGINT and SIGTERM go to sigCh
  sigCh,     \* signals in sigCh, whose capacity is 1
  sigClosed, \* whether sigCh is closed
  signals,   \* signals the process got
  delivered, \* signals claude got from the launcher
  updater,   \* the goroutine of startupUpdateCheck
  drain,     \* what became of what each OTLP provider still held
  ended      \* how the process ended: "no" "returned" "killed" "panicked" "updated"

setup   == <<input, effort>>
held    == <<otel, drain, proxy, streaming, branded, warned>>
kid     == <<child, base>>
sigs    == <<notified, sigCh, sigClosed, signals, delivered>>
vars    == <<input, pc, effort, otel, proxy, streaming, branded, warned, child, base,
             notified, sigCh, sigClosed, signals, delivered, updater, drain, ended>>

\* The providers in the order they are shut down.
Providers == <<"traces", "metrics", "logs">>

Input == [flag : Flags, env : EnvEfforts, endpoints : BOOLEAN, unlock : BOOLEAN,
          tmux : BOOLEAN, check : BOOLEAN]

PCs == {"load", "providers", "proxy", "brand", "check", "lookPath", "exec", "notify", "wait",
        "close", "stop", "restore", "shutdown", "returned"} \cup ToSet(Providers)

Init ==
  /\ input \in Input
  /\ pc = "load"
  /\ effort \in [default : Efforts, tier : Efforts]
  /\ otel = "none" /\ proxy = "none" /\ streaming = FALSE
  /\ branded = FALSE /\ warned = FALSE
  /\ child = "none" /\ base = "direct"
  /\ notified = FALSE /\ sigCh = 0 /\ sigClosed = FALSE /\ signals = 0 /\ delivered = 0
  /\ updater = "none"
  /\ drain = [p \in ToSet(Providers) |-> "held"]
  /\ ended = "no"

Alive      == ended = "no"
AtPc(p)    == Alive /\ pc = p
Goto(p)    == pc' = p

-------------------------------------------------------------------------------
(* runLaunch *)

\* applyFlagOverrides, then CLAUDE_DS_PROXY_EFFORT, which has the last word.
Overridden ==
  LET flagged == CASE input.flag = "off" -> [default |-> "off", tier |-> "off"]
                   [] input.flag = "on"  -> [effort EXCEPT !.default = "auto"]
                   [] OTHER              -> effort
  IN  IF input.env = "unset" THEN flagged ELSE [flagged EXCEPT !.default = input.env]

\* The configuration is loaded and the API key resolved, or runLaunch returns with
\* nothing to give back.
Load ==
  /\ AtPc("load")
  /\ effort' = Overridden
  /\ \/ Goto("providers") /\ ended' = "no"
     \/ Goto("returned") /\ ended' = "returned"
  /\ UNCHANGED <<input, held, kid, sigs, updater>>

\* buildOTLPProviders: an exporter of each kind for each endpoint, and a provider of
\* each kind, or none if any of them fails; then the launch goes on without.
BuildProviders ==
  /\ AtPc("providers") /\ Goto("proxy")
  /\ otel' \in IF input.endpoints THEN {"on", "none"} ELSE {"none"}
  /\ UNCHANGED <<setup, drain, proxy, streaming, branded, warned, kid, sigs, updater, ended>>

\* NewProxy and Start: no proxy is wanted, it serves, or it cannot be started.
StartProxy ==
  /\ AtPc("proxy") /\ Goto("brand")
  /\ IF effort = [default |-> "off", tier |-> "off"] /\ ~ input.endpoints
     THEN UNCHANGED <<proxy, base, warned>>
     ELSE \/ proxy' = "serving" /\ base' = "loopback" /\ UNCHANGED warned
          \/ warned' = input.unlock /\ UNCHANGED <<proxy, base>>
  /\ UNCHANGED <<setup, otel, drain, streaming, branded, child, sigs, updater, ended>>

ApplyBranding ==
  /\ AtPc("brand") /\ Goto("check")
  /\ branded' = input.tmux
  /\ UNCHANGED <<setup, otel, drain, proxy, streaming, warned, kid, sigs, updater, ended>>

\* input.check stands for all gates of the check: flag, environment, terminal, cache.
StartupUpdateCheck ==
  /\ AtPc("check") /\ Goto("lookPath")
  /\ updater' = IF input.check THEN "fetch" ELSE "none"
  /\ UNCHANGED <<setup, held, kid, sigs, ended>>

\* Mutant of LookPath: a missing claude ends the process at once.
LookPathExits ==
  /\ AtPc("lookPath")
  /\ \/ Goto("exec") /\ ended' = "no"
     \/ Goto("returned") /\ ended' = "returned"
  /\ UNCHANGED <<setup, held, kid, sigs, updater>>

LookPath ==
  /\ AtPc("lookPath")
  /\ Goto("exec") \/ Goto("restore")
  /\ UNCHANGED <<setup, held, kid, sigs, updater, ended>>

Exec ==
  /\ AtPc("exec")
  /\ \/ Goto("notify") /\ child' = "running"
     \/ Goto("restore") /\ UNCHANGED child
  /\ UNCHANGED <<setup, held, base, sigs, updater, ended>>

\* signal.Notify, and the goroutine that forwards.
Notify ==
  /\ AtPc("notify") /\ Goto("wait")
  /\ notified' = TRUE
  /\ UNCHANGED <<setup, held, kid, sigCh, sigClosed, signals, delivered, updater, ended>>

\* Mutant of Wait: a signal ends the wait, not the end of claude.
WaitForSignal ==
  /\ AtPc("wait") /\ (child = "exited" \/ signals > 0) /\ Goto("close")
  /\ UNCHANGED <<setup, held, kid, sigs, updater, ended>>

\* Mutant of Wait: the goroutine of the update check is waited for too.
WaitForever ==
  /\ AtPc("wait") /\ child = "exited" /\ updater \in {"none", "gone"} /\ Goto("close")
  /\ UNCHANGED <<setup, held, kid, sigs, updater, ended>>

Wait ==
  /\ AtPc("wait") /\ child = "exited" /\ Goto("close")
  /\ UNCHANGED <<setup, held, kid, sigs, updater, ended>>

CloseSignals ==
  /\ AtPc("close") /\ Goto("stop")
  /\ sigClosed' = TRUE
  /\ UNCHANGED <<setup, held, kid, notified, sigCh, signals, delivered, updater, ended>>

(* The deferred calls, last one first *)

StopSignals ==
  /\ AtPc("stop") /\ Goto("restore")
  /\ notified' = FALSE
  /\ UNCHANGED <<setup, held, kid, sigCh, sigClosed, signals, delivered, updater, ended>>

\* Mutant of Restore: the deferred calls run in the order they are written.
RestoreThenDrain ==
  /\ AtPc("restore") /\ Goto("traces")
  /\ branded' = FALSE
  /\ UNCHANGED <<setup, otel, drain, proxy, streaming, warned, kid, sigs, updater, ended>>

Restore ==
  /\ AtPc("restore") /\ Goto("shutdown")
  /\ branded' = FALSE
  /\ UNCHANGED <<setup, otel, drain, proxy, streaming, warned, kid, sigs, updater, ended>>

\* Shutdown, with a grace of 5 seconds: no handler is at work any more, or the grace is
\* over and the handlers go on; its error is ignored.
ShutdownProxy ==
  /\ AtPc("shutdown") /\ Goto("traces")
  /\ proxy' = CASE proxy # "serving" -> proxy
                [] streaming          -> "abandoned"
                [] OTHER              -> "closed"
  /\ UNCHANGED <<setup, otel, drain, streaming, branded, warned, kid, sigs, updater, ended>>

\* The second for all three providers is over once one of them has used it up.
Late == \E p \in ToSet(Providers) : drain[p] = "slow"

\* Mutant of Drain: the first provider that fails ends the shutdown.
DrainUntilError(i) ==
  /\ AtPc(Providers[i])
  /\ IF Late THEN drain' = [drain EXCEPT ![Providers[i]] = "starved"]
     ELSE \E end \in {"flushed", "slow"} : drain' = [drain EXCEPT ![Providers[i]] = end]
  /\ IF i < Len(Providers) /\ drain'[Providers[i]] = "flushed"
     THEN Goto(Providers[i + 1]) /\ UNCHANGED <<otel, ended>>
     ELSE Goto("returned") /\ otel' = "drained" /\ ended' = "returned"
  /\ UNCHANGED <<setup, proxy, streaming, branded, warned, kid, sigs, updater>>

\* Shutdown of one provider: it exports what it holds, or not before the second is
\* over, or there is no time left to try.  Its error does not keep the next one from
\* being shut down.
Drain(i) ==
  /\ AtPc(Providers[i])
  /\ IF Late THEN drain' = [drain EXCEPT ![Providers[i]] = "starved"]
     ELSE \E end \in {"flushed", "slow"} : drain' = [drain EXCEPT ![Providers[i]] = end]
  /\ IF i < Len(Providers) THEN Goto(Providers[i + 1]) /\ UNCHANGED <<otel, ended>>
     ELSE Goto("returned") /\ otel' = "drained" /\ ended' = "returned"
  /\ UNCHANGED <<setup, proxy, streaming, branded, warned, kid, sigs, updater>>

DrainOTLP == otel = "on" /\ \E i \in DOMAIN Providers : Drain(i)

\* noopShutdown
DrainNothing ==
  /\ otel = "none" /\ AtPc(Providers[1]) /\ Goto("returned")
  /\ ended' = "returned"
  /\ UNCHANGED <<setup, held, kid, sigs, updater>>

Main ==
  \/ Load \/ BuildProviders \/ StartProxy \/ ApplyBranding \/ StartupUpdateCheck
  \/ LookPath \/ Exec \/ Notify \/ Wait \/ CloseSignals
  \/ StopSignals \/ Restore \/ ShutdownProxy \/ DrainOTLP \/ DrainNothing

-------------------------------------------------------------------------------
(* Requests, signals and the child *)

\* claude, or what it has started, sends a request; Proxy.tla follows one through.
HandleRequest ==
  /\ Alive /\ proxy = "serving" /\ child # "none"
  /\ ~ streaming /\ streaming' = TRUE
  /\ UNCHANGED <<setup, pc, otel, drain, proxy, branded, warned, kid, sigs, updater, ended>>

\* The last handler at work emits and returns, in time for Shutdown or not.
HandlersFinish ==
  /\ Alive /\ streaming
  /\ streaming' = FALSE
  /\ UNCHANGED <<setup, pc, otel, drain, proxy, branded, warned, kid, sigs, updater, ended>>

\* SIGINT or SIGTERM.  Without Notify it kills the process; with it, the runtime
\* puts the signal into sigCh or drops it when sigCh is full, and panics when
\* sigCh is closed.
Signal ==
  /\ Alive /\ signals < MaxSignals
  /\ signals' = signals + 1
  /\ CASE ~ notified             -> ended' = "killed" /\ UNCHANGED sigCh
       [] notified /\ sigClosed  -> ended' = "panicked" /\ UNCHANGED sigCh
       [] OTHER                  -> sigCh' = 1 /\ UNCHANGED ended
  /\ UNCHANGED <<setup, pc, held, kid, notified, sigClosed, delivered, updater>>

\* Mutant of Forward: the goroutine receives once and is gone.
ForwardOnce ==
  /\ Alive /\ sigCh = 1 /\ delivered = 0
  /\ sigCh' = 0
  /\ delivered' = IF child = "running" THEN delivered + 1 ELSE delivered
  /\ UNCHANGED <<setup, pc, held, kid, notified, sigClosed, signals, updater, ended>>

Forward ==
  /\ Alive /\ sigCh = 1
  /\ sigCh' = 0
  /\ delivered' = IF child = "running" THEN delivered + 1 ELSE delivered
  /\ UNCHANGED <<setup, pc, held, kid, notified, sigClosed, signals, updater, ended>>

ClaudeExits ==
  /\ child = "running"
  /\ child' = "exited"
  /\ UNCHANGED <<setup, pc, held, base, sigs, updater, ended>>

-------------------------------------------------------------------------------
(* The goroutine of startupUpdateCheck *)

\* The tag cannot be fetched, or is not newer.
NothingNew ==
  /\ Alive /\ updater = "fetch"
  /\ updater' = "gone"
  /\ UNCHANGED <<setup, pc, held, kid, sigs, ended>>

PromptUpdate ==
  /\ Alive /\ updater = "fetch"
  /\ updater' = "prompt"
  /\ UNCHANGED <<setup, pc, held, kid, sigs, ended>>

\* readYesNo reads the terminal without a deadline.
Decline ==
  /\ Alive /\ updater = "prompt"
  /\ updater' = "gone"
  /\ UNCHANGED <<setup, pc, held, kid, sigs, ended>>

Accept ==
  /\ Alive /\ updater = "prompt"
  /\ updater' = "upgrade"
  /\ UNCHANGED <<setup, pc, held, kid, sigs, ended>>

\* runUpgrade, which may fail, then os.Exit.
Upgrade ==
  /\ Alive /\ updater = "upgrade"
  /\ updater' \in {"upgraded", "failed"}
  /\ ended' = "updated"
  /\ UNCHANGED <<setup, pc, held, kid, sigs>>

Updater == NothingNew \/ PromptUpdate \/ Decline \/ Accept \/ Upgrade

Next ==
  \/ Main \/ HandleRequest \/ HandlersFinish \/ Signal \/ Forward \/ ClaudeExits
  \/ Updater

Spec == Init /\ [][Next]_vars

(***************************************************************************)
(* Fairness: runnable goroutines run, and every deferred call is bounded   *)
(* (5 seconds for the proxy, 1 second for the providers).  Nothing makes   *)
(* a handler finish, claude exit or the user answer.                       *)
(***************************************************************************)
FairSpec == Spec /\ WF_vars(Main) /\ WF_vars(Forward)

-------------------------------------------------------------------------------

\* Every variable has its type.
TypeOK ==
  /\ input \in Input /\ pc \in PCs
  /\ effort \in [default : Efforts, tier : Efforts]
  /\ otel \in {"none", "on", "drained"}
  /\ proxy \in {"none", "serving", "closed", "abandoned"} /\ streaming \in BOOLEAN
  /\ branded \in BOOLEAN /\ warned \in BOOLEAN
  /\ child \in {"none", "running", "exited"} /\ base \in {"direct", "loopback"}
  /\ notified \in BOOLEAN /\ sigCh \in {0, 1} /\ sigClosed \in BOOLEAN
  /\ signals \in 0 .. MaxSignals /\ delivered \in 0 .. MaxSignals
  /\ updater \in {"none", "fetch", "prompt", "upgrade", "gone", "upgraded", "failed"}
  /\ drain \in [ToSet(Providers) -> {"held", "flushed", "slow", "starved"}]
  /\ ended \in {"no", "returned", "killed", "panicked", "updated"}

\* A launch that returns, early or late, holds nothing: the window looks as it did,
\* the proxy is shut down, claude is gone, and every provider there is has been shut
\* down, whatever the others did.
ReturnCleansUp ==
  ended = "returned" =>
    /\ ~ branded /\ proxy # "serving" /\ otel # "on" /\ child # "running"
    /\ otel = "drained" => \A p \in ToSet(Providers) : drain[p] # "held"

\* As long as the launcher lives, claude finds the proxy at the address it was
\* given.
ProxyOutlivesClaude ==
  Alive /\ child = "running" /\ base = "loopback" => proxy = "serving"

\* A provider is drained only when no handler of the proxy is left that could emit to
\* it, or when the handlers that are left have had the whole grace of Shutdown.
DrainAfterProxy == [][drain' # drain => ~ streaming \/ proxy = "abandoned"]_vars

\* Whatever claude has got before, a signal in sigCh makes it get one more, unless
\* claude or the launcher ends.  Signals that come while one is in sigCh are one with
\* it: os/signal drops what the channel has no room for.
SignalsReachClaude ==
  \A n \in 0 .. MaxSignals - 1 :
    (pc = "wait" /\ sigCh = 1 /\ delivered = n)
      ~> (delivered > n \/ child = "exited" \/ ~ Alive)

\* When claude exits, so does the launcher.
LaunchEnds == (pc = "wait" /\ child = "exited") ~> ~ Alive

-------------------------------------------------------------------------------
(* What the repository's text says of a launch and its code does not do. *)

\* main.go: --proxy-on and --proxy-off win over configuration and environment.
FlagsWin ==
  pc # "load" /\ Alive =>
    /\ input.flag = "off" => effort.default = "off"
    /\ input.flag = "on"  => effort.default = "auto"

\* main.go: warnFlashDowngrade if the proxy is disabled and UnlockAutoMode is on.
WarnedWhenUnproxied ==
  child = "running" /\ base = "direct" /\ input.unlock => warned

\* branding.go: the caller restores the branding, whatever ends the launch.
BrandingRestored == ended = "updated" => ~ branded

\* update.go: a prompt that misses the user's window simply gets lost, so the check
\* never ends a launch whose claude is running.
LatePromptIsLost == ended = "updated" => child # "running"

\* otel.go: a slow exporter does not starve another's drain.
NoDrainStarved == \A p \in ToSet(Providers) : drain[p] # "starved"

\* update.go: on any failure the check lets main proceed.
FailedUpdateProceeds == updater = "failed" => ended # "updated"
===============================================================================
