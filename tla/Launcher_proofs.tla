---------------------------- MODULE Launcher_proofs ----------------------------
(***************************************************************************)
(* Theorems about Launcher, for any number of signals: types, what a       *)
(* launch that returns has given back, the proxy under claude, and the     *)
(* order of the last two deferred calls.                                   *)
(***************************************************************************)
EXTENDS Launcher, TLAPS

\* Once the proxy is shut down the providers are drained, and runLaunch returns.
Draining == {"traces", "metrics", "logs", "returned"}

\* runLaunch has come to the end exactly when the process ended by returning.
ReturnEnds == pc = "returned" <=> ended = "returned"

\* Where runLaunch holds what: the deferred call that gives it back is still to come.
BrandingOwed == branded => pc \in {"check", "lookPath", "exec", "notify", "wait", "close",
                                   "stop", "restore"}
ProxyOwed    == proxy = "serving" => pc \notin {"load", "providers", "proxy"} \cup Draining
ClaudeOwed   == child = "running" => pc \in {"notify", "wait"}

\* A handler is at work only under a proxy that serves, or that Shutdown gave up on.
HandlersServed == streaming => proxy \in {"serving", "abandoned"}

\* claude is told of a proxy that serves until it is shut down.
BaseServed == base = "loopback" /\ pc \notin Draining => proxy = "serving"

\* The providers are shut down in their order, and all of them before the return.
DrainsInOrder ==
  /\ pc \in {"load", "providers"} => otel = "none"
  /\ pc \in {"metrics", "logs"} => otel = "on" /\ drain["traces"] # "held"
  /\ pc = "logs" => drain["metrics"] # "held"
  /\ pc = "returned" => otel # "on"
  /\ otel = "drained" => pc = "returned" /\ \A p \in ToSet(Providers) : drain[p] # "held"

\* A signal is in sigCh, was delivered, or is lost, and is one of those at a time.
SignalsCounted == sigCh + delivered <= signals

IInv == /\ TypeOK /\ ReturnEnds /\ BrandingOwed /\ ProxyOwed /\ ClaudeOwed
        /\ HandlersServed /\ BaseServed /\ DrainsInOrder /\ SignalsCounted

LEMMA ThreeProviders ==
  /\ Len(Providers) = 3 /\ DOMAIN Providers = 1 .. 3
  /\ Providers[1] = "traces" /\ Providers[2] = "metrics" /\ Providers[3] = "logs"
  /\ ToSet(Providers) = {"traces", "metrics", "logs"}
<1>1. Len(Providers) = 3 /\ DOMAIN Providers = 1 .. 3
  BY DEF Providers
<1>2. Providers[1] = "traces" /\ Providers[2] = "metrics" /\ Providers[3] = "logs"
  BY DEF Providers
<1>3. 1 .. 3 = {1, 2, 3}
  OBVIOUS
<1> QED
  BY <1>1, <1>2, <1>3 DEF ToSet

LEMMA InitIInv == Init => IInv
<1> SUFFICES ASSUME Init PROVE IInv
  OBVIOUS
<1>1. /\ branded \in BOOLEAN /\ warned \in BOOLEAN /\ streaming \in BOOLEAN
      /\ notified \in BOOLEAN /\ sigClosed \in BOOLEAN
  BY Zenon DEF Init
<1> QED
  BY <1>1, ThreeProviders, LauncherAssumption
     DEF Init, IInv, TypeOK, ReturnEnds, BrandingOwed, ProxyOwed, ClaudeOwed, BaseServed,
         HandlersServed, DrainsInOrder, SignalsCounted, Input, PCs, Draining

\* The values the overrides choose from are efforts.
LEMMA OverriddenType == TypeOK => Overridden \in [default : Efforts, tier : Efforts]
BY DEF TypeOK, Overridden, Input, Efforts, Flags, EnvEfforts

\* The setup of a launch, up to its child.
LEMMA SetUpStep ==
  IInv /\ (\/ Load \/ BuildProviders \/ StartProxy \/ ApplyBranding
           \/ StartupUpdateCheck \/ LookPath \/ Exec \/ Notify) => IInv'
<1> SUFFICES ASSUME IInv,
                    \/ Load \/ BuildProviders \/ StartProxy \/ ApplyBranding
                    \/ StartupUpdateCheck \/ LookPath \/ Exec \/ Notify
             PROVE  IInv'
  OBVIOUS
<1> USE ThreeProviders
    DEF IInv, TypeOK, ReturnEnds, BrandingOwed, ProxyOwed, ClaudeOwed, BaseServed,
        HandlersServed, DrainsInOrder, SignalsCounted, PCs, Draining, AtPc, Alive, Goto,
        setup, held, kid, sigs
<1>1. CASE Load
  BY <1>1, OverriddenType DEF Load
<1>2. CASE BuildProviders
  BY <1>2 DEF BuildProviders
<1>3. CASE StartProxy
  BY <1>3 DEF StartProxy, Input
<1>4. CASE ApplyBranding
  BY <1>4 DEF ApplyBranding, Input
<1>5. CASE StartupUpdateCheck
  BY <1>5 DEF StartupUpdateCheck
<1>6. CASE LookPath
  BY <1>6 DEF LookPath
<1>7. CASE Exec
  BY <1>7 DEF Exec
<1>8. CASE Notify
  BY <1>8 DEF Notify
<1> QED
  BY <1>1, <1>2, <1>3, <1>4, <1>5, <1>6, <1>7, <1>8

\* The end of a launch up to the providers.
LEMMA TearDownStep ==
  IInv /\ (Wait \/ CloseSignals \/ StopSignals \/ Restore \/ ShutdownProxy) => IInv'
<1> SUFFICES ASSUME IInv, Wait \/ CloseSignals \/ StopSignals \/ Restore \/ ShutdownProxy
             PROVE  IInv'
  OBVIOUS
<1> USE ThreeProviders
    DEF IInv, TypeOK, ReturnEnds, BrandingOwed, ProxyOwed, ClaudeOwed, BaseServed,
        HandlersServed, DrainsInOrder, SignalsCounted, PCs, Draining, AtPc, Alive, Goto,
        setup, held, kid, sigs
<1>1. CASE Wait
  BY <1>1 DEF Wait
<1>2. CASE CloseSignals
  BY <1>2 DEF CloseSignals
<1>3. CASE StopSignals
  <2>1. notified' \in BOOLEAN
    BY <1>3, Zenon DEF StopSignals
  <2> QED
    BY <1>3, <2>1 DEF StopSignals
<1>4. CASE Restore
  <2>1. branded' \in BOOLEAN
    BY <1>4, Zenon DEF Restore
  <2> QED
    BY <1>4, <2>1 DEF Restore
<1>5. CASE ShutdownProxy
  BY <1>5 DEF ShutdownProxy
<1> QED
  BY <1>1, <1>2, <1>3, <1>4, <1>5

\* The shutdown of one provider: it is the next in the order, and is left with an end.
LEMMA DrainStep ==
  ASSUME IInv, otel = "on", NEW i \in DOMAIN Providers, Drain(i)
  PROVE  IInv'
<1>1. PICK end \in {"flushed", "slow", "starved"} :
        drain' = [drain EXCEPT ![Providers[i]] = end]
  BY DEF Drain
<1>2. i = 1 \/ i = 2 \/ i = 3
  BY ThreeProviders
<1>3. /\ drain' \in [ToSet(Providers) -> {"held", "flushed", "slow", "starved"}]
      /\ drain'[Providers[i]] # "held"
      /\ \A p \in ToSet(Providers) : drain[p] # "held" => drain'[p] # "held"
  BY <1>1, <1>2, ThreeProviders DEF IInv, TypeOK
<1> USE ThreeProviders, <1>3
    DEF Drain, IInv, TypeOK, ReturnEnds, BrandingOwed, ProxyOwed, ClaudeOwed, BaseServed,
        HandlersServed, DrainsInOrder, SignalsCounted, PCs, Draining, AtPc, Alive, Goto,
        setup, kid, sigs
<1>4. CASE i = 1
  BY <1>4
<1>5. CASE i = 2
  BY <1>5
<1>6. CASE i = 3
  BY <1>6
<1> QED
  BY <1>2, <1>4, <1>5, <1>6

\* Signals, claude and the update goroutine leave runLaunch where it is.
LEMMA BesideStep ==
  IInv /\ (\/ DrainNothing \/ HandleRequest \/ HandlersFinish \/ Signal \/ Forward
           \/ ClaudeExits \/ Updater) => IInv'
<1> SUFFICES ASSUME IInv,
                    \/ DrainNothing \/ HandleRequest \/ HandlersFinish \/ Signal
                    \/ Forward \/ ClaudeExits \/ Updater
             PROVE  IInv'
  OBVIOUS
<1> USE ThreeProviders, LauncherAssumption
    DEF IInv, TypeOK, ReturnEnds, BrandingOwed, ProxyOwed, ClaudeOwed, BaseServed,
        HandlersServed, DrainsInOrder, SignalsCounted, PCs, Draining, AtPc, Alive, Goto,
        setup, held, kid, sigs
<1>1. CASE DrainNothing
  BY <1>1 DEF DrainNothing
<1>2. CASE Signal
  BY <1>2 DEF Signal
<1>3. CASE Forward
  BY <1>3 DEF Forward
<1>4. CASE ClaudeExits
  BY <1>4 DEF ClaudeExits
<1>5. CASE Updater
  BY <1>5 DEF Updater, NothingNew, PromptUpdate, Decline, Accept, Upgrade
<1>6. CASE HandleRequest
  BY <1>6 DEF HandleRequest
<1>7. CASE HandlersFinish
  <2>1. streaming' = FALSE /\ streaming' \in BOOLEAN
    BY <1>7, Zenon DEF HandlersFinish
  <2> QED
    BY <1>7, <2>1 DEF HandlersFinish
<1> QED
  BY <1>1, <1>2, <1>3, <1>4, <1>5, <1>6, <1>7

LEMMA NextIInv == IInv /\ [Next]_vars => IInv'
<1> SUFFICES ASSUME IInv, [Next]_vars PROVE IInv'
  OBVIOUS
<1>1. CASE DrainOTLP
  BY <1>1, DrainStep DEF DrainOTLP
<1>2. CASE UNCHANGED vars
  BY <1>2 DEF vars, IInv, TypeOK, ReturnEnds, BrandingOwed, ProxyOwed, ClaudeOwed,
              HandlersServed, BaseServed, DrainsInOrder, SignalsCounted
<1> QED
  BY <1>1, <1>2, SetUpStep, TearDownStep, BesideStep DEF Next, Main

LEMMA IInvAlways == Spec => []IInv
BY InitIInv, NextIInv, PTL DEF Spec

-------------------------------------------------------------------------------

\* Every variable of a launch keeps its type.
THEOREM TypeCorrect == Spec => []TypeOK
<1>1. IInv => TypeOK
  BY DEF IInv
<1> QED
  BY <1>1, IInvAlways, PTL

\* A launch that returns holds nothing any more: main.go's deferred calls.
THEOREM ReturnsClean == Spec => []ReturnCleansUp
<1>1. IInv => ReturnCleansUp
  BY DEF IInv, ReturnCleansUp, ReturnEnds, BrandingOwed, ProxyOwed, ClaudeOwed,
         DrainsInOrder, Draining
<1> QED
  BY <1>1, IInvAlways, PTL

\* claude never runs with the address of a proxy that has been shut down: the proxy
\* is shut down by a deferred call, after Wait.
THEOREM ProxyOutlives == Spec => []ProxyOutlivesClaude
<1>1. IInv => ProxyOutlivesClaude
  BY DEF IInv, ProxyOutlivesClaude, ClaudeOwed, BaseServed, Draining
<1> QED
  BY <1>1, IInvAlways, PTL

\* No step drains a provider while a handler is at work that Shutdown would still have
\* waited for: the deferred calls run in reverse, and Shutdown returns when no handler
\* is left or its grace is over.
THEOREM DrainedLast == Spec => DrainAfterProxy
<1>1. IInv /\ [Next]_vars => [drain' # drain => ~ streaming \/ proxy = "abandoned"]_vars
  <2> SUFFICES ASSUME IInv, Next, drain' # drain
               PROVE  ~ streaming \/ proxy = "abandoned"
    BY DEF vars
  <2>1. DrainOTLP
    BY DEF Next, Main, Load, BuildProviders, StartProxy, ApplyBranding,
           StartupUpdateCheck, LookPath, Exec, Notify, Wait, CloseSignals, StopSignals,
           Restore, ShutdownProxy, DrainNothing, HandleRequest, HandlersFinish, Signal,
           Forward, ClaudeExits, Updater, NothingNew, PromptUpdate, Decline, Accept,
           Upgrade, held
  <2>2. pc \in Draining
    BY <2>1, ThreeProviders DEF DrainOTLP, Drain, AtPc, Draining
  <2> QED
    BY <2>2 DEF IInv, ProxyOwed, HandlersServed
<1> QED
  BY <1>1, IInvAlways, PTL DEF Spec, DrainAfterProxy
===============================================================================
