-------------------------------- MODULE Doctor ---------------------------------
(***************************************************************************)
(* doctor.go: the report of `claude-ds --doctor`, a function of the loaded *)
(* configuration and of the world the checks look at.                      *)
(*                                                                         *)
(* The world: file "hidden" (stat fails, not for want of the file),        *)
(* "missing", "unloadable" or "ok"; claude, whether it is on PATH; secret, *)
(* what resolving api_key_ref yields; key, what upstream says of it;       *)
(* collector, whether the OTLP endpoints answer.  cfg.ref says whether     *)
(* api_key_ref is set, cfg.unlock whether unlock_auto_mode is.             *)
(***************************************************************************)
EXTENDS Rewrite

CONSTANT DefaultModel

Secrets    == {"ok", "empty", "error"}
KeyAnswers == {"ok", "unauth", "advisory", "network"}
Files      == {"hidden", "missing", "unloadable", "ok"}

\* What a configuration that cannot be loaded is replaced with.
Defaulted(cfg) ==
  [cfg EXCEPT !.model = DefaultModel, !.ref = FALSE, !.otlp = FALSE, !.unlock = FALSE,
              !.effort.kind = "off",
              !.tierModel = [t \in Tiers |-> NoModel],
              !.tierEffort = [t \in Tiers |-> [cfg.effort EXCEPT !.kind = "unset"]]]

-------------------------------------------------------------------------------
(* checkTierCollisions *)

IsProxySpecEmpty(spec) == spec.kind \in {"unset", "off"}

\* The tiers with a spec of their own among those served by wire id m.
SpecTiers(cfg, m) ==
  {t \in Tiers : m # NoModel /\ WireOf(cfg, t) = m /\ ~ IsProxySpecEmpty(cfg.tierEffort[t])}

\* Mutant of Collisions: a tier is compared with the next one only.
CollisionsOfNeighbours(cfg) ==
  IF ~ cfg.unlock THEN {}
  ELSE {g \in {{TierOrder[i], TierOrder[i + 1]} : i \in 1 .. Len(TierOrder) - 1} :
          \E m \in {WireOf(cfg, t) : t \in Tiers} : g \subseteq SpecTiers(cfg, m)}

Collisions(cfg) ==
  IF ~ cfg.unlock THEN {}
  ELSE {g \in {SpecTiers(cfg, WireOf(cfg, t)) : t \in Tiers} : Cardinality(g) > 1}

-------------------------------------------------------------------------------
(* runDoctor: seven checks, TRUE for a tick.  The exit code is 0 always. *)

\* The file is looked at again: LoadConfig makes a configuration of a missing one too.
CheckConfigReadable(world) == world.file \in {"unloadable", "ok"}

CheckSecretResolves(world, cfg) == cfg.ref /\ world.secret = "ok"

CheckAPILive(world, cfg) == cfg.ref /\ world.secret = "ok" /\ world.key = "ok"

\* An exporter that has nothing to send is made and shut down: no endpoint is asked.
CheckOTLPReachability == TRUE

\* Mutant of Report: the check of the PATH never fails.
ReportAnyPath(world, cfg) ==
  [claude |-> TRUE, config |-> CheckConfigReadable(world),
   secret |-> CheckSecretResolves(world, cfg), live |-> CheckAPILive(world, cfg),
   proxy |-> TRUE, lint |-> Collisions(cfg) = {}, otlp |-> CheckOTLPReachability]

Report(world, cfg) ==
  [claude |-> world.claude,
   config |-> CheckConfigReadable(world),
   secret |-> CheckSecretResolves(world, cfg),
   live   |-> CheckAPILive(world, cfg),
   proxy  |-> TRUE,
   lint   |-> Collisions(cfg) = {},
   otlp   |-> CheckOTLPReachability]

AllTicks(report) == \A check \in DOMAIN report : report[check]
===============================================================================
