------------------------------- MODULE Onboarding -------------------------------
(***************************************************************************)
(* The commands that ask the user for the API key and the launch that uses *)
(* it: onboarding.go (first run, --setup, --rotate-key), secretref.go      *)
(* (the references and the keychain) and, of main.go, ensureConfig and the *)
(* resolution of the key.  Commands run one after the other; what they do  *)
(* to the configuration file at the same time is ConfigStore.              *)
(*                                                                         *)
(* An Abort is whatever ends a command before its end: a prompt that       *)
(* cannot be read, an error, Ctrl-C, a crash.  What is on disk and in the  *)
(* keychain by then stays.                                                 *)
(***************************************************************************)
EXTENDS Naturals, FiniteSets

CONSTANTS
  Accounts,    \* accounts of the keychain, under the service claude-ds
  Bare,        \* the account a bare key is stored under
  Remote,      \* names of fields in 1Password and of secrets in Infisical
  Keys,        \* API keys
  NoKey,       \* no key
  Specs,       \* values the user may give to proxy_effort
  ValidSpecs,  \* those ParseSpec accepts
  MaxRuns      \* bound: commands started

maxAttempts == 3

\* What may stand in api_key_ref; one with no scheme is the key itself.
Refs == [scheme : {"system"}, name : Accounts]
          \cup [scheme : {"op", "infisical"}, name : Remote]
          \cup [scheme : {"none"}, name : Keys]

Configs == [api_key_ref : Refs \cup {NoKey}, proxy_effort : Specs]
Absent  == [api_key_ref |-> NoKey, proxy_effort |-> NoKey]

ASSUME OnboardingAssumption ==
  /\ Bare \in Accounts
  /\ NoKey \notin Keys \cup Specs \cup Refs
  /\ ValidSpecs \subseteq Specs
  /\ MaxRuns \in Nat

VARIABLES
  config,    \* the configuration file
  keychain,  \* the key of each account
  remote,    \* the key of each remote secret, or NoKey where it cannot be read
  valid,     \* the keys the service accepts, the same throughout
  cmd,       \* the command that runs or ran last
  runs,      \* how many commands were started
  stored,    \* the command that last stored a key under each account, 0 if none did
  saved      \* the command that last wrote the configuration, and what it told the user

vars == <<config, keychain, remote, valid, cmd, runs, stored, saved>>

Ended == {"idle", "done", "stopped", "running"}
PCs   == Ended \cup {"stat", "rerun", "scheme", "lookup", "paste", "store", "resolve",
                     "liveness", "again", "effort", "auto", "write", "load"}

\* account  the account chosen                 ref    the reference the prompts made
\* pasted   the key entered for ref            token  what ref resolved to
\* warned   whether the user was told that the key may not work
Command == [pc : PCs, name : {"launch", "setup", "rotate"}, exists : BOOLEAN,
            attempt : 1 .. maxAttempts, account : Accounts, pasted : Keys \cup {NoKey},
            ref : Refs \cup {NoKey}, token : Keys \cup {NoKey}, warned : BOOLEAN,
            effort : Specs \cup {NoKey}]

CommandAt(pc, name) ==
  [pc |-> pc, name |-> name, exists |-> FALSE, attempt |-> 1, account |-> Bare,
   pasted |-> NoKey, ref |-> NoKey, token |-> NoKey, warned |-> FALSE, effort |-> NoKey]

\* The files a user may have: none, or one written by an earlier release or by hand.
Init ==
  /\ config \in {Absent} \cup {c \in Configs : c.proxy_effort \in ValidSpecs}
  /\ keychain \in [Accounts -> Keys \cup {NoKey}]
  /\ remote \in [Remote -> Keys \cup {NoKey}]
  /\ valid \in SUBSET Keys
  /\ cmd = CommandAt("idle", "launch")
  /\ runs = 0
  /\ stored = [a \in Accounts |-> 0]
  /\ saved = [by |-> 0, pasted |-> NoKey, warned |-> FALSE]

At(pc)      == cmd.pc = pc
Becomes(c)  == cmd' = c /\ UNCHANGED <<remote, valid, runs>>
StoresUnchanged == UNCHANGED <<config, keychain, stored, saved>>
Goto(pc)    == Becomes([cmd EXCEPT !.pc = pc]) /\ StoresUnchanged

Begin ==
  /\ cmd.pc \in Ended /\ runs < MaxRuns
  /\ runs' = runs + 1
  /\ \E name \in {"launch", "setup", "rotate"} : cmd' = CommandAt("stat", name)
  /\ UNCHANGED <<remote, valid>> /\ StoresUnchanged

-------------------------------------------------------------------------------
(* secretref.go *)

\* What a reference stands for: what it resolves to when every tool answers.
StandsFor(ref) ==
  CASE ref.scheme = "system" -> keychain[ref.name]
    [] ref.scheme = "none"   -> ref.name
    [] OTHER                 -> remote[ref.name]

\* A tool may be missing, locked or refused: then there is no key, or an error, and
\* the callers treat the two alike.
KeychainLookup(account) == {keychain[account], NoKey}
ResolveRemote(name)     == {remote[name], NoKey}

Resolve(ref) ==
  CASE ref.scheme = "system" -> KeychainLookup(ref.name)
    [] ref.scheme = "none"   -> {ref.name}
    [] OTHER                 -> ResolveRemote(ref.name)

\* The user is asked for a key to store under the account; an empty one leads back
\* to the choice of the scheme.
Paste ==
  /\ At("paste")
  /\ \/ Goto("scheme")
     \/ \E key \in Keys : Becomes([cmd EXCEPT !.pc = "store", !.pasted = key])
     /\ StoresUnchanged

SystemRef(account) == [scheme |-> "system", name |-> account]

StoreTold == Becomes([cmd EXCEPT !.pc = "resolve", !.ref = SystemRef(cmd.account)])

\* Mutant of KeychainStore: its error is not looked at.
KeychainStoreUnchecked ==
  /\ At("store") /\ StoreTold
  /\ \/ /\ keychain' = [keychain EXCEPT ![cmd.account] = cmd.pasted]
        /\ stored' = [stored EXCEPT ![cmd.account] = runs]
     \/ UNCHANGED <<keychain, stored>>
  /\ UNCHANGED <<config, saved>>

\* Mutant of KeychainStore: without -U, an entry that exists stays.
KeychainStoreAdds ==
  /\ At("store") /\ StoreTold
  /\ keychain' = [keychain EXCEPT ![cmd.account] = IF @ = NoKey THEN cmd.pasted ELSE @]
  /\ stored' = [stored EXCEPT ![cmd.account] = runs]
  /\ UNCHANGED <<config, saved>>

\* KeychainStore: an entry that exists is replaced.  An error aborts.
KeychainStore ==
  /\ At("store") /\ StoreTold
  /\ keychain' = [keychain EXCEPT ![cmd.account] = cmd.pasted]
  /\ stored' = [stored EXCEPT ![cmd.account] = runs]
  /\ UNCHANGED <<config, saved>>

-------------------------------------------------------------------------------
(* onboarding.go *)

\* ensureConfig, runSetup and runRotateKey look for the file first.
Stat ==
  /\ At("stat")
  /\ LET exists == config # Absent
         next   == IF ~ exists \/ cmd.name = "rotate" THEN "scheme"
                   ELSE IF cmd.name = "setup" THEN "rerun" ELSE "load"
     IN  Becomes([cmd EXCEPT !.pc = next, !.exists = exists])
  /\ StoresUnchanged

Rerun == At("rerun") /\ (Goto("scheme") \/ Goto("done"))

\* promptSecretRef.  A scheme nobody knows and a 1Password reference without op://
\* are asked for again.  The account may be any: InteractiveSystemSelector lists
\* those there are and takes new ones.
ChooseScheme ==
  /\ At("scheme")
  /\ LET fresh == [cmd EXCEPT !.pasted = NoKey]
     IN  \/ \E a \in Accounts : Becomes([fresh EXCEPT !.pc = "lookup", !.account = a])
         \/ Becomes([fresh EXCEPT !.pc = "paste", !.account = Bare])
         \/ \E ref \in Refs :
              /\ ref.scheme \in {"op", "infisical"}
              /\ Becomes([fresh EXCEPT !.pc = "resolve", !.ref = ref])
  /\ StoresUnchanged

\* The entry of the account is used if there is one.  KeychainLookup may fail on an
\* entry that is there, which then counts as none.
Lookup ==
  /\ At("lookup")
  /\ \E found \in KeychainLookup(cmd.account) :
       Becomes(IF found = NoKey THEN [cmd EXCEPT !.pc = "paste"]
               ELSE [cmd EXCEPT !.pc = "resolve", !.ref = SystemRef(cmd.account)])
  /\ StoresUnchanged

\* Where the command goes with its reference: a rotation changes nothing else.
Accepted == IF cmd.name = "rotate" /\ cmd.exists THEN "write" ELSE "effort"

\* promptForRefWithLiveness: the reference is resolved; if it cannot be, it is saved
\* with a warning.
ResolveRef ==
  /\ At("resolve")
  /\ \E token \in Resolve(cmd.ref) :
       Becomes(IF token = NoKey
               THEN [cmd EXCEPT !.pc = Accepted, !.token = token, !.warned = TRUE]
               ELSE [cmd EXCEPT !.pc = "liveness", !.token = token])
  /\ StoresUnchanged

\* Mutant of CheckLiveness: 401 and 403 count as any other status, without a word.
CheckLivenessLax ==
  /\ At("liveness")
  /\ Becomes([cmd EXCEPT !.pc = Accepted, !.warned = FALSE])
  /\ StoresUnchanged

\* checkLiveness: the service accepts or rejects the key, or the answer says nothing
\* of it.  After the third rejection it is saved as it is.
CheckLiveness ==
  /\ At("liveness")
  /\ \/ Becomes([cmd EXCEPT !.pc = Accepted, !.warned = TRUE])
     \/ /\ cmd.token \in valid
        /\ Becomes([cmd EXCEPT !.pc = Accepted, !.warned = FALSE])
     \/ /\ cmd.token \notin valid /\ cmd.attempt < maxAttempts
        /\ Becomes([cmd EXCEPT !.pc = "again", !.warned = TRUE])
  /\ StoresUnchanged

\* Try a different reference?
Again ==
  /\ At("again")
  /\ \/ Becomes([cmd EXCEPT !.pc = "scheme", !.attempt = @ + 1])
     \/ Becomes([cmd EXCEPT !.pc = Accepted])
  /\ StoresUnchanged

\* promptProxyChoice: one that ParseSpec refuses is asked for again.
ProxyChoice ==
  /\ At("effort")
  /\ \E spec \in ValidSpecs : Becomes([cmd EXCEPT !.pc = "auto", !.effort = spec])
  /\ StoresUnchanged

AutoMode == At("auto") /\ Goto("write")

\* The caller's WriteConfig: what the command knows by now is on disk.
WriteConfig ==
  /\ At("write")
  /\ config' = [api_key_ref  |-> cmd.ref,
                proxy_effort |-> IF cmd.effort = NoKey THEN config.proxy_effort ELSE cmd.effort]
  /\ saved' = [by |-> runs, pasted |-> cmd.pasted, warned |-> cmd.warned]
  /\ Becomes(CommandAt(IF cmd.name = "launch" THEN "load" ELSE "done", cmd.name))
  /\ UNCHANGED <<keychain, stored>>

\* runLaunch: claude is started with what the reference resolves to, and with no key
\* if the file has no reference.
Launch ==
  /\ At("load")
  /\ \/ config.api_key_ref = NoKey /\ Goto("running")
     \/ /\ config.api_key_ref # NoKey
        /\ \E token \in Resolve(config.api_key_ref) \ {NoKey} :
             Becomes([cmd EXCEPT !.pc = "running", !.token = token])
  /\ StoresUnchanged

Abort ==
  /\ cmd.pc \notin Ended
  /\ Becomes(CommandAt("stopped", cmd.name))
  /\ StoresUnchanged

Next ==
  \/ Begin \/ Stat \/ Rerun \/ ChooseScheme \/ Lookup \/ Paste \/ KeychainStore
  \/ ResolveRef \/ CheckLiveness \/ Again \/ ProxyChoice \/ AutoMode \/ WriteConfig
  \/ Launch \/ Abort

Spec == Init /\ [][Next]_vars

-------------------------------------------------------------------------------

\* Every variable has its type.
TypeOK ==
  /\ config \in Configs \cup {Absent}
  /\ keychain \in [Accounts -> Keys \cup {NoKey}]
  /\ remote \in [Remote -> Keys \cup {NoKey}]
  /\ valid \subseteq Keys
  /\ cmd \in Command /\ runs \in 0 .. MaxRuns
  /\ stored \in [Accounts -> 0 .. MaxRuns]
  /\ saved \in [by : 0 .. MaxRuns, pasted : Keys \cup {NoKey}, warned : BOOLEAN]

\* Whether a command has stored a key under the account that the configuration
\* refers to, after the configuration was saved, and did not save it again.
StoredSince ==
  /\ config.api_key_ref.scheme = "system"
  /\ stored[config.api_key_ref.name] > saved.by

\* What the prompts save a launch accepts, wherever earlier commands were cut off:
\* a reference of a scheme that Resolve knows, never the key itself; in the
\* keychain an entry for it; a proxy_effort that parses.
SavedConfigUsable ==
  saved.by > 0 =>
    /\ config.api_key_ref \in Refs /\ config.api_key_ref.scheme # "none"
    /\ config.api_key_ref.scheme = "system" => keychain[config.api_key_ref.name] # NoKey
    /\ config.proxy_effort \in ValidSpecs

\* The key the user has entered, in the last of the attempts, is the one the saved
\* reference stands for.
EnteredKeyTakesEffect ==
  saved.pasted # NoKey /\ ~ StoredSince => StandsFor(config.api_key_ref) = saved.pasted

\* Claude is never started with a key the service does not accept and the user was
\* not warned of, except where a later command stored it under the same account
\* and was then cut off, or went on to another reference.
LaunchVetted ==
  /\ At("running") /\ saved.by > 0 /\ ~ saved.warned /\ ~ StoredSince
  => cmd.token \in valid

-------------------------------------------------------------------------------
(* What the repository's text says of these commands and the code does not do. *)

\* onboarding.go: "reuses the existing api_key_ref".  --setup on a configuration
\* leaves its reference.
SetupKeepsRef ==
  [][At("write") /\ cmd.name = "setup" /\ cmd.exists
     => config'.api_key_ref = config.api_key_ref]_config

\* README: the reset flow asks whether to replace the stored secret while keeping
\* the account name.  A rotation that ends with the account it began with has asked.
RotationAsksForKey ==
  [][/\ At("write") /\ cmd.name = "rotate"
     /\ config.api_key_ref \in {SystemRef(a) : a \in Accounts}
     /\ config'.api_key_ref = config.api_key_ref
     => cmd.pasted # NoKey]_saved

\* onboarding.go: "Otherwise reuse the existing entry".  An entry under an account
\* of the user's own is never replaced.
ExistingEntryReused ==
  [][\A a \in Accounts \ {Bare} : keychain[a] # NoKey => keychain'[a] = keychain[a]]_keychain
===============================================================================
