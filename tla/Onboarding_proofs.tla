---------------------------- MODULE Onboarding_proofs ----------------------------
(***************************************************************************)
(* For any number of commands, accounts, keys and references: what the     *)
(* prompts save is usable by a launch, a key typed in is the key in use,   *)
(* and what starts claude was vetted.  The inductive invariant follows the *)
(* reference from the prompt that makes it to the file: from then on the   *)
(* keychain has its entry, for no command takes one away.                  *)
(***************************************************************************)
EXTENDS Onboarding, TLAPS

\* A reference the prompts may return and its keychain entry.
Ready(ref) ==
  /\ ref \in Refs /\ ref.scheme # "none"
  /\ ref.scheme = "system" => keychain[ref.name] # NoKey

HasRef == {"resolve", "liveness", "again", "effort", "auto", "write"}

\* What holds between the prompts.
PromptsInv ==
  /\ config # Absent => config \in Configs /\ config.proxy_effort \in ValidSpecs
  /\ cmd.exists => config # Absent
  /\ cmd.pc \in HasRef => Ready(cmd.ref)
  /\ cmd.pc = "store" => cmd.pasted \in Keys
  /\ cmd.effort \in ValidSpecs \cup {NoKey}
  /\ cmd.pc = "auto" => cmd.effort # NoKey
  /\ cmd.pc = "again" => cmd.attempt < maxAttempts
  /\ cmd.pc = "write" => cmd.effort # NoKey \/ cmd.exists

\* The inductive invariant.
IInv == TypeOK /\ PromptsInv /\ SavedConfigUsable

\* A command at its beginning or its end.
LEMMA CommandAtType ==
  ASSUME NEW name \in {"launch", "setup", "rotate"}, NEW pc \in PCs
  PROVE  /\ CommandAt(pc, name) \in Command /\ CommandAt(pc, name).pc = pc
         /\ ~ CommandAt(pc, name).exists /\ CommandAt(pc, name).effort = NoKey
  <1>1. Bare \in Accounts /\ 1 \in 1 .. maxAttempts
    BY OnboardingAssumption DEF maxAttempts
  <1> QED BY <1>1 DEF CommandAt, Command

LEMMA InitIInv == Init => IInv
  <1> SUFFICES ASSUME Init PROVE IInv OBVIOUS
  <1> USE OnboardingAssumption
  <1>1. cmd = CommandAt("idle", "launch")
    BY DEF Init
  <1>2. cmd \in Command /\ cmd.pc = "idle" /\ ~ cmd.exists /\ cmd.effort = NoKey
    <2>1. "idle" \in PCs /\ "launch" \in {"launch", "setup", "rotate"}
      BY DEF PCs, Ended
    <2> QED BY <1>1, <2>1, CommandAtType
  <1>3. TypeOK
    <2>1. saved \in [by : 0 .. MaxRuns, pasted : Keys \cup {NoKey}, warned : BOOLEAN]
      BY DEF Init
    <2>2. /\ config \in Configs \cup {Absent}
          /\ stored \in [Accounts -> 0 .. MaxRuns] /\ runs \in 0 .. MaxRuns
          /\ valid \subseteq Keys
      BY DEF Init
    <2>3. /\ keychain \in [Accounts -> Keys \cup {NoKey}]
          /\ remote \in [Remote -> Keys \cup {NoKey}]
      BY DEF Init
    <2> QED BY <1>2, <2>1, <2>2, <2>3 DEF TypeOK
  <1>4. PromptsInv
    BY <1>2 DEF Init, PromptsInv, HasRef
  <1> QED BY <1>3, <1>4 DEF Init, IInv, SavedConfigUsable

\* A step that leaves the disk and the keychain and does not touch what the
\* invariant says of the command keeps it.
LEMMA CommandStep ==
  ASSUME IInv, StoresUnchanged, UNCHANGED <<remote, valid>>, runs' \in 0 .. MaxRuns,
         cmd' \in Command,
         cmd'.exists => config # Absent,
         cmd'.pc \in HasRef => Ready(cmd'.ref),
         cmd'.pc = "store" => cmd'.pasted \in Keys,
         cmd'.effort \in ValidSpecs \cup {NoKey},
         cmd'.pc = "auto" => cmd'.effort # NoKey,
         cmd'.pc = "again" => cmd'.attempt < maxAttempts,
         cmd'.pc = "write" => cmd'.effort # NoKey \/ cmd'.exists
  PROVE  IInv'
  <1>1. TypeOK'
    BY DEF IInv, TypeOK, StoresUnchanged
  <1>2. Ready(cmd'.ref) => Ready(cmd.ref)'
    BY DEF Ready, StoresUnchanged
  <1>3. PromptsInv'
    BY <1>2 DEF IInv, PromptsInv, StoresUnchanged
  <1>4. SavedConfigUsable'
    BY DEF IInv, SavedConfigUsable, StoresUnchanged
  <1> QED BY <1>1, <1>3, <1>4 DEF IInv

\* The commands a step leads to, one lemma for each field list that changes.
LEMMA GotoKeeps ==
  ASSUME IInv, NEW pc \in PCs \ {"again"}, Goto(pc),
         pc \in HasRef => Ready(cmd.ref),
         pc = "store" => cmd.pasted \in Keys,
         pc = "auto" => cmd.effort # NoKey,
         pc = "write" => cmd.effort # NoKey \/ cmd.exists
  PROVE  IInv'
  <1>1. cmd' = [cmd EXCEPT !.pc = pc] /\ StoresUnchanged /\ UNCHANGED <<remote, valid, runs>>
    BY DEF Goto, Becomes
  <1>2. cmd \in Command
    BY DEF IInv, TypeOK
  <1>3. cmd' \in Command /\ cmd'.pc = pc /\ cmd'.exists = cmd.exists /\ cmd'.ref = cmd.ref
          /\ cmd'.pasted = cmd.pasted /\ cmd'.effort = cmd.effort
    BY <1>1, <1>2 DEF Command
  <1>4. runs' \in 0 .. MaxRuns
    BY <1>1 DEF IInv, TypeOK
  <1>5. PromptsInv
    BY DEF IInv
  <1>6. /\ cmd'.exists => config # Absent
        /\ cmd'.effort \in ValidSpecs \cup {NoKey}
    BY <1>3, <1>5 DEF PromptsInv
  <1> QED BY <1>1, <1>3, <1>4, <1>6, CommandStep

LEMMA NextIInv == IInv /\ [Next]_vars => IInv'
  <1> SUFFICES ASSUME IInv, [Next]_vars PROVE IInv' OBVIOUS
  <1> USE OnboardingAssumption
  <1>0. cmd \in Command /\ runs \in 0 .. MaxRuns /\ PromptsInv
    BY DEF IInv, TypeOK
  <1>1. CASE Begin
    <2>1. PICK name \in {"launch", "setup", "rotate"} : cmd' = CommandAt("stat", name)
      BY <1>1 DEF Begin
    <2>2. cmd' \in Command /\ cmd'.pc = "stat" /\ ~ cmd'.exists /\ cmd'.effort = NoKey
      BY <2>1, CommandAtType DEF PCs, Ended
    <2>3. runs' \in 0 .. MaxRuns /\ StoresUnchanged /\ UNCHANGED <<remote, valid>>
      BY <1>0, <1>1 DEF Begin
    <2> QED BY <2>2, <2>3, CommandStep DEF HasRef
  <1>2. CASE Stat
    <2>1. PICK pc \in {"scheme", "rerun", "load"}, exists \in BOOLEAN :
            /\ cmd' = [cmd EXCEPT !.pc = pc, !.exists = exists]
            /\ exists => config # Absent
      BY <1>2 DEF Stat, Becomes
    <2>2. cmd' \in Command /\ cmd'.pc = pc /\ cmd'.exists = exists
            /\ cmd'.effort = cmd.effort
      BY <1>0, <2>1 DEF Command, PCs, Ended
    <2>3. StoresUnchanged /\ UNCHANGED <<remote, valid, runs>>
      BY <1>2 DEF Stat, Becomes
    <2> QED BY <1>0, <2>1, <2>2, <2>3, CommandStep DEF HasRef, PromptsInv
  <1>3. CASE Rerun
    BY <1>3, GotoKeeps DEF Rerun, PCs, Ended, HasRef
  <1>4. CASE ChooseScheme
    <2>1. StoresUnchanged /\ UNCHANGED <<remote, valid, runs>>
      BY <1>4 DEF ChooseScheme, Becomes
    <2>2. PICK pc \in {"lookup", "paste", "resolve"}, a \in Accounts, ref \in Refs \cup {NoKey} :
            /\ cmd' = [cmd EXCEPT !.pasted = NoKey, !.pc = pc, !.account = a, !.ref = ref]
            /\ pc = "resolve" => ref \in Refs /\ ref.scheme \in {"op", "infisical"}
      <3>1. cmd = [cmd EXCEPT !.account = cmd.account, !.ref = cmd.ref]
              /\ cmd.account \in Accounts /\ cmd.ref \in Refs \cup {NoKey}
        BY <1>0 DEF Command
      <3>2. CASE \E a \in Accounts :
               cmd' = [cmd EXCEPT !.pasted = NoKey, !.pc = "lookup", !.account = a]
        <4>1. PICK a \in Accounts :
                cmd' = [cmd EXCEPT !.pasted = NoKey, !.pc = "lookup", !.account = a]
          BY <3>2
        <4>2. cmd' = [cmd EXCEPT !.pasted = NoKey, !.pc = "lookup", !.account = a,
                                 !.ref = cmd.ref]
          BY <1>0, <4>1 DEF Command
        <4> QED BY <3>1, <4>2
      <3>3. CASE cmd' = [cmd EXCEPT !.pasted = NoKey, !.pc = "paste", !.account = Bare]
        <4>2. cmd' = [cmd EXCEPT !.pasted = NoKey, !.pc = "paste", !.account = Bare,
                                 !.ref = cmd.ref]
          BY <1>0, <3>3 DEF Command
        <4> QED BY <3>1, <4>2
      <3>4. CASE \E ref \in Refs :
               /\ ref.scheme \in {"op", "infisical"}
               /\ cmd' = [cmd EXCEPT !.pasted = NoKey, !.pc = "resolve", !.ref = ref]
        <4>1. PICK ref \in Refs :
               /\ ref.scheme \in {"op", "infisical"}
               /\ cmd' = [cmd EXCEPT !.pasted = NoKey, !.pc = "resolve", !.ref = ref]
          BY <3>4
        <4>2. cmd' = [cmd EXCEPT !.pasted = NoKey, !.pc = "resolve",
                                 !.account = cmd.account, !.ref = ref]
          BY <1>0, <4>1 DEF Command
        <4> QED BY <3>1, <4>1, <4>2
      <3> QED BY <1>4, <3>2, <3>3, <3>4 DEF ChooseScheme, Becomes
    <2>3. cmd' \in Command /\ cmd'.pc = pc /\ cmd'.exists = cmd.exists /\ cmd'.ref = ref
            /\ cmd'.effort = cmd.effort
      BY <1>0, <2>2 DEF Command, PCs, Ended
    <2>4. cmd'.pc \in HasRef => Ready(cmd'.ref)
      BY <2>2, <2>3 DEF HasRef, Ready
    <2> QED BY <1>0, <2>1, <2>3, <2>4, CommandStep DEF PromptsInv
  <1>5. CASE Lookup
    <2>1. CASE Goto("paste")
      BY <2>1, GotoKeeps DEF PCs, Ended, HasRef
    <2>2. CASE /\ keychain[cmd.account] # NoKey
               /\ Becomes([cmd EXCEPT !.pc = "resolve", !.ref = SystemRef(cmd.account)])
               /\ StoresUnchanged
      <3>1. PICK ref \in Refs : ref = SystemRef(cmd.account)
        BY <1>0 DEF Command, Refs, SystemRef
      <3>2. Ready(ref)
        BY <2>2, <3>1 DEF Ready, SystemRef
      <3>3. cmd' = [cmd EXCEPT !.pc = "resolve", !.ref = ref]
        BY <2>2, <3>1 DEF Becomes
      <3>4. cmd' \in Command /\ cmd'.pc = "resolve" /\ cmd'.exists = cmd.exists
              /\ cmd'.ref = ref /\ cmd'.effort = cmd.effort
        BY <1>0, <3>3 DEF Command, PCs, Ended
      <3>5. StoresUnchanged /\ UNCHANGED <<remote, valid, runs>>
        BY <2>2 DEF Becomes
      <3> QED BY <1>0, <3>2, <3>4, <3>5, CommandStep DEF PromptsInv
    <2>3. PICK found \in KeychainLookup(cmd.account) :
            /\ Becomes(IF found = NoKey THEN [cmd EXCEPT !.pc = "paste"]
                       ELSE [cmd EXCEPT !.pc = "resolve", !.ref = SystemRef(cmd.account)])
            /\ StoresUnchanged
      BY <1>5 DEF Lookup
    <2>4. found # NoKey => keychain[cmd.account] # NoKey
      BY <2>3 DEF KeychainLookup
    <2> QED BY <2>1, <2>2, <2>3, <2>4 DEF Goto
  <1>6. CASE Paste
    <2>1. CASE Goto("scheme")
      BY <2>1, GotoKeeps DEF PCs, Ended, HasRef
    <2>2. CASE ~ Goto("scheme")
      <3>1. PICK key \in Keys : cmd' = [cmd EXCEPT !.pc = "store", !.pasted = key]
        BY <1>6, <2>2 DEF Paste, Becomes
      <3>2. cmd' \in Command /\ cmd'.pc = "store" /\ cmd'.exists = cmd.exists
              /\ cmd'.pasted = key /\ cmd'.effort = cmd.effort
        BY <1>0, <3>1 DEF Command, PCs, Ended
      <3>3. StoresUnchanged /\ UNCHANGED <<remote, valid, runs>>
        BY <1>6, <2>2 DEF Paste, Becomes
      <3> QED BY <1>0, <3>1, <3>2, <3>3, CommandStep DEF HasRef, PromptsInv
    <2> QED BY <2>1, <2>2
  <1>7. CASE KeychainStore
    <2>1. PICK ref \in Refs : ref = SystemRef(cmd.account)
      BY <1>0 DEF Command, Refs, SystemRef
    <2>2. cmd' = [cmd EXCEPT !.pc = "resolve", !.ref = ref]
      BY <1>7, <2>1 DEF KeychainStore, StoreTold, Becomes
    <2>3. cmd' \in Command /\ cmd'.pc = "resolve" /\ cmd'.exists = cmd.exists
            /\ cmd'.ref = ref /\ cmd'.effort = cmd.effort
      BY <1>0, <2>2 DEF Command, PCs, Ended
    <2>4. cmd.pasted \in Keys /\ cmd.account \in Accounts
      BY <1>0, <1>7 DEF PromptsInv, KeychainStore, At, Command
    <2>5. /\ keychain' = [keychain EXCEPT ![cmd.account] = cmd.pasted]
          /\ stored' = [stored EXCEPT ![cmd.account] = runs]
          /\ UNCHANGED <<config, saved, remote, valid, runs>>
      BY <1>7 DEF KeychainStore, StoreTold, Becomes
    <2>6. TypeOK'
      BY <1>0, <2>3, <2>4, <2>5 DEF IInv, TypeOK
    <2>7. \A a \in Accounts : keychain[a] # NoKey => keychain'[a] # NoKey
      BY <2>4, <2>5 DEF IInv, TypeOK
    <2>8. keychain'[cmd.account] # NoKey
      BY <2>4, <2>5 DEF IInv, TypeOK
    <2>9. Ready(cmd.ref)'
      BY <2>1, <2>3, <2>8 DEF Ready, SystemRef
    <2>10. PromptsInv'
      BY <1>0, <2>3, <2>5, <2>9 DEF PromptsInv
    <2>11. SavedConfigUsable'
      BY <2>5, <2>7 DEF IInv, SavedConfigUsable, Refs
    <2> QED BY <2>6, <2>10, <2>11 DEF IInv
  <1>8. CASE ResolveRef
    <2>1. PICK pc \in {"write", "effort", "liveness"}, token \in Keys \cup {NoKey},
               warned \in BOOLEAN :
            /\ cmd' = [cmd EXCEPT !.pc = pc, !.token = token, !.warned = warned]
            /\ pc = "write" => cmd.exists
      <3>1. PICK token \in Resolve(cmd.ref) :
              cmd' = IF token = NoKey
                     THEN [cmd EXCEPT !.pc = Accepted, !.token = token, !.warned = TRUE]
                     ELSE [cmd EXCEPT !.pc = "liveness", !.token = token]
        BY <1>8 DEF ResolveRef, Becomes
      <3>2. cmd.ref \in Refs
        BY <1>0, <1>8 DEF PromptsInv, HasRef, Ready, ResolveRef, At
      <3>3. token \in Keys \cup {NoKey}
        BY <3>1, <3>2
           DEF Resolve, KeychainLookup, ResolveRemote, Refs, IInv, TypeOK
      <3>4. PICK accepted \in {"write", "effort"} :
              accepted = Accepted /\ (accepted = "write" => cmd.exists)
        BY DEF Accepted
      <3>5. CASE token = NoKey
        BY <3>1, <3>3, <3>4, <3>5
      <3>6. CASE token # NoKey
        <4>1. cmd' = [cmd EXCEPT !.pc = "liveness", !.token = token, !.warned = cmd.warned]
          BY <1>0, <3>1, <3>6 DEF Command
        <4> QED BY <1>0, <3>3, <4>1 DEF Command
      <3> QED BY <3>5, <3>6
    <2>2. cmd' \in Command /\ cmd'.pc = pc /\ cmd'.exists = cmd.exists
            /\ cmd'.ref = cmd.ref /\ cmd'.effort = cmd.effort
      BY <1>0, <2>1 DEF Command, PCs, Ended
    <2>3. StoresUnchanged /\ UNCHANGED <<remote, valid, runs>>
      BY <1>8 DEF ResolveRef, Becomes
    <2>4. Ready(cmd.ref)
      BY <1>0, <1>8 DEF PromptsInv, HasRef, ResolveRef, At
    <2> QED BY <1>0, <2>1, <2>2, <2>3, <2>4, CommandStep DEF PromptsInv
  <1>9. CASE CheckLiveness \/ Again
    <2>1. PICK pc \in {"write", "effort", "again", "scheme"}, attempt \in 1 .. maxAttempts,
               warned \in BOOLEAN :
            /\ cmd' = [cmd EXCEPT !.pc = pc, !.attempt = attempt, !.warned = warned]
            /\ pc = "write" => cmd.exists
            /\ pc = "again" => attempt < maxAttempts
      <3>1. PICK accepted \in {"write", "effort"} :
              accepted = Accepted /\ (accepted = "write" => cmd.exists)
        BY DEF Accepted
      <3>2. cmd.attempt \in 1 .. maxAttempts /\ cmd.warned \in BOOLEAN
        BY <1>0 DEF Command
      <3>3. CASE CheckLiveness
        <4>1. PICK pc \in {"write", "effort", "again"}, warned \in BOOLEAN :
                /\ cmd' = [cmd EXCEPT !.pc = pc, !.warned = warned]
                /\ pc = "write" => cmd.exists
                /\ pc = "again" => cmd.attempt < maxAttempts
          BY <3>1, <3>3 DEF CheckLiveness, Becomes
        <4>2. cmd' = [cmd EXCEPT !.pc = pc, !.attempt = cmd.attempt, !.warned = warned]
          BY <1>0, <4>1 DEF Command
        <4> QED BY <3>2, <4>1, <4>2
      <3>4. CASE cmd' = [cmd EXCEPT !.pc = "scheme", !.attempt = @ + 1] /\ At("again")
        <4>1. cmd.attempt + 1 \in 1 .. maxAttempts
          BY <1>0, <3>2, <3>4 DEF PromptsInv, At, maxAttempts
        <4>2. cmd' = [cmd EXCEPT !.pc = "scheme", !.attempt = cmd.attempt + 1,
                                 !.warned = cmd.warned]
          BY <1>0, <3>4 DEF Command
        <4> QED BY <3>2, <4>1, <4>2
      <3>5. CASE cmd' = [cmd EXCEPT !.pc = Accepted]
        <4>1. cmd' = [cmd EXCEPT !.pc = accepted, !.attempt = cmd.attempt,
                                 !.warned = cmd.warned]
          BY <1>0, <3>1, <3>5 DEF Command
        <4> QED BY <3>1, <3>2, <4>1
      <3> QED BY <1>9, <3>3, <3>4, <3>5 DEF Again, Becomes
    <2>2. cmd' \in Command /\ cmd'.pc = pc /\ cmd'.exists = cmd.exists
            /\ cmd'.ref = cmd.ref /\ cmd'.effort = cmd.effort /\ cmd'.attempt = attempt
      BY <1>0, <2>1 DEF Command, PCs, Ended
    <2>3. StoresUnchanged /\ UNCHANGED <<remote, valid, runs>>
      BY <1>9 DEF CheckLiveness, Again, Becomes
    <2>4. Ready(cmd.ref)
      BY <1>0, <1>9 DEF PromptsInv, HasRef, CheckLiveness, Again, At
    <2> QED BY <1>0, <2>1, <2>2, <2>3, <2>4, CommandStep DEF PromptsInv
  <1>10. CASE ProxyChoice
    <2>1. PICK spec \in ValidSpecs : cmd' = [cmd EXCEPT !.pc = "auto", !.effort = spec]
      BY <1>10 DEF ProxyChoice, Becomes
    <2>2. cmd' \in Command /\ cmd'.pc = "auto" /\ cmd'.exists = cmd.exists
            /\ cmd'.ref = cmd.ref /\ cmd'.effort = spec
      BY <1>0, <2>1 DEF Command, PCs, Ended
    <2>3. StoresUnchanged /\ UNCHANGED <<remote, valid, runs>>
      BY <1>10 DEF ProxyChoice, Becomes
    <2>4. Ready(cmd.ref)
      BY <1>0, <1>10 DEF PromptsInv, HasRef, ProxyChoice, At
    <2> QED BY <1>0, <2>1, <2>2, <2>3, <2>4, CommandStep DEF PromptsInv
  <1>11. CASE AutoMode
    <2>1. Ready(cmd.ref) /\ cmd.effort # NoKey
      BY <1>0, <1>11 DEF PromptsInv, HasRef, AutoMode, At
    <2> QED BY <1>11, <2>1, GotoKeeps DEF AutoMode, PCs, Ended
  <1>12. CASE WriteConfig
    <2>1. PICK pc \in {"load", "done"} : cmd' = CommandAt(pc, cmd.name)
      BY <1>12 DEF WriteConfig, Becomes
    <2>2. cmd.name \in {"launch", "setup", "rotate"} /\ cmd.pasted \in Keys \cup {NoKey}
            /\ cmd.warned \in BOOLEAN
      BY <1>0 DEF Command
    <2>3. cmd' \in Command /\ cmd'.pc = pc /\ ~ cmd'.exists /\ cmd'.effort = NoKey
      <3>1. pc \in PCs
        BY DEF PCs, Ended
      <3> QED BY <2>1, <2>2, <3>1, CommandAtType
    <2>4. Ready(cmd.ref) /\ cmd.effort \in ValidSpecs \cup {NoKey}
            /\ (cmd.effort # NoKey \/ config.proxy_effort \in ValidSpecs)
      BY <1>0, <1>12 DEF PromptsInv, HasRef, WriteConfig, At
    <2>5. PICK effort \in ValidSpecs :
            config' = [api_key_ref |-> cmd.ref, proxy_effort |-> effort]
      BY <1>12, <2>4 DEF WriteConfig
    <2>6. saved' = [by |-> runs, pasted |-> cmd.pasted, warned |-> cmd.warned]
            /\ UNCHANGED <<keychain, stored, remote, valid, runs>>
      BY <1>12 DEF WriteConfig, Becomes
    <2>7. config' \in Configs /\ config'.proxy_effort \in ValidSpecs /\ config' # Absent
            /\ config'.api_key_ref = cmd.ref
      BY <2>4, <2>5 DEF Configs, Ready, Absent
    <2>8. TypeOK'
      BY <1>0, <2>2, <2>3, <2>6, <2>7 DEF IInv, TypeOK
    <2>9. PromptsInv'
      BY <2>1, <2>3, <2>7 DEF PromptsInv, HasRef
    <2>10. SavedConfigUsable'
      BY <2>4, <2>6, <2>7 DEF SavedConfigUsable, Ready
    <2> QED BY <2>8, <2>9, <2>10 DEF IInv
  <1>13. CASE Launch
    <2>1. CASE config.api_key_ref = NoKey
      BY <1>13, <2>1, GotoKeeps DEF Launch, PCs, Ended, HasRef
    <2>2. CASE config.api_key_ref # NoKey
      <3>1. PICK token \in Resolve(config.api_key_ref) :
              cmd' = [cmd EXCEPT !.pc = "running", !.token = token]
        BY <1>13, <2>2 DEF Launch, Becomes
      <3>2. config.api_key_ref \in Refs
        BY <2>2 DEF IInv, TypeOK, Configs, Absent
      <3>3. token \in Keys \cup {NoKey}
        BY <3>1, <3>2
           DEF Resolve, KeychainLookup, ResolveRemote, Refs, IInv, TypeOK
      <3>4. cmd' \in Command /\ cmd'.pc = "running" /\ cmd'.exists = cmd.exists
              /\ cmd'.effort = cmd.effort
        BY <1>0, <3>1, <3>3 DEF Command, PCs, Ended
      <3>5. StoresUnchanged /\ UNCHANGED <<remote, valid, runs>>
        BY <1>13, <2>2 DEF Launch, Becomes
      <3> QED BY <1>0, <3>4, <3>5, CommandStep DEF HasRef, PromptsInv
    <2> QED BY <2>1, <2>2
  <1>14. CASE Abort
    <2>1. cmd' = CommandAt("stopped", cmd.name)
      BY <1>14 DEF Abort, Becomes
    <2>2. cmd.name \in {"launch", "setup", "rotate"}
      BY <1>0 DEF Command
    <2>3. cmd' \in Command /\ cmd'.pc = "stopped" /\ ~ cmd'.exists /\ cmd'.effort = NoKey
      <3>1. "stopped" \in PCs
        BY DEF PCs, Ended
      <3> QED BY <2>1, <2>2, <3>1, CommandAtType
    <2>4. StoresUnchanged /\ UNCHANGED <<remote, valid, runs>>
      BY <1>14 DEF Abort, Becomes
    <2> QED BY <1>0, <2>3, <2>4, CommandStep DEF HasRef
  <1>15. CASE UNCHANGED vars
    BY <1>15 DEF vars, IInv, TypeOK, PromptsInv, SavedConfigUsable, Ready
  <1> QED
    BY <1>1, <1>2, <1>3, <1>4, <1>5, <1>6, <1>7, <1>8, <1>9, <1>10, <1>11, <1>12, <1>13,
       <1>14, <1>15 DEF Next

-------------------------------------------------------------------------------

\* Whatever commands are run, in whatever order and wherever they are cut off: what
\* they save is usable by a launch.
THEOREM SavedConfigStaysUsable == Spec => []SavedConfigUsable
  <1>1. IInv => SavedConfigUsable
    BY DEF IInv
  <1> QED BY <1>1, InitIInv, NextIInv, PTL DEF Spec

-------------------------------------------------------------------------------
(* The key a command has entered or accepted *)

\* The steps of a command before its configuration is written.
Prompts == PCs \ (Ended \cup {"load"})

\* What is known of the key of a command: an entered one is the entry its reference
\* stands for, one that has been accepted is the one it stands for.
Vetted(c) ==
  /\ c.pc \in {"lookup", "paste"} => c.pasted = NoKey
  /\ c.pc \in HasRef /\ c.pasted # NoKey =>
       c.ref = SystemRef(c.account) /\ keychain[c.account] = c.pasted
  /\ c.pc = "liveness" => c.token = StandsFor(c.ref)
  /\ c.pc = "again" => c.warned
  /\ c.pc \in {"effort", "auto", "write"} /\ ~ c.warned =>
       c.token \in valid /\ c.token = StandsFor(c.ref)

\* What is known of the reference that was saved, until another command stores a key
\* under its account.
SavedVetted ==
  /\ saved.by <= runs
  /\ saved.pasted # NoKey => saved.by > 0 /\ config.api_key_ref.scheme = "system"
  /\ EnteredKeyTakesEffect
  /\ saved.by > 0 /\ ~ saved.warned /\ ~ StoredSince => StandsFor(config.api_key_ref) \in valid

\* The inductive invariant of the two: a command that prompts is a later one than the
\* one that saved, so that what it stores is seen to be stored since.
VetInv ==
  /\ IInv
  /\ Vetted(cmd) /\ SavedVetted
  /\ cmd.pc \in Prompts => saved.by < runs
  /\ LaunchVetted

LEMMA VetInit == Init => VetInv
  <1> SUFFICES ASSUME Init PROVE VetInv OBVIOUS
  <1>1. cmd.pc = "idle" /\ cmd.pasted = NoKey
    BY DEF Init, CommandAt
  <1> QED
    BY <1>1, InitIInv
    DEF Init, VetInv, Vetted, HasRef, SavedVetted, EnteredKeyTakesEffect, Prompts, Ended,
        LaunchVetted, At

\* A step that leaves the disk and the keychain keeps the invariant if it keeps what
\* is known of the command.
LEMMA VetCommandStep ==
  ASSUME VetInv, IInv', StoresUnchanged, UNCHANGED <<remote, valid>>,
         runs' \in {runs, runs + 1}, Vetted(cmd'),
         cmd'.pc \in Prompts => cmd.pc \in Prompts \/ runs' = runs + 1,
         /\ cmd'.pc = "running" /\ saved.by > 0 /\ ~ saved.warned /\ ~ StoredSince
         => cmd'.token \in valid
  PROVE  VetInv'
  <1>0. UNCHANGED <<config, keychain, stored, saved, remote, valid>>
    BY DEF StoresUnchanged
  <1>1. Vetted(cmd)'
    BY <1>0 DEF Vetted, StandsFor
  <1>2. saved.by \in Nat /\ runs \in Nat
    BY OnboardingAssumption DEF VetInv, IInv, TypeOK
  <1>3. SavedVetted'
    BY <1>0, <1>2 DEF VetInv, SavedVetted, EnteredKeyTakesEffect, StoredSince, StandsFor
  <1>4. cmd'.pc \in Prompts => saved'.by < runs'
    BY <1>0, <1>2 DEF VetInv, SavedVetted
  <1>5. LaunchVetted'
    BY <1>0 DEF LaunchVetted, StoredSince, At
  <1> QED BY <1>1, <1>3, <1>4, <1>5 DEF VetInv

\* What a reference resolves to, if to anything, is what it stands for.
LEMMA ResolveIs ==
  ASSUME NEW ref, NEW token \in Resolve(ref), token # NoKey
  PROVE  token = StandsFor(ref)
  BY DEF Resolve, StandsFor, KeychainLookup, ResolveRemote

\* Starting, looking for the file, choosing a scheme, an account, a key.
LEMMA VetPrompts ==
  ASSUME VetInv, IInv',
         \/ Begin \/ Stat \/ Rerun \/ ChooseScheme \/ Lookup \/ Paste \/ ProxyChoice
         \/ AutoMode \/ Abort
  PROVE  VetInv'
  <1> USE DEF Becomes, Goto, At, HasRef, Prompts, PCs, Ended
  <1>0. cmd \in Command /\ Vetted(cmd)
    BY DEF VetInv, IInv, TypeOK
  <1>1. CASE Begin
    <2>1. PICK name \in {"launch", "setup", "rotate"} : cmd' = CommandAt("stat", name)
      BY <1>1 DEF Begin
    <2>2. cmd'.pc = "stat"
      BY <2>1 DEF CommandAt
    <2>3. StoresUnchanged /\ UNCHANGED <<remote, valid>> /\ runs' = runs + 1
      BY <1>1 DEF Begin
    <2> QED BY <2>2, <2>3, VetCommandStep DEF Vetted
  <1>2. CASE Abort
    <2>1. cmd'.pc = "stopped"
      BY <1>2 DEF Abort, CommandAt
    <2>2. StoresUnchanged /\ UNCHANGED <<remote, valid, runs>>
      BY <1>2 DEF Abort
    <2> QED BY <2>1, <2>2, VetCommandStep DEF Vetted
  <1>3. CASE Stat
    <2>1. cmd.pc = "stat" /\ cmd'.pc \in {"scheme", "rerun", "load"}
      BY <1>0, <1>3 DEF Stat, Command
    <2>2. StoresUnchanged /\ UNCHANGED <<remote, valid, runs>>
      BY <1>3 DEF Stat
    <2> QED BY <2>1, <2>2, VetCommandStep DEF Vetted
  <1>4. CASE Rerun
    <2>1. cmd.pc = "rerun" /\ cmd'.pc \in {"scheme", "done"}
      BY <1>0, <1>4 DEF Rerun, Command
    <2>2. StoresUnchanged /\ UNCHANGED <<remote, valid, runs>>
      BY <1>4 DEF Rerun
    <2> QED BY <2>1, <2>2, VetCommandStep DEF Vetted
  <1>5. CASE ChooseScheme
    <2>1. /\ cmd.pc = "scheme" /\ cmd'.pc \in {"lookup", "paste", "resolve"}
          /\ cmd'.pasted = NoKey
      BY <1>0, <1>5 DEF ChooseScheme, Command
    <2>2. StoresUnchanged /\ UNCHANGED <<remote, valid, runs>>
      BY <1>5 DEF ChooseScheme
    <2> QED BY <2>1, <2>2, VetCommandStep DEF Vetted
  <1>6. CASE Lookup
    <2>1. PICK found : Becomes(IF found = NoKey THEN [cmd EXCEPT !.pc = "paste"]
               ELSE [cmd EXCEPT !.pc = "resolve", !.ref = SystemRef(cmd.account)])
      BY <1>6 DEF Lookup
    <2>2. cmd.pc = "lookup" /\ cmd'.pc \in {"paste", "resolve"} /\ cmd'.pasted = cmd.pasted
      BY <1>0, <1>6, <2>1 DEF Lookup, Command
    <2>3. StoresUnchanged /\ UNCHANGED <<remote, valid, runs>>
      BY <1>6 DEF Lookup
    <2> QED BY <1>0, <2>2, <2>3, VetCommandStep DEF Vetted
  <1>7. CASE Paste
    <2>1. cmd.pc = "paste" /\ cmd'.pc \in {"scheme", "store"}
      BY <1>0, <1>7 DEF Paste, Command
    <2>2. StoresUnchanged /\ UNCHANGED <<remote, valid, runs>>
      BY <1>7 DEF Paste
    <2> QED BY <2>1, <2>2, VetCommandStep DEF Vetted
  <1>8. CASE ProxyChoice \/ AutoMode
    <2>1. /\ cmd.pc \in {"effort", "auto"} /\ cmd'.pc \in {"auto", "write"}
          /\ cmd'.pasted = cmd.pasted /\ cmd'.ref = cmd.ref /\ cmd'.account = cmd.account
          /\ cmd'.token = cmd.token /\ cmd'.warned = cmd.warned
      BY <1>0, <1>8 DEF ProxyChoice, AutoMode, Command
    <2>2. StoresUnchanged /\ UNCHANGED <<remote, valid, runs>>
      BY <1>8 DEF ProxyChoice, AutoMode
    <2>3. Vetted(cmd')
      BY <1>0, <2>1 DEF Vetted
    <2> QED BY <2>1, <2>2, <2>3, VetCommandStep
  <1> QED BY <1>1, <1>2, <1>3, <1>4, <1>5, <1>6, <1>7, <1>8

\* The reference is resolved, and its key shown to the service.
LEMMA VetCheck ==
  ASSUME VetInv, IInv', ResolveRef \/ CheckLiveness \/ Again
  PROVE  VetInv'
  <1> USE DEF Becomes, At, HasRef, Prompts, PCs, Ended
  <1>0. cmd \in Command /\ Vetted(cmd)
    BY DEF VetInv, IInv, TypeOK
  <1>1. PICK accepted \in {"write", "effort"} : accepted = Accepted
    BY DEF Accepted
  <1>2. StoresUnchanged /\ UNCHANGED <<remote, valid, runs>>
    BY DEF ResolveRef, CheckLiveness, Again
  <1>3. CASE ResolveRef
    <2>1. PICK token \in Resolve(cmd.ref) :
            cmd' = IF token = NoKey
                   THEN [cmd EXCEPT !.pc = Accepted, !.token = token, !.warned = TRUE]
                   ELSE [cmd EXCEPT !.pc = "liveness", !.token = token]
      BY <1>3 DEF ResolveRef
    <2>2. cmd.pc = "resolve"
      BY <1>3 DEF ResolveRef
    <2>3. CASE token = NoKey
      <3>1. /\ cmd'.pc \in {"write", "effort"} /\ cmd'.warned
            /\ cmd'.pasted = cmd.pasted /\ cmd'.ref = cmd.ref /\ cmd'.account = cmd.account
        BY <1>0, <1>1, <2>1, <2>3 DEF Command
      <3>2. Vetted(cmd')
        BY <1>0, <2>2, <3>1 DEF Vetted
      <3> QED BY <1>2, <2>2, <3>1, <3>2, VetCommandStep
    <2>4. CASE token # NoKey
      <3>1. /\ cmd'.pc = "liveness" /\ cmd'.token = token
            /\ cmd'.pasted = cmd.pasted /\ cmd'.ref = cmd.ref /\ cmd'.account = cmd.account
        BY <1>0, <2>1, <2>4 DEF Command
      <3>2. token = StandsFor(cmd.ref)
        BY <2>4, ResolveIs
      <3>3. Vetted(cmd')
        BY <1>0, <2>2, <3>1, <3>2 DEF Vetted
      <3> QED BY <1>2, <2>2, <3>1, <3>3, VetCommandStep
    <2> QED BY <2>3, <2>4
  <1>4. CASE CheckLiveness
    <2>1. PICK pc \in {"write", "effort", "again"}, warned \in BOOLEAN :
            /\ cmd' = [cmd EXCEPT !.pc = pc, !.warned = warned]
            /\ pc = "again" => warned
            /\ ~ warned => cmd.token \in valid
      BY <1>1, <1>4 DEF CheckLiveness
    <2>2. /\ cmd'.pc = pc /\ cmd'.warned = warned /\ cmd'.token = cmd.token
          /\ cmd'.pasted = cmd.pasted /\ cmd'.ref = cmd.ref /\ cmd'.account = cmd.account
      BY <1>0, <2>1 DEF Command
    <2>3. cmd.pc = "liveness"
      BY <1>4 DEF CheckLiveness
    <2>4. Vetted(cmd')
      BY <1>0, <2>1, <2>2, <2>3 DEF Vetted
    <2> QED BY <1>2, <2>2, <2>3, <2>4, VetCommandStep
  <1>5. CASE Again
    <2>1. cmd.pc = "again" /\ cmd.warned
      BY <1>0, <1>5 DEF Again, Vetted
    <2>2. /\ cmd'.pc \in {"scheme", "write", "effort"} /\ cmd'.warned = cmd.warned
          /\ cmd'.pasted = cmd.pasted /\ cmd'.ref = cmd.ref /\ cmd'.account = cmd.account
      BY <1>0, <1>1, <1>5 DEF Again, Command
    <2>3. Vetted(cmd')
      BY <1>0, <2>1, <2>2 DEF Vetted
    <2> QED BY <1>2, <2>1, <2>2, <2>3, VetCommandStep
  <1> QED BY <1>3, <1>4, <1>5

\* A key is stored: what other accounts hold is as before, and the account that the
\* saved reference names is known to have changed.
LEMMA VetStore ==
  ASSUME VetInv, IInv', KeychainStore
  PROVE  VetInv'
  <1>0. cmd \in Command /\ TypeOK
    BY DEF VetInv, IInv, TypeOK
  <1>1. cmd.pc = "store" /\ saved.by < runs /\ cmd.account \in Accounts /\ cmd.pasted \in Keys
    BY <1>0 DEF KeychainStore, At, VetInv, Prompts, PCs, Ended, IInv, PromptsInv, Command
  <1>2. /\ keychain' = [keychain EXCEPT ![cmd.account] = cmd.pasted]
        /\ stored' = [stored EXCEPT ![cmd.account] = runs]
        /\ UNCHANGED <<config, saved, remote, valid, runs>>
    BY DEF KeychainStore, StoreTold, Becomes
  <1>3. /\ cmd'.pc = "resolve" /\ cmd'.ref = SystemRef(cmd.account)
        /\ cmd'.pasted = cmd.pasted /\ cmd'.account = cmd.account
    BY <1>0 DEF KeychainStore, StoreTold, Becomes, Command
  <1>4. keychain'[cmd.account] = cmd.pasted /\ stored'[cmd.account] = runs
    BY <1>0, <1>1, <1>2 DEF TypeOK
  <1>5. Vetted(cmd)'
    BY <1>3, <1>4 DEF Vetted, HasRef
  <1>6. saved.by > 0 =>
          \/ StoredSince'
          \/ /\ StandsFor(config.api_key_ref)' = StandsFor(config.api_key_ref)
             /\ StoredSince' <=> StoredSince
    <2> SUFFICES ASSUME saved.by > 0
                 PROVE  \/ StoredSince'
                        \/ /\ StandsFor(config.api_key_ref)' = StandsFor(config.api_key_ref)
                           /\ StoredSince' <=> StoredSince
      OBVIOUS
    <2>1. config.api_key_ref \in Refs
      BY DEF VetInv, IInv, SavedConfigUsable
    <2>2. CASE config.api_key_ref.scheme = "system" /\ config.api_key_ref.name = cmd.account
      BY <1>1, <1>2, <1>4, <2>2 DEF StoredSince
    <2>3. CASE config.api_key_ref.scheme = "system" /\ config.api_key_ref.name # cmd.account
      <3>1. config.api_key_ref.name \in Accounts
        BY <2>1, <2>3 DEF Refs
      <3>2. /\ keychain'[config.api_key_ref.name] = keychain[config.api_key_ref.name]
            /\ stored'[config.api_key_ref.name] = stored[config.api_key_ref.name]
        BY <1>0, <1>2, <2>3, <3>1 DEF TypeOK
      <3> QED BY <1>2, <2>3, <3>2 DEF StandsFor, StoredSince
    <2>4. CASE config.api_key_ref.scheme # "system"
      BY <1>2, <2>4 DEF StandsFor, StoredSince
    <2> QED BY <2>2, <2>3, <2>4
  <1>7. SavedVetted'
    BY <1>2, <1>6 DEF VetInv, SavedVetted, EnteredKeyTakesEffect
  <1>8. LaunchVetted' /\ (cmd'.pc \in Prompts => saved'.by < runs')
    BY <1>1, <1>2, <1>3 DEF LaunchVetted, At
  <1> QED BY <1>5, <1>7, <1>8 DEF VetInv

\* The configuration is written: what was known of the command is known of it.
LEMMA VetWrite ==
  ASSUME VetInv, IInv', WriteConfig
  PROVE  VetInv'
  <1>0. cmd \in Command /\ TypeOK /\ Vetted(cmd)
    BY DEF VetInv, IInv, TypeOK
  <1>1. /\ cmd.pc = "write" /\ saved.by < runs /\ runs \in Nat /\ saved.by \in Nat
        /\ cmd.pasted \in Keys \cup {NoKey} /\ Ready(cmd.ref)
    BY <1>0, OnboardingAssumption
    DEF WriteConfig, At, VetInv, Prompts, PCs, Ended, Command, TypeOK, IInv, PromptsInv, HasRef
  <1>2. /\ config'.api_key_ref = cmd.ref
        /\ saved' = [by |-> runs, pasted |-> cmd.pasted, warned |-> cmd.warned]
        /\ UNCHANGED <<keychain, stored, remote, valid, runs>>
    BY DEF WriteConfig, Becomes
  <1>3. cmd'.pc \in {"load", "done"}
    BY DEF WriteConfig, Becomes, CommandAt
  <1>4. Vetted(cmd)' /\ LaunchVetted' /\ (cmd'.pc \in Prompts => saved'.by < runs')
    BY <1>3 DEF Vetted, HasRef, LaunchVetted, At, Prompts, Ended
  <1>5. StandsFor(config.api_key_ref)' = StandsFor(cmd.ref)
    BY <1>2 DEF StandsFor
  <1>6. cmd.pasted # NoKey => cmd.ref.scheme = "system" /\ StandsFor(cmd.ref) = cmd.pasted
    BY <1>0, <1>1 DEF Vetted, HasRef, StandsFor, SystemRef
  <1>7. ~ cmd.warned => StandsFor(cmd.ref) \in valid
    BY <1>0, <1>1 DEF Vetted
  <1>8. SavedVetted'
    BY <1>1, <1>2, <1>5, <1>6, <1>7 DEF SavedVetted, EnteredKeyTakesEffect
  <1> QED BY <1>4, <1>8 DEF VetInv

\* A launch uses the key that the saved reference stands for.
LEMMA VetLaunch ==
  ASSUME VetInv, IInv', Launch
  PROVE  VetInv'
  <1> USE DEF Becomes, Goto, At
  <1>0. cmd \in Command /\ SavedVetted
    BY DEF VetInv, IInv, TypeOK
  <1>1. StoresUnchanged /\ UNCHANGED <<remote, valid, runs>>
    BY DEF Launch
  <1>2. cmd'.pc = "running"
    BY <1>0 DEF Launch, Command
  <1>3. saved.by > 0 /\ ~ saved.warned /\ ~ StoredSince => cmd'.token \in valid
    <2> SUFFICES ASSUME saved.by > 0, ~ saved.warned, ~ StoredSince
                 PROVE  cmd'.token \in valid
      OBVIOUS
    <2>1. config.api_key_ref \in Refs /\ config.api_key_ref # NoKey
      BY OnboardingAssumption DEF VetInv, IInv, SavedConfigUsable
    <2>2. PICK token \in Resolve(config.api_key_ref) \ {NoKey} :
            cmd' = [cmd EXCEPT !.pc = "running", !.token = token]
      BY <2>1 DEF Launch
    <2>3. cmd'.token = StandsFor(config.api_key_ref)
      BY <1>0, <2>2, ResolveIs DEF Command
    <2> QED BY <1>0, <2>3 DEF SavedVetted
  <1>4. Vetted(cmd')
    BY <1>2 DEF Vetted, HasRef
  <1> QED BY <1>1, <1>2, <1>3, <1>4, VetCommandStep DEF Prompts, Ended

LEMMA VetNext == VetInv /\ [Next]_vars => VetInv'
  <1> SUFFICES ASSUME VetInv, [Next]_vars PROVE VetInv' OBVIOUS
  <1>0. IInv'
    BY NextIInv DEF VetInv
  <1>1. CASE \/ Begin \/ Stat \/ Rerun \/ ChooseScheme \/ Lookup \/ Paste \/ ProxyChoice
             \/ AutoMode \/ Abort
    BY <1>0, <1>1, VetPrompts
  <1>2. CASE ResolveRef \/ CheckLiveness \/ Again
    BY <1>0, <1>2, VetCheck
  <1>3. CASE KeychainStore
    BY <1>0, <1>3, VetStore
  <1>4. CASE WriteConfig
    BY <1>0, <1>4, VetWrite
  <1>5. CASE Launch
    BY <1>0, <1>5, VetLaunch
  <1>6. CASE UNCHANGED vars
    BY <1>0, <1>6
    DEF vars, VetInv, Vetted, SavedVetted, EnteredKeyTakesEffect, StoredSince, StandsFor,
        LaunchVetted, At
  <1> QED BY <1>1, <1>2, <1>3, <1>4, <1>5, <1>6 DEF Next

\* However often the user goes back and enters another key, and wherever other
\* commands were cut off: the key entered last is what the saved reference stands
\* for, until another command stores one under the same account.
THEOREM EnteredKeyCounts == Spec => []EnteredKeyTakesEffect
  <1>1. VetInv => EnteredKeyTakesEffect
    BY DEF VetInv, SavedVetted
  <1> QED BY <1>1, VetInit, VetNext, PTL DEF Spec

\* Claude is started with a key the service accepts, or the user was warned when the
\* reference was saved, or another command has stored a key under its account since.
THEOREM LaunchesAreVetted == Spec => []LaunchVetted
  <1>1. VetInv => LaunchVetted
    BY DEF VetInv
  <1> QED BY <1>1, VetInit, VetNext, PTL DEF Spec
================================================================================
