------------------------------ MODULE ConfigStore ------------------------------
(***************************************************************************)
(* The configuration file of config.go and the commands that go through    *)
(* it: a launch (ensureConfig, LoadConfig), --rotate-key and --setup.      *)
(* Commands are processes that share nothing but the disk.  An action is a *)
(* read, an open that truncates or a write, for these are what another     *)
(* process and a crash can fall between.  An I/O error ends a command at   *)
(* the same places and leaves the same disk as a crash.                    *)
(*                                                                         *)
(* A file is a sequence of lines [key, value]; comments and blank lines    *)
(* are left out.  Garbage is any line without `key=`.                      *)
(***************************************************************************)
EXTENDS Integers, SequencesExt

CONSTANTS
  Procs,       \* processes
  Cmds,        \* the commands they run
  Files,       \* the files commands may find at first
  Values,      \* what a line or a setting may hold
  Refs,        \* secret references the user may enter
  Stamps,      \* bound: names .broken.<stamp>.bak backups can have
  EnvHeaders,  \* OTEL_EXPORTER_OTLP_HEADERS resolved, or NoValue
  MaxRuns,     \* bound: commands started
  Absent,      \* what a file that does not exist holds
  NoKey        \* the key of a garbage line

NoValue == ""
Efforts == {"off", "auto:high"}      \* the efforts the user may choose

\* knownKeys in the order WriteConfig emits them, one key for each kind there is but
\* integers and lists, and one key of a future release.
KeyOrder == <<"_schema", "api_key_ref", "model", "unlock_auto_mode", "proxy_effort",
              "otlp_headers", "future_key">>
Keys     == ToSet(KeyOrder)
Known    == Keys \ {"future_key"}
Current  == "1"                      \* CurrentSchema
Numbers  == {"0", Current, "2"}      \* the schema numbers of files

Default == [k \in Keys |-> CASE k = "model"        -> "deepseek-v4-pro"
                             [] k = "proxy_effort" -> "off"
                             [] OTHER              -> NoValue]

Line(k, v) == [key |-> k, value |-> v]
Garbage    == Line(NoKey, NoValue)
Lines      == [key : Keys \cup {NoKey}, value : Values]
Contents   == Seq(Lines)

ASSUME ConfigAssumption ==
  /\ MaxRuns \in Nat
  /\ Cmds \subseteq {"launch", "rotate", "setup"}
  /\ Numbers \cup Efforts \cup {Default[k] : k \in Keys} \subseteq Values
  /\ EnvHeaders \in Values /\ Refs \subseteq Values \ {NoValue}
  /\ Absent \notin Contents /\ NoKey \notin Keys
  /\ Files \subseteq Contents \cup {Absent}
  /\ Stamps # {} /\ Stamps \subseteq STRING \ {"v0"}

VARIABLES
  config,   \* the file
  backup,   \* config.v0.bak and the .broken.<stamp>.bak files
  proc,     \* the processes
  runs,     \* how many commands were started
  user      \* the file as the user left it, before any command

vars == <<config, backup, proc, runs, user>>

-------------------------------------------------------------------------------
(* Contents *)

HasKey(file, k)    == \E i \in DOMAIN file : file[i].key = k
LastValue(file, k) == file[Max({i \in DOMAIN file : file[i].key = k})].value

\* The lines of a file at some of its places, in their order.
Among(file, at) ==
  FlattenSeq([i \in DOMAIN file |-> IF i \in at THEN <<file[i]>> ELSE <<>>])

\* ValidateConfigFile: a line must be key=value with a value.
Damaged(file) == \E i \in DOMAIN file : file[i].key = NoKey \/ file[i].value = NoValue

\* Mutant of Latest: the first value of a repeated key is kept.
LatestFirst(file) ==
  [i \in DOMAIN file |->
     IF file[i].key = "_schema" THEN Line("_schema", Current) ELSE file[i]]

\* Every line with the value its key ends up with, a _schema line with the current one.
Latest(file) ==
  [i \in DOMAIN file |->
     Line(file[i].key, IF file[i].key = "_schema" THEN Current
                       ELSE LastValue(file, file[i].key))]

\* RepairConfig's walk: garbage and unknown keys are dropped, the last value of a key
\* takes the place of its first.  A value may be empty here.
Repaired(file) ==
  LET firsts == {i \in DOMAIN file : /\ file[i].key \in Known
                                      /\ \A j \in 1 .. i - 1 : file[j].key # file[i].key}
      kept   == Among(Latest(file), firsts)
  IN  IF HasKey(file, "_schema") THEN kept ELSE <<Line("_schema", Current)>> \o kept

\* readSchemaInt takes the first _schema line; none and a bad one count as 0.
SchemaOf(file) ==
  LET at == {i \in DOMAIN file : file[i].key = "_schema"}
  IN  IF at = {} \/ file[Min(at)].value \notin Numbers THEN "0"
      ELSE file[Min(at)].value

\* Mutant of Migrated: the schema line is added and the old one stays.
MigratedAppends(file) == Append(file, Line("_schema", Current))

\* migrateFromV 0
Migrated(file) ==
  <<Line("_schema", Current)>> \o Among(file, {i \in DOMAIN file : file[i].key # "_schema"})

\* assignKnown: a bool keeps its truth, a number that does not parse is ignored.
Coerced(k, v) ==
  CASE k = "unlock_auto_mode" -> IF v \in {"1", "yes"} THEN "1" ELSE NoValue
    [] OTHER                  -> v

\* Mutant of Parsed: a _schema line that is no number is taken as it is.
ParsedBadSchema(file) ==
  [k \in Keys |-> IF HasKey(file, k) /\ Coerced(k, LastValue(file, k)) # NoValue
                  THEN Coerced(k, LastValue(file, k)) ELSE Default[k]]

\* parseInto, applyDefaults, applyEnvOverrides: the Config, as a function of keys.
Parsed(file) ==
  LET lines(k) == {i \in DOMAIN file : /\ file[i].key = k
                                       /\ k = "_schema" => file[i].value \in Numbers}
      value(k) == IF lines(k) = {} THEN NoValue ELSE Coerced(k, file[Max(lines(k))].value)
  IN  [k \in Keys |->
         CASE k = "otlp_headers" /\ EnvHeaders # NoValue -> EnvHeaders
           [] k # "otlp_headers" /\ value(k) = NoValue   -> Default[k]
           [] OTHER                                      -> value(k)]

ParseFails(file) == HasKey(file, NoKey)

\* Every key with its value, and the schema line whatever it was.
AllLines(cfg) ==
  [i \in DOMAIN KeyOrder |->
     Line(KeyOrder[i], IF KeyOrder[i] = "_schema" /\ cfg["_schema"] \in {NoValue, "0"}
                       THEN Current ELSE cfg[KeyOrder[i]])]

\* The lines of a file that have a value, and not the default one.
Emitted(file) == {i \in DOMAIN file : file[i].value \notin {NoValue, Default[file[i].key]}}

\* Mutant of Serialized: unknown keys are not written back.
SerializedKnown(cfg) ==
  LET file == AllLines(cfg)
  IN  Among(file, {i \in Emitted(file) : file[i].key \in Known})

\* WriteConfig: values that are empty or the default are left out.
Serialized(cfg) == LET file == AllLines(cfg) IN Among(file, Emitted(file))

\* What a write at offset 0 leaves of a file that another process has written since
\* it was opened: the new lines, then what stands behind them, its first line torn.
Behind(old) ==
  LET tails == {SubSeq(old, n, Len(old)) : n \in 2 .. Len(old) + 1}
  IN  tails \cup {<<Garbage>> \o tail : tail \in tails}

Overlays(old, new) ==
  IF old \in {Absent, <<>>} THEN {new} ELSE {new} \cup {new \o rest : rest \in Behind(old)}

-------------------------------------------------------------------------------
(* Processes *)

Commands == {"none", "launch", "rotate", "setup"}
Ended    == {"idle", "done", "failed", "crashed"}
PCs == Ended \cup {"stat", "validate", "repair", "schema", "migrate", "parse", "edit",
                   "copy", "copyOpen", "copyWrite",   \* copyFile
                   "open", "write"}                   \* writeFile0600

Names    == Stamps \cup {"v0"}
Cfgs     == {c \in [Keys -> Values] : c["_schema"] \in Numbers \cup {NoValue}}

\* orig    the file when the command started    cfg     the loaded Config
\* data    what writeFile0600 is to write       then    where it returns to
\* copied  what copyFile read                   target  the backup it writes
Proc == [pc : PCs, cmd : Commands, orig : Contents \cup {Absent}, cfg : Cfgs,
         data : Contents, then : PCs, copied : Contents, target : Names]

NewProc == [pc |-> "idle", cmd |-> "none", orig |-> Absent, cfg |-> Default, data |-> <<>>,
            then |-> "idle", copied |-> <<>>, target |-> "v0"]

Active(p) == proc[p].pc \notin Ended

At(p, pc)     == proc[p].pc = pc
Becomes(p, s) == proc' = [proc EXCEPT ![p] = s] /\ UNCHANGED <<runs, user>>
OnlyReads     == UNCHANGED <<config, backup>>

Init ==
  /\ config \in Files
  /\ backup = [n \in Names |-> Absent]
  /\ proc = [p \in Procs |-> NewProc]
  /\ runs = 0
  /\ user = config

Begin(p) ==
  /\ ~ Active(p) /\ runs < MaxRuns
  /\ runs' = runs + 1
  /\ \E cmd \in Cmds :
       proc' = [proc EXCEPT ![p] = [NewProc EXCEPT !.pc = "stat", !.cmd = cmd, !.orig = config]]
  /\ UNCHANGED user /\ OnlyReads

(* LoadConfig *)

\* The settings onboarding collects, on top of those of cfg.
Onboarded(cfg, ref, effort, auto) ==
  [cfg EXCEPT !["_schema"] = Current, !["api_key_ref"] = ref,
              !["proxy_effort"] = effort, !["unlock_auto_mode"] = auto]

Rotated(cfg, ref) == [cfg EXCEPT !["api_key_ref"] = ref]

\* Whether there is a file: if not, every command runs the onboarding and writes
\* one.  A launch then goes on to LoadConfig.
Stat(p) ==
  /\ At(p, "stat")
  /\ IF config = Absent
     THEN \E ref \in Refs, effort \in Efforts, auto \in {NoValue, "1"} :
            LET cfg == Onboarded(Default, ref, effort, auto)
            IN  Becomes(p, [proc[p] EXCEPT !.pc = "open", !.cfg = cfg, !.data = Serialized(cfg),
                              !.then = IF proc[p].cmd = "launch" THEN "validate" ELSE "done"])
     ELSE Becomes(p, [proc[p] EXCEPT !.pc = "validate"])
  /\ OnlyReads

Validate(p) ==
  /\ At(p, "validate")
  /\ Becomes(p, [proc[p] EXCEPT !.pc = IF Damaged(config) THEN "repair" ELSE "schema"])
  /\ OnlyReads

\* Mutant of RepairConfig: the file is rewritten without a backup.
RepairNoBackup(p) ==
  /\ At(p, "repair")
  /\ Becomes(p, [proc[p] EXCEPT !.pc = "open", !.data = Repaired(config), !.then = "schema"])
  /\ OnlyReads

\* RepairConfig up to its copyFile; what it writes afterwards is what it read here.
RepairConfig(p) ==
  /\ At(p, "repair")
  /\ \E stamp \in Stamps :
       Becomes(p, [proc[p] EXCEPT !.pc = "copy", !.target = stamp,
                                  !.data = Repaired(config), !.then = "schema"])
  /\ OnlyReads

\* Mutant of MigrateConfig: a newer schema is taken for an old one.
MigrateNewer(p) ==
  /\ At(p, "schema")
  /\ Becomes(p, IF SchemaOf(config) = Current THEN [proc[p] EXCEPT !.pc = "parse"]
                ELSE [proc[p] EXCEPT !.pc = "copy", !.target = "v0", !.then = "migrate"])
  /\ OnlyReads

\* MigrateConfig: a current file is left alone, a newer one refused.
MigrateConfig(p) ==
  /\ At(p, "schema")
  /\ Becomes(p, CASE SchemaOf(config) = Current -> [proc[p] EXCEPT !.pc = "parse"]
                  [] SchemaOf(config) = "2"     -> [proc[p] EXCEPT !.pc = "failed"]
                  [] OTHER -> [proc[p] EXCEPT !.pc = "copy", !.target = "v0", !.then = "migrate"])
  /\ OnlyReads

\* migrateFromV reads the file again.
MigrateFromV(p) ==
  /\ At(p, "migrate")
  /\ Becomes(p, [proc[p] EXCEPT !.pc = "open", !.data = Migrated(config), !.then = "parse"])
  /\ OnlyReads

Parse(p) ==
  /\ At(p, "parse")
  /\ Becomes(p, IF ParseFails(config) THEN [proc[p] EXCEPT !.pc = "failed"]
                ELSE [proc[p] EXCEPT !.cfg = Parsed(config),
                                     !.pc = IF proc[p].cmd = "launch" THEN "done" ELSE "edit"])
  /\ OnlyReads

\* --setup asks first whether to change anything.
KeepConfig(p) ==
  /\ At(p, "edit") /\ proc[p].cmd = "setup"
  /\ Becomes(p, [proc[p] EXCEPT !.pc = "done"])
  /\ OnlyReads

\* What the user answers to --rotate-key and --setup, some time after the load.
Edit(p) ==
  /\ At(p, "edit")
  /\ \E ref \in Refs, effort \in Efforts, auto \in {NoValue, "1"} :
       LET cfg == IF proc[p].cmd = "setup" THEN Onboarded(proc[p].cfg, ref, effort, auto)
                  ELSE Rotated(proc[p].cfg, ref)
       IN  Becomes(p, [proc[p] EXCEPT !.pc = "open", !.cfg = cfg, !.data = Serialized(cfg),
                                      !.then = "done"])
  /\ OnlyReads

(* copyFile: before a repair the rewrite follows, before a migration its read *)

CopyRead(p) ==
  /\ At(p, "copy")
  /\ Becomes(p, [proc[p] EXCEPT !.pc = "copyOpen", !.copied = config])
  /\ OnlyReads

CopyOpen(p) ==
  /\ At(p, "copyOpen")
  /\ backup' = [backup EXCEPT ![proc[p].target] = <<>>]
  /\ Becomes(p, [proc[p] EXCEPT !.pc = "copyWrite"])
  /\ UNCHANGED config

CopyWrite(p) ==
  /\ At(p, "copyWrite")
  /\ \E file \in Overlays(backup[proc[p].target], proc[p].copied) :
       backup' = [backup EXCEPT ![proc[p].target] = file]
  /\ Becomes(p, [proc[p] EXCEPT !.pc = IF proc[p].then = "migrate" THEN "migrate" ELSE "open"])
  /\ UNCHANGED config

(* writeFile0600 *)

Open(p) ==
  /\ At(p, "open")
  /\ config' = <<>>
  /\ Becomes(p, [proc[p] EXCEPT !.pc = "write"])
  /\ UNCHANGED backup

Write(p) ==
  /\ At(p, "write")
  /\ config' \in Overlays(config, proc[p].data)
  /\ Becomes(p, [proc[p] EXCEPT !.pc = proc[p].then])
  /\ UNCHANGED backup

Crash(p) ==
  /\ Active(p)
  /\ Becomes(p, [proc[p] EXCEPT !.pc = "crashed"])
  /\ OnlyReads

Step(p) ==
  \/ Stat(p) \/ Validate(p) \/ RepairConfig(p) \/ MigrateConfig(p) \/ MigrateFromV(p)
  \/ Parse(p) \/ KeepConfig(p) \/ Edit(p)
  \/ CopyRead(p) \/ CopyOpen(p) \/ CopyWrite(p)
  \/ Open(p) \/ Write(p)

Next == \E p \in Procs : Begin(p) \/ Step(p) \/ Crash(p)

Spec == Init /\ [][Next]_vars

-------------------------------------------------------------------------------
(* Properties of a command that runs alone *)

\* Every variable has its type.
TypeOK ==
  /\ config \in Contents \cup {Absent}
  /\ backup \in [Names -> Contents \cup {Absent}]
  /\ proc \in [Procs -> Proc]
  /\ runs \in 0 .. MaxRuns

Loading(p)   == proc[p].pc \in PCs \ {"edit", "done"} /\ proc[p].then # "done"
Completed(p) == At(p, "done") /\ proc[p].orig # Absent

\* The last line of a key decides, wherever it stands and whatever was repaired
\* or migrated around it.
Says(file, i) == \A j \in DOMAIN file : j > i => file[j].key # file[i].key

\* What was loaded is what the file the command found says: for each key the value
\* of its last line, else the default.  Only keys of a future release are lost,
\* and only by a repair.
LoadFaithful ==
  \A p \in Procs : (At(p, "edit") \/ (Completed(p) /\ proc[p].cmd = "launch")) =>
    LET file == proc[p].orig
        cfg  == proc[p].cfg
    IN  /\ \A i \in DOMAIN file :
             /\ file[i].key \in Keys \ {"_schema"} /\ Says(file, i)
             /\ file[i].key \in Known \/ ~ Damaged(file)
             /\ Coerced(file[i].key, file[i].value) # NoValue
             => cfg[file[i].key] = Coerced(file[i].key, file[i].value)
        /\ \A k \in Keys \ {"_schema"} : cfg[k] # Default[k] => HasKey(file, k)

\* Whenever a load is under way or has crashed, the file it found is on disk, as
\* the configuration or as a backup.
OriginalOnDisk ==
  \A p \in Procs :
    Loading(p) /\ ~ At(p, "idle") => proc[p].orig \in {config} \cup {backup[n] : n \in Names}

\* What a command leaves behind is accepted as it is by the next one: no line of
\* it is damaged and its schema is the current one.  (A known key without a value
\* survives a repair, and a second _schema line survives a load.)
LeavesCleanFile ==
  \A p \in Procs :
    /\ At(p, "done")
    /\ proc[p].orig # Absent =>
         /\ \A i \in DOMAIN proc[p].orig :
              proc[p].orig[i].key \in Known => proc[p].orig[i].value # NoValue
         /\ Cardinality({i \in DOMAIN proc[p].orig : proc[p].orig[i].key = "_schema"}) < 2
    => ~ Damaged(config) /\ SchemaOf(config) = Current

\* --rotate-key and --setup change the settings they ask for and no other: what
\* they write loads again as what they had in memory.
EditKeepsSettings ==
  \A p \in Procs :
    Completed(p) /\ proc[p].cmd # "launch" =>
      \A k \in Keys \ {"_schema"} : Parsed(config)[k] = proc[p].cfg[k]

\* A well-formed file of a newer schema is never touched.
NewerSchemaUntouched ==
  [][\A p \in Procs :
       /\ proc[p].orig # Absent /\ ~ Damaged(proc[p].orig) /\ SchemaOf(proc[p].orig) = "2"
       /\ Step(p)
       => OnlyReads]_vars

-------------------------------------------------------------------------------
(* What the repository's text says of the file and its code does not do. *)

\* config.go: RepairConfig is idempotent and keeps only valid lines, so what a
\* launch leaves behind needs no repair.
RepairIdempotent ==
  \A p \in Procs : At(p, "done") /\ proc[p].cmd = "launch" => ~ Damaged(config)

\* config.go: re-running migrations is safe, main.go: no data is lost.  However often
\* a launch is repeated, what the user had is on disk.
RerunSafe == user \in {config} \cup {backup[n] : n \in Names}

\* config.go: WriteConfig writes atomically.  Once a rotation has ended, and the
\* launches beside it, the file has the reference the user entered.
RotationSticks ==
  (\A q \in Procs : proc[q].pc \in {"idle", "done"}) =>
    \A p \in Procs :
      /\ Completed(p) /\ proc[p].cmd = "rotate"
      /\ \A q \in Procs \ {p} : proc[q].cmd \in {"none", "launch"}
      => Parsed(config)["api_key_ref"] = proc[p].cfg["api_key_ref"]

\* config.go: values of the environment never reach the disk.
EnvNeverOnDisk ==
  config # Absent => \A i \in DOMAIN config :
    config[i].key = "otlp_headers" => config[i].value # EnvHeaders
===============================================================================
