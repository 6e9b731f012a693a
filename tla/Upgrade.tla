-------------------------------- MODULE Upgrade --------------------------------
(***************************************************************************)
(* The self-update of update.go: the files it works on (the installed      *)
(* binary, its .old backup, the backup of the configuration, the cache of  *)
(* the startup check) and the processes that run upgrade, from the command *)
(* line or accepted at startup.  copyFileMode writes a temporary file and  *)
(* renames it, so a copy is one step that happens or fails.                *)
(***************************************************************************)
EXTENDS Semver, FiniteSets

CONSTANTS
  Procs,       \* processes that launch or upgrade
  MaxVersion,  \* bound: versions released; the first one is installed
  Tags,        \* the version string of each
  MaxRuns,     \* bound: processes started
  Interval,    \* update_check_interval
  MaxTime      \* bound: hours that pass

ASSUME UpgradeAssumption ==
  MaxVersion \in Nat \ {0} /\ MaxRuns \in Nat /\ Interval \in Nat \ {0} /\ MaxTime \in Nat

\* A binary: "good" runs, "broken" does not, "corrupt" is a download that is not
\* what its checksum says.
Builds == [version : 1 .. MaxVersion, kind : {"good", "broken", "corrupt"}]
First  == [version |-> 1, kind |-> "good"]
Absent == [version |-> 0, kind |-> "absent"]

VARIABLES
  release, \* the binary each version was released with
  bin,     \* the installed binary
  old,     \* binPath.old
  saved,   \* whether the update wrote a backup of the configuration
  proven,  \* builds that have run
  proc,    \* the processes
  runs,    \* how many processes were started
  cache,   \* the time .last_update_check holds
  clock,   \* the system's clock
  time,    \* hours that have passed
  quiet    \* until when the last answer that was cached is good

NoTime == -1   \* no cache, or one that is no number

files == <<bin, old, saved>>
hours == <<cache, clock, time, quiet>>
vars  == <<release, bin, old, saved, proven, proc, runs, cache, clock, time, quiet>>

\* "failed" reports an error, "stuck" one whose rollback failed as well.
Ended == {"idle", "done", "failed", "stuck", "crashed"}
PCs   == Ended \cup {"tag", "prompt", "fetch", "download", "probe", "backup", "replace",
                     "smoke", "rollback", "discard", "remove"}

\* current is the version compiled into the process, new what it has downloaded.
Proc == [pc : PCs, current : 0 .. MaxVersion, new : Builds \cup {Absent}]

Init ==
  /\ release \in {r \in [1 .. MaxVersion -> Builds] :
                   \A v \in 1 .. MaxVersion : r[v].version = v /\ r[v].kind # "corrupt"}
  /\ bin = First /\ old = Absent /\ saved = FALSE
  /\ proven = {First}
  /\ proc = [p \in Procs |-> [pc |-> "idle", current |-> 0, new |-> Absent]]
  /\ runs = 0
  /\ cache = NoTime /\ clock = 0 /\ time = 0 /\ quiet = 0

At(p, pc)   == proc[p].pc = pc
Goto(p, pc) == proc' = [proc EXCEPT ![p].pc = pc] /\ UNCHANGED <<release, runs>>

\* cmpSemver says that version v is newer than the one a process was built as.
Newer(v, current) == Below(Tags[current], Tags[v])

\* The installed binary is started; its process holds its version from then on.
StartAt(p, pc) ==
  /\ proc[p].pc \in Ended /\ runs < MaxRuns
  /\ bin.kind = "good"
  /\ runs' = runs + 1
  /\ proc' = [proc EXCEPT ![p] = [pc |-> pc, current |-> bin.version, new |-> Absent]]
  /\ proven' = proven \cup {bin}
  /\ UNCHANGED <<release, files, hours>>

\* claude-ds upgrade
Begin(p) == StartAt(p, "fetch")

-------------------------------------------------------------------------------
(* startupUpdateCheck *)

\* Mutant of CacheFresh: the age is compared in the wrong direction.
CacheFreshOnceOld == cache # NoTime /\ clock - cache >= Interval

\* cacheFresh.  A time that is still to come is fresh.
CacheFresh == cache # NoTime /\ clock - cache < Interval

\* A launch, whose check goes on beside claude.
Launch(p) == ~ CacheFresh /\ StartAt(p, "tag")

\* writeCache, whose error is ignored.
WriteCache ==
  \/ cache' = clock /\ quiet' = time + Interval /\ UNCHANGED <<clock, time>>
  \/ UNCHANGED hours

\* The latest tag cannot be had.  Only a refusal (403, 429) is cached, so that the
\* next launch does not ask again.
TagRefused(p) ==
  /\ At(p, "tag") /\ Goto(p, "done")
  /\ WriteCache
  /\ UNCHANGED <<files, proven>>

TagUnreachable(p) ==
  /\ At(p, "tag") /\ Goto(p, "done")
  /\ UNCHANGED <<files, proven, hours>>

UpToDate(p) ==
  /\ At(p, "tag") /\ Goto(p, "done")
  /\ \E v \in 1 .. MaxVersion : ~ Newer(v, proc[p].current)
  /\ WriteCache
  /\ UNCHANGED <<files, proven>>

Offer(p) ==
  /\ At(p, "tag") /\ Goto(p, "prompt")
  /\ \E v \in 1 .. MaxVersion : Newer(v, proc[p].current)
  /\ UNCHANGED <<files, proven, hours>>

Decline(p) ==
  /\ At(p, "prompt") /\ Goto(p, "done")
  /\ WriteCache
  /\ UNCHANGED <<files, proven>>

\* runUpgrade, and then the process exits.
Accept(p) ==
  /\ At(p, "prompt") /\ Goto(p, "fetch")
  /\ UNCHANGED <<files, proven, hours>>

Tick ==
  /\ time < MaxTime /\ time' = time + 1 /\ clock' = clock + 1
  /\ UNCHANGED <<release, files, proven, proc, runs, cache, quiet>>

\* The clock is set, back or ahead; the promise of the cache is off.
SetClock ==
  /\ clock = time /\ clock' \in {t \in 0 .. MaxTime : t # clock}
  /\ quiet' = 0
  /\ UNCHANGED <<release, files, proven, proc, runs, cache, time>>

-------------------------------------------------------------------------------
(* upgradeBinary *)

\* fetchLatestRelease, cmpSemver and resolveAssets; what the download will bring is
\* chosen here.
Fetch(p) ==
  /\ At(p, "fetch")
  /\ \/ Goto(p, "failed")
     \/ \E v \in 1 .. MaxVersion : \E kind \in {release[v].kind, "corrupt"} :
          /\ proc' = [proc EXCEPT ![p] =
               IF ~ Newer(v, proc[p].current) THEN [proc[p] EXCEPT !.pc = "done"]
               ELSE [proc[p] EXCEPT !.pc = "download",
                                    !.new = [version |-> v, kind |-> kind]]]
          /\ UNCHANGED <<release, runs>>
  /\ UNCHANGED <<files, proven, hours>>

\* Mutant of Download: the checksum is not compared.
DownloadUnchecked(p) ==
  /\ At(p, "download")
  /\ Goto(p, "probe") \/ Goto(p, "failed")
  /\ UNCHANGED <<files, proven, hours>>

\* Both downloads and the comparison of the checksum.
Download(p) ==
  /\ At(p, "download")
  /\ \/ proc[p].new.kind # "corrupt" /\ Goto(p, "probe")
     \/ Goto(p, "failed")
  /\ UNCHANGED <<files, proven, hours>>

\* The new binary is asked for its schema; if it differs the user may have the
\* configuration backed up, go on without, or stop.
ProbeSchema(p) ==
  /\ At(p, "probe")
  /\ \/ Goto(p, "backup") /\ UNCHANGED saved
     \/ Goto(p, "backup") /\ saved' = TRUE
     \/ Goto(p, "failed") /\ UNCHANGED saved
  /\ UNCHANGED <<bin, old, proven, hours>>

\* Mutant of Backup: the new binary is copied to .old.
BackupNew(p) ==
  /\ At(p, "backup")
  /\ \/ old' = proc[p].new /\ Goto(p, "replace")
     \/ Goto(p, "failed") /\ UNCHANGED old
  /\ UNCHANGED <<bin, saved, proven, hours>>

Backup(p) ==
  /\ At(p, "backup")
  /\ \/ old' = bin /\ Goto(p, "replace")
     \/ Goto(p, "failed") /\ UNCHANGED old
  /\ UNCHANGED <<bin, saved, proven, hours>>

Replace(p) ==
  /\ At(p, "replace")
  /\ \/ bin' = proc[p].new /\ Goto(p, "smoke") /\ UNCHANGED old
     \/ old' = Absent /\ Goto(p, "failed") /\ UNCHANGED bin
  /\ UNCHANGED <<saved, proven, hours>>

\* Mutant of SmokeTest: the exit code of the new binary is ignored.
SmokeTestIgnored(p) ==
  /\ At(p, "smoke")
  /\ proven' = proven \cup {bin} /\ Goto(p, "remove")
  /\ UNCHANGED <<files, hours>>

\* smokeTest runs what is installed.  A good binary can miss its two seconds.
SmokeTest(p) ==
  /\ At(p, "smoke")
  /\ \/ bin.kind = "good" /\ proven' = proven \cup {bin} /\ Goto(p, "remove")
     \/ Goto(p, "rollback") /\ UNCHANGED proven
  /\ UNCHANGED <<files, hours>>

\* Mutant of Rollback: nothing is copied back.
RollbackDiscards(p) ==
  /\ At(p, "rollback") /\ Goto(p, "discard")
  /\ UNCHANGED <<files, proven, hours>>

\* The rollback may fail, and then keeps .old.
Rollback(p) ==
  /\ At(p, "rollback")
  /\ \/ old # Absent /\ bin' = old /\ Goto(p, "discard")
     \/ Goto(p, "stuck") /\ UNCHANGED bin
  /\ UNCHANGED <<old, saved, proven, hours>>

\* .old is removed, after a rollback and after an update that was kept.
Discard(p) ==
  /\ At(p, "discard") /\ Goto(p, "failed")
  /\ old' = Absent
  /\ UNCHANGED <<bin, saved, proven, hours>>

Remove(p) ==
  /\ At(p, "remove") /\ Goto(p, "done")
  /\ old' = Absent
  /\ UNCHANGED <<bin, saved, proven, hours>>

Crash(p) ==
  /\ proc[p].pc \notin Ended /\ Goto(p, "crashed")
  /\ UNCHANGED <<files, proven, hours>>

Next ==
  \/ Tick \/ SetClock
  \/ \E p \in Procs :
    \/ Begin(p) \/ Launch(p) \/ TagRefused(p) \/ TagUnreachable(p) \/ UpToDate(p)
    \/ Offer(p) \/ Decline(p) \/ Accept(p) \/ Fetch(p) \/ Download(p) \/ ProbeSchema(p)
    \/ Backup(p) \/ Replace(p) \/ SmokeTest(p) \/ Rollback(p) \/ Discard(p) \/ Remove(p)
    \/ Crash(p)

Spec == Init /\ [][Next]_vars

-------------------------------------------------------------------------------

\* Every variable has its type, and a build counts as proven only if it runs.
TypeOK ==
  /\ release \in [1 .. MaxVersion -> Builds]
  /\ bin \in Builds /\ old \in Builds \cup {Absent}
  /\ saved \in BOOLEAN /\ proven \subseteq {b \in Builds : b.kind = "good"}
  /\ proc \in [Procs -> Proc] /\ runs \in 0 .. MaxRuns
  /\ cache \in Int /\ clock \in Nat /\ time \in 0 .. MaxTime /\ quiet \in Nat

\* What is installed is the first build or one whose checksum was right, whatever
\* else upgrades at the same time.
InstalledVerified == bin.kind # "corrupt" /\ old.kind # "corrupt"

\* A build that has run, and does.
Works(build) == build \in proven /\ build.kind = "good"

\* Of upgrades that run one at a time: at every moment, a crash in the middle and
\* a failed rollback included, a build that works is installed or in .old.
WorkingBuildOnDisk == Works(bin) \/ Works(old)

\* An upgrade that failed at any step leaves the version it was started from, one
\* whose rollback failed leaves it in .old; one that is done has installed a build
\* that runs.
FailureRestores ==
  \A p \in Procs :
    /\ At(p, "failed") => bin.version = proc[p].current
    /\ At(p, "stuck")  => old.version = proc[p].current
    /\ At(p, "done")   => Works(bin)

\* An upgrade, kept, undone or cut off, never leaves the user without a build that
\* works.
InstallSurvives == WorkingBuildOnDisk /\ FailureRestores

\* Whatever was downloaded, tested, rolled back and cut off since, no version that has
\* run is above the installed one: no release gives way to a candidate of it, and no
\* history of updates comes back to numbers it has left.
UpdatesGoUp ==
  \A b \in proven :
    LET ran == Tags[b.version]  installed == Tags[bin.version]
    IN  b.version # bin.version /\ PlainlyOrdered(ran, installed)
          => SemverBelow(ran, installed)

\* Once the check has had an answer, and cached it, nobody is asked again before the
\* interval is over, as long as nobody sets the clock.
QuietForInterval ==
  [][\A p \in Procs : proc[p].pc # "prompt" /\ proc'[p].pc = "prompt" => time >= quiet]_vars

-------------------------------------------------------------------------------
(* What the repository's text says of the update and its code does not do. *)

\* Design document: if the smoke test fails the old binary is restored and the
\* install is unchanged.  It is not when two sessions accept the same update.
FailedUpgradesKeepInstall ==
  (\A p \in Procs : At(p, "failed")) => bin = First

\* update.go: cmpSemver is a strict semver comparison, so that of candidates, too, the
\* installed one is the highest that has run.
CandidatesGoUp ==
  \A b \in proven :
    b.version # bin.version => SemverBelow(Tags[b.version], Tags[bin.version])
===============================================================================
