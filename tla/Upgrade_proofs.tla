----------------------------- MODULE Upgrade_proofs -----------------------------
(***************************************************************************)
(* Proofs about Upgrade: what may be installed, for any number of          *)
(* processes that upgrade at the same time; what is on disk after a crash, *)
(* when anybody is asked again and which versions never come back, for one *)
(* that upgrades alone; and that cmpSemver orders all version strings.     *)
(***************************************************************************)
EXTENDS Upgrade, TLAPS

\* From the download on there is a build, and it is what its checksum says once the
\* two have been compared.
FitFor(x, new) ==
  /\ x \in {"download", "probe", "backup", "replace"} => new \in Builds
  /\ x \in {"probe", "backup", "replace"} => new.kind # "corrupt"

Checked(p) == FitFor(proc[p].pc, proc[p].new)

IInv == TypeOK /\ InstalledVerified /\ \A p \in Procs : Checked(p)

-------------------------------------------------------------------------------
(* Steps of one process *)

\* A step that only moves a process along changes nothing else of it.
LEMMA GotoKeeps ==
  ASSUME TypeOK, NEW p \in Procs, NEW x \in PCs, Goto(p, x)
  PROVE  /\ proc' \in [Procs -> Proc]
         /\ proc'[p].pc = x
         /\ proc'[p].new = proc[p].new
         /\ proc'[p].current = proc[p].current
         /\ \A q \in Procs \ {p} : proc'[q] = proc[q]
         /\ UNCHANGED <<release, runs>>
  BY SMT DEF TypeOK, Goto, Proc

\* The latest release is fetched: the process ends, or goes on to download a build of
\* a version that is newer than its own.
LEMMA FetchMoves ==
  ASSUME TypeOK, NEW p \in Procs, Fetch(p)
  PROVE  /\ proc[p].pc = "fetch" /\ proc'[p].pc \in {"failed", "done", "download"}
         /\ proc'[p].current = proc[p].current
         /\ proc'[p].pc = "download" =>
              proc'[p].new \in Builds /\ Newer(proc'[p].new.version, proc[p].current)
         /\ UNCHANGED <<files, proven, hours>>
<1>0. proc[p].pc = "fetch" /\ UNCHANGED <<files, proven, hours>>
  BY DEF Fetch, At
<1>1. CASE Goto(p, "failed")
  BY <1>0, <1>1, GotoKeeps DEF PCs, Ended
<1>2. CASE ~ Goto(p, "failed")
  <2>1. PICK v \in 1 .. MaxVersion : \E kind \in {release[v].kind, "corrupt"} :
          proc' = [proc EXCEPT ![p] =
            IF ~ Newer(v, proc[p].current) THEN [proc[p] EXCEPT !.pc = "done"]
            ELSE [proc[p] EXCEPT !.pc = "download",
                                 !.new = [version |-> v, kind |-> kind]]]
    BY <1>2 DEF Fetch
  <2>2. PICK kind \in {release[v].kind, "corrupt"} :
          proc' = [proc EXCEPT ![p] =
            IF ~ Newer(v, proc[p].current) THEN [proc[p] EXCEPT !.pc = "done"]
            ELSE [proc[p] EXCEPT !.pc = "download",
                                 !.new = [version |-> v, kind |-> kind]]]
    BY <2>1
  <2>3. CASE ~ Newer(v, proc[p].current)
    <3>1. proc' = [proc EXCEPT ![p] = [proc[p] EXCEPT !.pc = "done"]]
      BY <2>2, <2>3
    <3>2. proc'[p].pc = "done" /\ proc'[p].current = proc[p].current
      BY <3>1 DEF TypeOK, Proc
    <3> QED  BY <1>0, <3>2
  <2>4. CASE Newer(v, proc[p].current)
    <3>1. [version |-> v, kind |-> kind] \in Builds
      BY DEF TypeOK, Builds
    <3>2. PICK new \in Builds : new = [version |-> v, kind |-> kind]
      BY <3>1
    <3>3. proc' = [proc EXCEPT ![p] = [proc[p] EXCEPT !.pc = "download", !.new = new]]
      BY <2>2, <2>4, <3>2
    <3>4. /\ proc'[p].pc = "download" /\ proc'[p].current = proc[p].current
          /\ proc'[p].new = new
      BY <3>3 DEF TypeOK, Proc
    <3>5. new.version = v
      BY <3>2
    <3> QED  BY <1>0, <2>4, <3>4, <3>5
  <2> QED  BY <2>3, <2>4
<1> QED  BY <1>1, <1>2

\* A process that is started, from the command line or by a launch.
LEMMA StartKeeps ==
  ASSUME IInv, NEW p \in Procs, NEW x \in {"tag", "fetch"}, StartAt(p, x)
  PROVE  IInv'
<1>1. UNCHANGED <<release, bin, old, saved, cache, clock, time, quiet>>
  BY DEF StartAt, files, hours
<1>2. proc' = [proc EXCEPT ![p] = [pc |-> x, current |-> bin.version, new |-> Absent]]
  BY DEF StartAt
<1>3. [pc |-> x, current |-> bin.version, new |-> Absent] \in Proc
  <2>1. bin.version \in 0 .. MaxVersion
    BY DEF IInv, TypeOK, Builds
  <2>2. x \in PCs
    BY DEF PCs
  <2> QED  BY <2>1, <2>2 DEF Proc
<1>4. TypeOK'
  <2>1. proc' \in [Procs -> Proc]
    BY <1>2, <1>3 DEF IInv, TypeOK
  <2>2. runs' \in 0 .. MaxRuns
    BY UpgradeAssumption DEF IInv, TypeOK, StartAt
  <2>3. proven' \subseteq {b \in Builds : b.kind = "good"}
    BY DEF IInv, TypeOK, StartAt
  <2> QED  BY <1>1, <2>1, <2>2, <2>3 DEF IInv, TypeOK
<1>5. InstalledVerified'
  BY <1>1 DEF IInv, InstalledVerified
<1>6. ASSUME NEW q \in Procs PROVE Checked(q)'
  <2>1. CASE q = p
    BY <1>2, <2>1 DEF IInv, TypeOK, Checked, FitFor
  <2>2. CASE q # p
    BY <1>2, <2>2 DEF IInv, TypeOK, Checked
  <2> QED  BY <2>1, <2>2
<1> QED  BY <1>4, <1>5, <1>6 DEF IInv

\* A step of a process that changes none of the files preserves the invariant if it
\* keeps Checked of that process.
LEMMA MoveKeeps ==
  ASSUME IInv, NEW p \in Procs, NEW x \in PCs, Goto(p, x),
         UNCHANGED <<bin, old>>, saved' \in BOOLEAN,
         proven' \subseteq {b \in Builds : b.kind = "good"},
         cache' \in Int, clock' \in Nat, time' \in 0 .. MaxTime, quiet' \in Nat,
         FitFor(x, proc[p].new)
  PROVE  IInv'
<1>1. TypeOK /\ TypeOK'
  BY GotoKeeps DEF IInv, TypeOK
<1>2. InstalledVerified'
  BY DEF IInv, InstalledVerified
<1>3. ASSUME NEW q \in Procs PROVE Checked(q)'
  <2>1. CASE q = p
    BY <1>1, <2>1, GotoKeeps DEF Checked
  <2>2. CASE q # p
    BY <1>1, <2>2, GotoKeeps DEF IInv, Checked
  <2> QED  BY <2>1, <2>2
<1> QED  BY <1>1, <1>2, <1>3 DEF IInv

\* The same of a step that puts builds that are checked into the files.
LEMMA InstallKeeps ==
  ASSUME IInv, NEW p \in Procs, NEW x \in PCs \ {"probe", "backup"}, Goto(p, x),
         bin' \in Builds, old' \in Builds \cup {Absent},
         bin'.kind # "corrupt", old'.kind # "corrupt",
         FitFor(x, proc[p].new),
         UNCHANGED <<saved, proven, hours>>
  PROVE  IInv'
<1>1. TypeOK /\ TypeOK'
  BY GotoKeeps DEF IInv, TypeOK, hours
<1>2. InstalledVerified'
  BY DEF IInv, InstalledVerified
<1>3. ASSUME NEW q \in Procs PROVE Checked(q)'
  <2>1. CASE q = p
    BY <1>1, <2>1, GotoKeeps DEF Checked
  <2>2. CASE q # p
    BY <1>1, <2>2, GotoKeeps DEF IInv, Checked
  <2> QED  BY <2>1, <2>2
<1> QED  BY <1>1, <1>2, <1>3 DEF IInv

-------------------------------------------------------------------------------

LEMMA InitIInv == Init => IInv
<1> SUFFICES ASSUME Init PROVE IInv
  OBVIOUS
<1>1. First \in Builds /\ First.kind = "good" /\ Absent.kind = "absent"
  BY UpgradeAssumption DEF First, Builds, Absent
<1>2. proc \in [Procs -> Proc]
  <2>1. [pc |-> "idle", current |-> 0, new |-> Absent] \in Proc
    BY UpgradeAssumption DEF Proc, PCs, Ended
  <2> QED  BY <2>1 DEF Init
<1>3. TypeOK
  <2>1. release \in [1 .. MaxVersion -> Builds]
    BY DEF Init
  <2>2. bin \in Builds /\ old \in Builds \cup {Absent} /\ saved \in BOOLEAN
    BY <1>1 DEF Init
  <2>3. proven \subseteq {b \in Builds : b.kind = "good"}
    BY <1>1 DEF Init
  <2>4. runs \in 0 .. MaxRuns /\ cache \in Int /\ clock \in Nat /\ time \in 0 .. MaxTime
        /\ quiet \in Nat
    BY UpgradeAssumption DEF Init, NoTime
  <2> QED  BY <1>2, <2>1, <2>2, <2>3, <2>4 DEF TypeOK
<1>4. InstalledVerified
  BY <1>1 DEF Init, InstalledVerified
<1>5. \A p \in Procs : Checked(p)
  BY DEF Init, Checked, FitFor
<1> QED  BY <1>3, <1>4, <1>5 DEF IInv

\* What upgradeBinary downloads is a released build or a corrupt one, and goes no
\* further than the comparison of checksums if it is corrupt.
LEMMA FetchStep ==
  ASSUME IInv, NEW p \in Procs, Fetch(p)
  PROVE  IInv'
<1>1. UNCHANGED <<files, proven, hours>>
  BY DEF Fetch
<1>2. CASE Goto(p, "failed")
  BY <1>1, <1>2, MoveKeeps DEF IInv, TypeOK, PCs, Ended, files, hours, FitFor
<1>3. CASE ~ Goto(p, "failed")
  <2>1. PICK v \in 1 .. MaxVersion : \E kind \in {release[v].kind, "corrupt"} :
          /\ proc' = [proc EXCEPT ![p] =
               IF ~ Newer(v, proc[p].current) THEN [proc[p] EXCEPT !.pc = "done"]
               ELSE [proc[p] EXCEPT !.pc = "download",
                                    !.new = [version |-> v, kind |-> kind]]]
          /\ UNCHANGED <<release, runs>>
    BY <1>3 DEF Fetch
  <2>2. PICK kind \in {release[v].kind, "corrupt"} :
          /\ proc' = [proc EXCEPT ![p] =
               IF ~ Newer(v, proc[p].current) THEN [proc[p] EXCEPT !.pc = "done"]
               ELSE [proc[p] EXCEPT !.pc = "download",
                                    !.new = [version |-> v, kind |-> kind]]]
          /\ UNCHANGED <<release, runs>>
    BY <2>1
  <2>3. CASE ~ Newer(v, proc[p].current)
    <3>1. Goto(p, "done")
      BY <2>2, <2>3 DEF Goto
    <3> QED  BY <1>1, <3>1, MoveKeeps DEF IInv, TypeOK, PCs, Ended, files, hours, FitFor
  <2>4. CASE Newer(v, proc[p].current)
    <3>1. [version |-> v, kind |-> kind] \in Builds
      BY <2>2 DEF IInv, TypeOK, Builds
    <3>2. PICK new \in Builds : new = [version |-> v, kind |-> kind]
      BY <3>1
    <3>3. proc' = [proc EXCEPT ![p] = [proc[p] EXCEPT !.pc = "download", !.new = new]]
      BY <2>2, <2>4, <3>2
    <3>4. proc' \in [Procs -> Proc] /\ proc'[p].pc = "download"
      BY <3>3 DEF IInv, TypeOK, Proc, PCs
    <3>5. \A q \in Procs \ {p} : proc'[q] = proc[q]
      BY <3>3 DEF IInv, TypeOK
    <3>6. TypeOK'
      BY <1>1, <2>2, <3>4 DEF IInv, TypeOK, files, hours
    <3>7. InstalledVerified'
      BY <1>1 DEF IInv, InstalledVerified, files
    <3>8. \A q \in Procs : Checked(q)'
      <4>1. proc'[p].new = new
        BY <3>3 DEF IInv, TypeOK, Proc
      <4> QED  BY <3>4, <3>5, <4>1 DEF IInv, Checked, FitFor
    <3> QED  BY <3>6, <3>7, <3>8 DEF IInv
  <2> QED  BY <2>3, <2>4
<1> QED  BY <1>2, <1>3

\* The startup check touches only its cache.
LEMMA CheckStep ==
  ASSUME IInv, NEW p \in Procs,
         \/ TagRefused(p) \/ TagUnreachable(p) \/ UpToDate(p) \/ Offer(p) \/ Decline(p)
         \/ Accept(p)
  PROVE  IInv'
<1>1. \E x \in {"done", "prompt", "fetch"} : Goto(p, x)
  BY DEF TagRefused, TagUnreachable, UpToDate, Offer, Decline, Accept
<1>2. UNCHANGED <<files, proven>>
  BY DEF TagRefused, TagUnreachable, UpToDate, Offer, Decline, Accept
<1>3. cache' \in Int /\ clock' \in Nat /\ time' \in 0 .. MaxTime /\ quiet' \in Nat
  <2>1. WriteCache \/ UNCHANGED hours
    BY DEF TagRefused, TagUnreachable, UpToDate, Offer, Decline, Accept
  <2>2. CASE UNCHANGED hours
    BY <2>2 DEF hours, IInv, TypeOK
  <2>3. CASE WriteCache
    BY <2>3, UpgradeAssumption DEF WriteCache, hours, IInv, TypeOK
  <2> QED  BY <2>1, <2>2, <2>3
<1>4. PICK x \in {"done", "prompt", "fetch"} : Goto(p, x)
  BY <1>1
<1> QED  BY <1>2, <1>3, <1>4, MoveKeeps DEF IInv, TypeOK, files, PCs, Ended, FitFor

\* Time passes and the clock is set.
LEMMA ClockStep ==
  ASSUME IInv, Tick \/ SetClock
  PROVE  IInv'
<1>1. UNCHANGED <<release, files, proven, proc, runs, cache>>
  BY DEF Tick, SetClock
<1>2. clock' \in Nat /\ time' \in 0 .. MaxTime /\ quiet' \in Nat
  BY UpgradeAssumption DEF Tick, SetClock, IInv, TypeOK
<1>3. TypeOK'
  BY <1>1, <1>2 DEF IInv, TypeOK, files
<1>4. InstalledVerified' /\ \A p \in Procs : Checked(p)'
  BY <1>1 DEF IInv, InstalledVerified, Checked, files
<1> QED  BY <1>3, <1>4 DEF IInv

\* The steps from the download to the end that change no binary.
LEMMA QuietUpgradeStep ==
  ASSUME IInv, NEW p \in Procs,
         Download(p) \/ ProbeSchema(p) \/ SmokeTest(p) \/ Crash(p)
  PROVE  IInv'
<1> USE DEF PCs, Ended
<1>0. cache' \in Int /\ clock' \in Nat /\ time' \in 0 .. MaxTime /\ quiet' \in Nat
  <2>1. UNCHANGED hours
    BY DEF Download, ProbeSchema, SmokeTest, Crash
  <2> QED  BY <2>1 DEF hours, IInv, TypeOK
<1>1. CASE Download(p)
  BY <1>0, <1>1, MoveKeeps DEF Download, At, Checked, FitFor, files, IInv, TypeOK
<1>2. CASE ProbeSchema(p)
  BY <1>0, <1>2, MoveKeeps DEF ProbeSchema, At, Checked, FitFor, IInv, TypeOK
<1>3. CASE SmokeTest(p)
  BY <1>0, <1>3, MoveKeeps DEF SmokeTest, FitFor, files, IInv, TypeOK
<1>4. CASE Crash(p)
  BY <1>0, <1>4, MoveKeeps DEF Crash, FitFor, files, IInv, TypeOK
<1> QED  BY <1>1, <1>2, <1>3, <1>4

\* The steps that write the installed binary or its backup.
LEMMA InstallStep ==
  ASSUME IInv, NEW p \in Procs,
         Backup(p) \/ Replace(p) \/ Rollback(p) \/ Discard(p) \/ Remove(p)
  PROVE  IInv'
<1> USE DEF PCs, Ended
<1>0. /\ bin \in Builds /\ old \in Builds \cup {Absent} /\ Absent.kind # "corrupt"
      /\ bin.kind # "corrupt" /\ old.kind # "corrupt"
      /\ proc[p].new \in Builds \cup {Absent}
  BY DEF IInv, TypeOK, InstalledVerified, Absent, Proc
<1>1. CASE Backup(p)
  BY <1>0, <1>1, InstallKeeps DEF Backup, At, Checked, FitFor, IInv
<1>2. CASE Replace(p)
  BY <1>0, <1>2, InstallKeeps DEF Replace, At, Checked, FitFor, IInv
<1>3. CASE Rollback(p)
  BY <1>0, <1>3, InstallKeeps DEF Rollback, FitFor
<1>4. CASE Discard(p)
  BY <1>0, <1>4, InstallKeeps DEF Discard, FitFor
<1>5. CASE Remove(p)
  BY <1>0, <1>5, InstallKeeps DEF Remove, FitFor
<1> QED  BY <1>1, <1>2, <1>3, <1>4, <1>5

LEMMA NextIInv == IInv /\ [Next]_vars => IInv'
<1> SUFFICES ASSUME IInv, [Next]_vars PROVE IInv'
  OBVIOUS
<1>1. CASE UNCHANGED vars
  BY <1>1 DEF vars, IInv, TypeOK, InstalledVerified, Checked
<1>2. CASE Tick \/ SetClock
  BY <1>2, ClockStep
<1>3. ASSUME NEW p \in Procs, Begin(p) \/ Launch(p) PROVE IInv'
  BY <1>3, StartKeeps DEF Begin, Launch
<1>4. ASSUME NEW p \in Procs,
             \/ TagRefused(p) \/ TagUnreachable(p) \/ UpToDate(p) \/ Offer(p)
             \/ Decline(p) \/ Accept(p)
      PROVE IInv'
  BY <1>4, CheckStep
<1>5. ASSUME NEW p \in Procs, Fetch(p) PROVE IInv'
  BY <1>5, FetchStep
<1>6. ASSUME NEW p \in Procs, Download(p) \/ ProbeSchema(p) \/ SmokeTest(p) \/ Crash(p)
      PROVE IInv'
  BY <1>6, QuietUpgradeStep
<1>7. ASSUME NEW p \in Procs,
             Backup(p) \/ Replace(p) \/ Rollback(p) \/ Discard(p) \/ Remove(p)
      PROVE IInv'
  BY <1>7, InstallStep
<1> QED  BY <1>1, <1>2, <1>3, <1>4, <1>5, <1>6, <1>7 DEF Next

-------------------------------------------------------------------------------

\* Whatever number of processes upgrade at the same time, in whatever order, with
\* crashes and rollbacks, neither the installed binary nor its backup is ever a
\* download that failed its checksum.
THEOREM InstalledIsVerified == Spec => []InstalledVerified
<1>1. Init => IInv
  BY InitIInv
<1>2. IInv /\ [Next]_vars => IInv'
  BY NextIInv
<1>3. IInv => InstalledVerified
  BY DEF IInv
<1> QED  BY <1>1, <1>2, <1>3, PTL DEF Spec

\* Every variable keeps its type.
THEOREM TypeCorrect == Spec => []TypeOK
<1>1. Init => IInv
  BY InitIInv
<1>2. IInv /\ [Next]_vars => IInv'
  BY NextIInv
<1>3. IInv => TypeOK
  BY DEF IInv
<1> QED  BY <1>1, <1>2, <1>3, PTL DEF Spec

-------------------------------------------------------------------------------
(* One process that upgrades alone *)

\* The build it was started as is installed until it is replaced, is in .old from
\* before that on, and is installed again after a rollback.
BinKept(q) ==
  proc[q].pc \in {"tag", "prompt", "fetch", "download", "probe", "backup", "replace",
                  "discard", "failed"}
    => bin \in proven /\ bin.version = proc[q].current

OldKept(q) ==
  proc[q].pc \in {"replace", "smoke", "rollback", "stuck"}
    => old \in proven /\ old.version = proc[q].current

BinRuns(q) == proc[q].pc \in {"idle", "done", "remove"} => bin \in proven

ProvenOnDisk == bin \in proven \/ old \in proven

AloneInv(q) == IInv /\ BinKept(q) /\ OldKept(q) /\ BinRuns(q) /\ ProvenOnDisk

LEMMA AloneInit == ASSUME NEW q \in Procs PROVE Init => AloneInv(q)
<1> SUFFICES ASSUME Init PROVE AloneInv(q)
  OBVIOUS
<1>1. proc[q].pc = "idle" /\ bin \in proven
  BY DEF Init
<1> QED  BY <1>1, InitIInv DEF AloneInv, BinKept, OldKept, BinRuns, ProvenOnDisk

\* What its own steps do to the two binaries.
LEMMA AloneStep ==
  ASSUME NEW q \in Procs, AloneInv(q),
         \/ Begin(q) \/ Launch(q) \/ TagRefused(q) \/ TagUnreachable(q) \/ UpToDate(q)
         \/ Offer(q) \/ Decline(q) \/ Accept(q) \/ Fetch(q) \/ Download(q)
         \/ ProbeSchema(q) \/ Backup(q) \/ Replace(q) \/ SmokeTest(q) \/ Rollback(q)
         \/ Discard(q) \/ Remove(q) \/ Crash(q)
  PROVE  (BinKept(q) /\ OldKept(q) /\ BinRuns(q) /\ ProvenOnDisk)'
<1> USE DEF AloneInv, BinKept, OldKept, BinRuns, ProvenOnDisk, PCs, Ended, At, files
<1>0. TypeOK
  BY DEF IInv
<1>1. CASE Begin(q) \/ Launch(q)
  <2>1. /\ proc'[q].pc \in {"tag", "fetch"} /\ proc'[q].current = bin.version
        /\ bin' = bin /\ bin \in proven'
    BY <1>0, <1>1 DEF Begin, Launch, StartAt, TypeOK
  <2> QED  BY <2>1
<1>2. CASE TagRefused(q) \/ TagUnreachable(q) \/ UpToDate(q) \/ Offer(q) \/ Decline(q)
           \/ Accept(q)
  <2>1. PICK x \in {"done", "prompt", "fetch"} : Goto(q, x)
    BY <1>2 DEF TagRefused, TagUnreachable, UpToDate, Offer, Decline, Accept
  <2>2. proc[q].pc \in {"tag", "prompt"} /\ UNCHANGED <<files, proven>>
    BY <1>2 DEF TagRefused, TagUnreachable, UpToDate, Offer, Decline, Accept
  <2> QED  BY <1>0, <2>1, <2>2, GotoKeeps
<1>3. CASE Fetch(q)
  BY <1>0, <1>3, FetchMoves
<1>4. CASE Download(q)
  BY <1>0, <1>4, GotoKeeps DEF Download
<1>5. CASE ProbeSchema(q)
  BY <1>0, <1>5, GotoKeeps DEF ProbeSchema
<1>6. CASE Backup(q)
  BY <1>0, <1>6, GotoKeeps DEF Backup
<1>7. CASE Replace(q)
  BY <1>0, <1>7, GotoKeeps DEF Replace
<1>8. CASE SmokeTest(q)
  BY <1>0, <1>8, GotoKeeps DEF SmokeTest
<1>9. CASE Rollback(q)
  BY <1>0, <1>9, GotoKeeps DEF Rollback
<1>10. CASE Discard(q)
  BY <1>0, <1>10, GotoKeeps DEF Discard
<1>11. CASE Remove(q)
  BY <1>0, <1>11, GotoKeeps DEF Remove
<1>12. CASE Crash(q)
  BY <1>0, <1>12, GotoKeeps DEF Crash
<1> QED  BY <1>1, <1>2, <1>3, <1>4, <1>5, <1>6, <1>7, <1>8, <1>9, <1>10, <1>11, <1>12

LEMMA AloneNext ==
  ASSUME NEW q, Procs = {q}, AloneInv(q), [Next]_vars
  PROVE  AloneInv(q)'
<1>1. IInv'
  BY NextIInv DEF AloneInv
<1>2. (BinKept(q) /\ OldKept(q) /\ BinRuns(q) /\ ProvenOnDisk)'
  <2>1. CASE UNCHANGED vars \/ Tick \/ SetClock
    BY <2>1
    DEF vars, Tick, SetClock, files, AloneInv, BinKept, OldKept, BinRuns, ProvenOnDisk
  <2>2. CASE ~ (UNCHANGED vars \/ Tick \/ SetClock)
    BY <2>2, AloneStep DEF Next
  <2> QED  BY <2>1, <2>2
<1> QED  BY <1>1, <1>2 DEF AloneInv

\* A process that upgrades alone may fail or crash anywhere, and its rollback may
\* fail: a build that works is installed or in .old, and after a failure the version
\* it was started as is the one installed.
THEOREM InstallKept ==
  ASSUME NEW q, Procs = {q}
  PROVE  Spec => []InstallSurvives
<1>1. Init => AloneInv(q)
  BY AloneInit
<1>2. AloneInv(q) /\ [Next]_vars => AloneInv(q)'
  BY AloneNext
<1>3. AloneInv(q) => WorkingBuildOnDisk
  BY DEF AloneInv, IInv, TypeOK, ProvenOnDisk, WorkingBuildOnDisk, Works
<1>4. AloneInv(q) => FailureRestores
  BY DEF AloneInv, IInv, TypeOK, BinKept, OldKept, BinRuns, FailureRestores, Works, At
<1>5. AloneInv(q) => InstallSurvives
  BY <1>3, <1>4 DEF InstallSurvives
<1> QED  BY <1>1, <1>2, <1>5, PTL DEF Spec

-------------------------------------------------------------------------------
(* The startup check, of one process that launches *)

\* As long as the promise of the last answer stands, the cache that keeps it is on
\* disk and as old as the promise; a check that goes on found no such promise.
QuietInv(q) ==
  /\ quiet > time => cache # NoTime /\ clock - cache = time + Interval - quiet
  /\ proc[q].pc = "tag" => quiet <= time

CheckInv(q) == IInv /\ QuietInv(q)

LEMMA CheckInit == ASSUME NEW q \in Procs PROVE Init => CheckInv(q)
  BY InitIInv DEF Init, CheckInv, QuietInv

\* A launch that asks again found the cache stale.
LEMMA CheckLaunch ==
  ASSUME NEW q \in Procs, CheckInv(q), Begin(q) \/ Launch(q)
  PROVE  QuietInv(q)'
<1>1. UNCHANGED <<cache, clock, time, quiet>>
  BY DEF Begin, Launch, StartAt, hours
<1>2. /\ cache \in Int /\ clock \in Nat /\ time \in Nat /\ quiet \in Nat
      /\ Interval \in Nat \ {0}
  BY UpgradeAssumption DEF CheckInv, IInv, TypeOK
<1>3. CASE Begin(q)
  <2>1. proc'[q].pc = "fetch"
    BY <1>3 DEF Begin, StartAt, CheckInv, IInv, TypeOK
  <2> QED  BY <1>1, <2>1 DEF CheckInv, QuietInv
<1>4. CASE Launch(q)
  <2>1. quiet <= time
    BY <1>2, <1>4 DEF Launch, CacheFresh, CheckInv, QuietInv
  <2> QED  BY <1>1, <2>1 DEF CheckInv, QuietInv
<1> QED  BY <1>3, <1>4

\* The answer is cached as the check ends, or not at all.
LEMMA CheckAnswer ==
  ASSUME NEW q \in Procs, CheckInv(q), NEW x \in PCs \ {"tag"}, Goto(q, x),
         WriteCache \/ UNCHANGED hours
  PROVE  QuietInv(q)'
<1>1. proc'[q].pc # "tag"
  BY GotoKeeps DEF CheckInv, IInv
<1>2. /\ cache \in Int /\ clock \in Nat /\ time \in Nat /\ quiet \in Nat
      /\ Interval \in Nat \ {0}
  BY UpgradeAssumption DEF CheckInv, IInv, TypeOK
<1>3. CASE UNCHANGED hours
  BY <1>1, <1>3 DEF hours, CheckInv, QuietInv
<1>4. CASE WriteCache /\ ~ UNCHANGED hours
  BY <1>1, <1>2, <1>4 DEF WriteCache, NoTime, CheckInv, QuietInv
<1> QED  BY <1>3, <1>4

\* A step of the upgrade itself does not touch the cache, and is not the check.
LEMMA CheckUpgrade ==
  ASSUME NEW q \in Procs, CheckInv(q),
         \/ Fetch(q) \/ Download(q) \/ ProbeSchema(q) \/ Backup(q) \/ Replace(q)
         \/ SmokeTest(q) \/ Rollback(q) \/ Discard(q) \/ Remove(q) \/ Crash(q)
  PROVE  /\ UNCHANGED hours
         /\ proc'[q].pc \notin {"tag", "prompt"}
<1> USE DEF PCs, Ended, CheckInv, IInv
<1>1. CASE Fetch(q)
  BY <1>1, FetchMoves
<1>2. CASE Download(q)
  BY <1>2, GotoKeeps DEF Download
<1>3. CASE ProbeSchema(q)
  BY <1>3, GotoKeeps DEF ProbeSchema
<1>4. CASE Backup(q)
  BY <1>4, GotoKeeps DEF Backup
<1>5. CASE Replace(q)
  BY <1>5, GotoKeeps DEF Replace
<1>6. CASE SmokeTest(q)
  BY <1>6, GotoKeeps DEF SmokeTest
<1>7. CASE Rollback(q)
  BY <1>7, GotoKeeps DEF Rollback
<1>8. CASE Discard(q) \/ Remove(q)
  BY <1>8, GotoKeeps DEF Discard, Remove
<1>9. CASE Crash(q)
  BY <1>9, GotoKeeps DEF Crash
<1> QED  BY <1>1, <1>2, <1>3, <1>4, <1>5, <1>6, <1>7, <1>8, <1>9

LEMMA CheckNext ==
  ASSUME NEW q, Procs = {q}, CheckInv(q), [Next]_vars
  PROVE  /\ CheckInv(q)'
         /\ proc[q].pc # "prompt" /\ proc'[q].pc = "prompt" => time >= quiet
<1>0. IInv' /\ TypeOK
  BY NextIInv DEF CheckInv, IInv
<1>t. /\ cache \in Int /\ clock \in Nat /\ time \in Nat /\ quiet \in Nat
      /\ Interval \in Nat \ {0}
  BY UpgradeAssumption, <1>0 DEF TypeOK
<1>1. CASE UNCHANGED vars
  BY <1>0, <1>1 DEF vars, CheckInv, QuietInv
<1>2. CASE Tick
  <2>1. QuietInv(q)'
    BY <1>t, <1>2 DEF Tick, CheckInv, QuietInv
  <2>2. proc' = proc
    BY <1>2 DEF Tick
  <2> QED  BY <1>0, <2>1, <2>2 DEF CheckInv
<1>3. CASE SetClock
  <2>1. quiet' = 0 /\ UNCHANGED <<proc, cache, time>>
    BY <1>3 DEF SetClock
  <2>2. QuietInv(q)'
    BY <1>t, <2>1 DEF QuietInv
  <2> QED  BY <1>0, <2>1, <2>2 DEF CheckInv
<1>4. CASE Begin(q) \/ Launch(q)
  <2>1. proc'[q].pc \in {"fetch", "tag"}
    BY <1>0, <1>4 DEF Begin, Launch, StartAt, TypeOK
  <2> QED  BY <1>0, <1>4, <2>1, CheckLaunch DEF CheckInv
<1>5. CASE \/ TagRefused(q) \/ TagUnreachable(q) \/ UpToDate(q) \/ Offer(q)
           \/ Decline(q) \/ Accept(q)
  <2>1. PICK x \in {"done", "prompt", "fetch"} : Goto(q, x)
    BY <1>5 DEF TagRefused, TagUnreachable, UpToDate, Offer, Decline, Accept
  <2>2. WriteCache \/ UNCHANGED hours
    BY <1>5 DEF TagRefused, TagUnreachable, UpToDate, Offer, Decline, Accept
  <2>3. QuietInv(q)'
    BY <2>1, <2>2, CheckAnswer DEF PCs, Ended
  <2>4. proc[q].pc # "prompt" /\ proc'[q].pc = "prompt" => time >= quiet
    <3>1. proc[q].pc \in {"tag", "prompt"}
      BY <1>5 DEF TagRefused, TagUnreachable, UpToDate, Offer, Decline, Accept, At
    <3> QED  BY <1>t, <3>1 DEF CheckInv, QuietInv
  <2> QED  BY <1>0, <2>3, <2>4 DEF CheckInv
<1>6. CASE \/ Fetch(q) \/ Download(q) \/ ProbeSchema(q) \/ Backup(q) \/ Replace(q)
           \/ SmokeTest(q) \/ Rollback(q) \/ Discard(q) \/ Remove(q) \/ Crash(q)
  BY <1>0, <1>6, CheckUpgrade DEF CheckInv, QuietInv, hours
<1> QED  BY <1>1, <1>2, <1>3, <1>4, <1>5, <1>6 DEF Next

\* Of a process that launches alone, however often, whatever is offered, declined
\* and cut off, and whether or not the cache could be written: as long as the
\* clock is not set, nobody is asked again before the interval is over.
THEOREM QuietKept ==
  ASSUME NEW q, Procs = {q}
  PROVE  Spec => QuietForInterval
<1>1. Init => CheckInv(q)
  BY CheckInit
<1>2. CheckInv(q) /\ [Next]_vars => CheckInv(q)'
  BY CheckNext
<1>3. CheckInv(q) /\ [Next]_vars =>
        [\A p \in Procs :
           proc[p].pc # "prompt" /\ proc'[p].pc = "prompt" => time >= quiet]_vars
  BY CheckNext
<1> QED  BY <1>1, <1>2, <1>3, PTL DEF Spec, QuietForInterval

-------------------------------------------------------------------------------
(* What an update that is kept replaces *)

\* The order of three numbers.
LEMMA CoreBelowIs ==
  ASSUME NEW a, NEW b
  PROVE  CoreBelow(a, b) <=>
           \/ a[1] < b[1]
           \/ a[1] = b[1] /\ a[2] < b[2]
           \/ a[1] = b[1] /\ a[2] = b[2] /\ a[3] < b[3]
  BY DEF CoreBelow

\* A version string whose parts are what they are taken for.
Identifiers == Seq([num : BOOLEAN, at : Nat])

Versions == [parts  : Seq(Nat \cup {NotANumber}),
             suffix : [mark : {"", "-", "+"}, rank : Nat, ids : Identifiers]]

LEMMA SplitSemverType ==
  ASSUME NEW v \in Versions
  PROVE  /\ SplitSemver(v).core \in [1 .. 3 -> Nat]
         /\ SplitSemver(v).pre \in Nat
<1>1. /\ v.parts \in Seq(Nat \cup {NotANumber}) /\ Len(v.parts) \in Nat
      /\ v.suffix.rank \in Nat
  <2>1. /\ v.parts \in Seq(Nat \cup {NotANumber})
        /\ v.suffix \in [mark : {"", "-", "+"}, rank : Nat, ids : Identifiers]
    BY DEF Versions
  <2>2. \A s \in Seq(Nat \cup {NotANumber}) : Len(s) \in Nat
    OBVIOUS
  <2> QED  BY <2>1, <2>2
<1>2. ASSUME NEW i \in 1 .. 3, ~ i > Len(v.parts), v.parts[i] # NotANumber
      PROVE  v.parts[i] \in Nat
  <2>1. i \in 1 .. Len(v.parts)
    BY <1>1, <1>2
  <2> QED  BY <1>1, <1>2, <2>1
<1> QED  BY <1>1, <1>2 DEF SplitSemver

\* cmpSemver orders all version strings, those that are no versions included: none is
\* below itself, and a chain of updates goes up from its first to its last.
THEOREM CmpSemverOrders ==
  /\ \A v \in Versions : ~ Below(v, v)
  /\ \A u, v, w \in Versions : Below(u, v) /\ Below(v, w) => Below(u, w)
<1>1. ASSUME NEW v \in Versions PROVE ~ Below(v, v)
  BY SplitSemverType, CoreBelowIs DEF Below
<1>2. ASSUME NEW u \in Versions, NEW v \in Versions, NEW w \in Versions,
             Below(u, v), Below(v, w)
      PROVE  Below(u, w)
  <2> DEFINE a == SplitSemver(u)
             b == SplitSemver(v)
             c == SplitSemver(w)
  <2>1. /\ a.core \in [1 .. 3 -> Nat] /\ b.core \in [1 .. 3 -> Nat]
        /\ c.core \in [1 .. 3 -> Nat] /\ a.pre \in Nat /\ b.pre \in Nat /\ c.pre \in Nat
    BY SplitSemverType
  <2>2. CoreBelow(a.core, b.core) /\ CoreBelow(b.core, c.core) => CoreBelow(a.core, c.core)
    BY <2>1, CoreBelowIs
  <2>3. /\ CoreBelow(a.core, b.core) \/ a.core = b.core
        /\ CoreBelow(b.core, c.core) \/ b.core = c.core
    BY <1>2 DEF Below
  <2>4. CASE CoreBelow(a.core, c.core)
    BY <2>4 DEF Below
  <2>5. CASE ~ CoreBelow(a.core, c.core)
    <3>1. a.core = b.core /\ b.core = c.core
      BY <2>2, <2>3, <2>5
    <3>2. ~ CoreBelow(a.core, a.core)
      BY <2>1, CoreBelowIs
    <3>3. a.pre # 0 /\ (b.pre = 0 \/ a.pre < b.pre) /\ b.pre # 0 /\ (c.pre = 0 \/ b.pre < c.pre)
      BY <1>2, <3>1, <3>2 DEF Below
    <3> QED  BY <2>1, <3>1, <3>3 DEF Below
  <2> QED  BY <2>4, <2>5
<1> QED  BY <1>1, <1>2

\* A mark that nothing follows is none, and a pre-release has an identifier.
WellMarked(v) ==
  /\ v.suffix.rank = 0 <=> v.suffix.mark = ""
  /\ v.suffix.mark = "-" => v.suffix.ids # <<>>

LEMMA PlainCore ==
  ASSUME NEW v \in Versions, Len(v.parts) = 3,
         \A i \in 1 .. 3 : v.parts[i] # NotANumber
  PROVE  SplitSemver(v).core = v.parts
<1>1. SplitSemver(v).core = [i \in 1 .. 3 |-> v.parts[i]]
  BY DEF SplitSemver
<1>2. ASSUME NEW s \in Seq(Nat \cup {NotANumber}), Len(s) = 3
      PROVE  s = [i \in 1 .. 3 |-> s[i]]
  BY <1>2
<1>3. v.parts \in Seq(Nat \cup {NotANumber})
  BY DEF Versions
<1> QED  BY <1>1, <1>2, <1>3

\* Of versions that are plainly ordered, the one cmpSemver puts below the other has
\* the lower precedence.
LEMMA BelowIsSemver ==
  ASSUME NEW v \in Versions, NEW w \in Versions, WellMarked(v), WellMarked(w),
         PlainlyOrdered(v, w), Below(v, w)
  PROVE  SemverBelow(v, w)
<1>1. SplitSemver(v).core = v.parts /\ SplitSemver(w).core = w.parts
  BY PlainCore DEF PlainlyOrdered
<1>2. CASE v.parts # w.parts
  <2>1. CoreBelow(v.parts, w.parts)
    BY <1>1, <1>2 DEF Below
  <2> QED  BY <2>1 DEF SemverBelow
<1>3. CASE v.parts = w.parts
  <2>1. ~ CoreBelow(v.parts, w.parts)
    BY <1>1, <1>3, SplitSemverType, CoreBelowIs
  <2>2. v.suffix.rank # 0
    BY <1>1, <2>1 DEF Below, SplitSemver
  <2>3. v.suffix.mark = "-" /\ w.suffix.mark = ""
    BY <1>3, <2>2 DEF PlainlyOrdered, WellMarked
  <2>4. PreRelease(v) # <<>> /\ PreRelease(w) = <<>>
    BY <2>3 DEF PreRelease, WellMarked
  <2> QED  BY <1>3, <2>4 DEF SemverBelow
<1> QED  BY <1>2, <1>3

\* What was downloaded is newer than the process, and what is smoke-tested and kept
\* is what was downloaded.
GoesUp(q) ==
  /\ proc[q].pc \in {"download", "probe", "backup", "replace", "smoke", "remove"} =>
       Newer(proc[q].new.version, proc[q].current)
  /\ proc[q].pc \in {"smoke", "remove"} => bin = proc[q].new
  /\ proc[q].pc # "idle" => proc[q].current \in 1 .. MaxVersion

UpInv(q) == IInv /\ GoesUp(q)

LEMMA UpNext ==
  ASSUME NEW q, Procs = {q}, UpInv(q), [Next]_vars
  PROVE  GoesUp(q)'
<1> USE DEF UpInv, IInv, GoesUp, PCs, Ended, At, files
<1>0. TypeOK
  OBVIOUS
<1>1. CASE UNCHANGED vars \/ Tick \/ SetClock
  BY <1>1 DEF vars, Tick, SetClock
<1>2. CASE Begin(q) \/ Launch(q)
  <2>1. proc'[q].pc \in {"fetch", "tag"} /\ proc'[q].current = bin.version
    BY <1>0, <1>2 DEF Begin, Launch, StartAt, TypeOK
  <2> QED  BY <1>0, <2>1 DEF TypeOK, Builds
<1>3. CASE \/ TagRefused(q) \/ TagUnreachable(q) \/ UpToDate(q) \/ Offer(q)
           \/ Decline(q) \/ Accept(q)
  <2>1. PICK x \in {"done", "prompt", "fetch"} : Goto(q, x)
    BY <1>3 DEF TagRefused, TagUnreachable, UpToDate, Offer, Decline, Accept
  <2>2. proc[q].pc # "idle"
    BY <1>3 DEF TagRefused, TagUnreachable, UpToDate, Offer, Decline, Accept
  <2> QED  BY <1>0, <2>1, <2>2, GotoKeeps
<1>4. CASE Fetch(q)
  BY <1>0, <1>4, FetchMoves
<1>5. CASE Download(q)
  BY <1>0, <1>5, GotoKeeps DEF Download
<1>6. CASE ProbeSchema(q)
  BY <1>0, <1>6, GotoKeeps DEF ProbeSchema
<1>7. CASE Backup(q)
  BY <1>0, <1>7, GotoKeeps DEF Backup
<1>8. CASE Replace(q)
  BY <1>0, <1>8, GotoKeeps DEF Replace
<1>9. CASE SmokeTest(q)
  BY <1>0, <1>9, GotoKeeps DEF SmokeTest
<1>10. CASE Rollback(q) \/ Discard(q) \/ Remove(q) \/ Crash(q)
  BY <1>0, <1>10, GotoKeeps DEF Rollback, Discard, Remove, Crash
<1> QED  BY <1>1, <1>2, <1>3, <1>4, <1>5, <1>6, <1>7, <1>8, <1>9, <1>10 DEF Next

\* No version that has run is newer than the installed one, nor than the one a failed
\* smoke test would bring back.
AtMost(v, w) == v = w \/ Newer(w, v)

RanUpTo(build) == \A b \in proven : AtMost(b.version, build.version)

HistoryInv(q) ==
  /\ AloneInv(q) /\ GoesUp(q)
  /\ RanUpTo(bin)
  /\ proc[q].pc \in {"smoke", "rollback"} => RanUpTo(old)

TagsTyped == \A v \in 1 .. MaxVersion : Tags[v] \in Versions /\ WellMarked(Tags[v])

\* A build newer than one that all those stay below is newer than them.
LEMMA NewerStill ==
  ASSUME TagsTyped, TypeOK, NEW build \in Builds, NEW new \in Builds, RanUpTo(build),
         Newer(new.version, build.version)
  PROVE  RanUpTo(new)
<1> SUFFICES ASSUME NEW b \in proven PROVE AtMost(b.version, new.version)
  BY DEF RanUpTo
<1>1. AtMost(b.version, build.version)
  BY DEF RanUpTo
<1>2. b \in Builds
  BY DEF TypeOK
<1>3. /\ b.version \in 1 .. MaxVersion /\ build.version \in 1 .. MaxVersion
      /\ new.version \in 1 .. MaxVersion
  BY <1>2 DEF Builds
<1>4. /\ Tags[b.version] \in Versions /\ Tags[build.version] \in Versions
      /\ Tags[new.version] \in Versions
  BY <1>3 DEF TagsTyped
<1> QED  BY <1>1, <1>4, CmpSemverOrders DEF AtMost, Newer

LEMMA HistoryNext ==
  ASSUME NEW q, Procs = {q}, TagsTyped, HistoryInv(q), [Next]_vars
  PROVE  HistoryInv(q)'
<1>0. AloneInv(q)' /\ GoesUp(q)' /\ TypeOK
  BY AloneNext, UpNext DEF HistoryInv, UpInv, AloneInv, IInv
<1> USE DEF HistoryInv, PCs, Ended, At, files
<1>1. CASE UNCHANGED vars \/ Tick \/ SetClock
  BY <1>0, <1>1 DEF vars, Tick, SetClock, RanUpTo
<1>2. CASE Begin(q) \/ Launch(q)
  <2>1. /\ proc'[q].pc \in {"fetch", "tag"} /\ proven' = proven \cup {bin}
        /\ bin' = bin
    BY <1>0, <1>2 DEF Begin, Launch, StartAt, TypeOK
  <2> QED  BY <1>0, <2>1 DEF RanUpTo, AtMost
<1>3. CASE \/ TagRefused(q) \/ TagUnreachable(q) \/ UpToDate(q) \/ Offer(q)
           \/ Decline(q) \/ Accept(q)
  <2>1. PICK x \in {"done", "prompt", "fetch"} : Goto(q, x)
    BY <1>3 DEF TagRefused, TagUnreachable, UpToDate, Offer, Decline, Accept
  <2>2. proven' = proven /\ bin' = bin
    BY <1>3 DEF TagRefused, TagUnreachable, UpToDate, Offer, Decline, Accept
  <2> QED  BY <1>0, <2>1, <2>2, GotoKeeps DEF RanUpTo
<1>4. CASE Fetch(q)
  BY <1>0, <1>4, FetchMoves DEF RanUpTo
<1>5. CASE Download(q) \/ ProbeSchema(q) \/ Backup(q) \/ Discard(q) \/ Remove(q)
  <2>1. PICK x \in {"probe", "failed", "backup", "replace", "done"} : Goto(q, x)
    BY <1>5 DEF Download, ProbeSchema, Backup, Discard, Remove
  <2>2. proven' = proven /\ bin' = bin
    BY <1>5 DEF Download, ProbeSchema, Backup, Discard, Remove
  <2> QED  BY <1>0, <2>1, <2>2, GotoKeeps DEF RanUpTo
<1>6. CASE Replace(q)
  <2>1. CASE Goto(q, "failed") /\ bin' = bin /\ proven' = proven
    BY <1>0, <2>1, GotoKeeps DEF RanUpTo
  <2>2. CASE bin' = proc[q].new /\ Goto(q, "smoke") /\ old' = old /\ proven' = proven
    <3>1. proc[q].pc = "replace"
      BY <1>6 DEF Replace
    <3>2. /\ Newer(proc[q].new.version, proc[q].current)
          /\ bin.version = proc[q].current /\ old.version = proc[q].current
      BY <3>1 DEF GoesUp, AloneInv, BinKept, OldKept
    <3>3. bin \in Builds /\ proc[q].new \in Builds
      BY <1>0, <3>1 DEF TypeOK, AloneInv, IInv, Checked, FitFor
    <3>4. RanUpTo(bin) /\ Newer(proc[q].new.version, bin.version)
      BY <3>2
    <3>5. RanUpTo(proc[q].new)
      BY <1>0, <3>3, <3>4, NewerStill
    <3>6. RanUpTo(bin)' /\ RanUpTo(old)'
      BY <2>2, <3>2, <3>4, <3>5 DEF RanUpTo
    <3> QED  BY <1>0, <3>6
  <2> QED  BY <1>6, <2>1, <2>2 DEF Replace
<1>7. CASE SmokeTest(q)
  <2>1. CASE Goto(q, "rollback") /\ proven' = proven
    <3>1. bin' = bin /\ old' = old /\ proc[q].pc = "smoke"
      BY <1>7 DEF SmokeTest
    <3> QED  BY <1>0, <2>1, <3>1 DEF RanUpTo
  <2>2. CASE Goto(q, "remove") /\ proven' = proven \cup {bin}
    <3>1. bin' = bin
      BY <1>7 DEF SmokeTest
    <3> QED  BY <1>0, <2>2, <3>1, GotoKeeps DEF RanUpTo, AtMost
  <2> QED  BY <1>7, <2>1, <2>2 DEF SmokeTest
<1>8. CASE Rollback(q)
  <2>1. proc[q].pc = "rollback" /\ proven' = proven /\ old' = old
    BY <1>8 DEF Rollback
  <2>2. CASE bin' = old /\ Goto(q, "discard")
    BY <1>0, <2>1, <2>2, GotoKeeps DEF RanUpTo
  <2>3. CASE bin' = bin /\ Goto(q, "stuck")
    BY <1>0, <2>1, <2>3, GotoKeeps DEF RanUpTo
  <2> QED  BY <1>8, <2>2, <2>3 DEF Rollback
<1>9. CASE Crash(q)
  <2>1. Goto(q, "crashed") /\ proven' = proven /\ bin' = bin
    BY <1>9 DEF Crash
  <2> QED  BY <1>0, <2>1, GotoKeeps DEF RanUpTo
<1> QED  BY <1>1, <1>2, <1>3, <1>4, <1>5, <1>6, <1>7, <1>8, <1>9 DEF Next

\* Of a process that upgrades alone, whatever tags are published and whatever fails or
\* is cut off: no version that has run is above the installed one by the precedence of
\* semantic versioning, if their numbers differ or one is a candidate of the other.
THEOREM UpdatesNeverGoBack ==
  ASSUME NEW q, Procs = {q}, TagsTyped
  PROVE  Spec => []UpdatesGoUp
<1>1. Init => HistoryInv(q)
  <2> SUFFICES ASSUME Init PROVE HistoryInv(q)
    OBVIOUS
  <2>1. proc[q].pc = "idle" /\ proven = {bin}
    BY DEF Init
  <2>2. AloneInv(q)
    BY AloneInit
  <2> QED  BY <2>1, <2>2 DEF HistoryInv, GoesUp, RanUpTo, AtMost
<1>2. HistoryInv(q) /\ [Next]_vars => HistoryInv(q)'
  BY HistoryNext
<1>3. HistoryInv(q) => UpdatesGoUp
  <2> SUFFICES ASSUME HistoryInv(q), NEW b \in proven, b.version # bin.version,
                      PlainlyOrdered(Tags[b.version], Tags[bin.version])
               PROVE  SemverBelow(Tags[b.version], Tags[bin.version])
    BY DEF UpdatesGoUp
  <2>1. Below(Tags[b.version], Tags[bin.version])
    BY DEF HistoryInv, RanUpTo, AtMost, Newer
  <2>2. b.version \in 1 .. MaxVersion /\ bin.version \in 1 .. MaxVersion
    BY DEF HistoryInv, AloneInv, IInv, TypeOK, Builds
  <2> QED  BY <2>1, <2>2, BelowIsSemver DEF TagsTyped
<1> QED  BY <1>1, <1>2, <1>3, PTL DEF Spec
===============================================================================
