------------------------------- MODULE FileStore -------------------------------
(***************************************************************************)
(* What the proxy's files endpoint (files.go) promises claude, without     *)
(* handlers, locks or replies on the wire: an upload gives an id nobody    *)
(* had, the id means that upload for as long as the launcher lives, and    *)
(* the only ids that miss are those of a launcher that has ended.          *)
(***************************************************************************)
EXTENDS Naturals

CONSTANTS
  Ids,       \* file ids
  Contents,  \* contents of files
  Readers,   \* requests that refer to files
  Nothing    \* no content

VARIABLES
  running,  \* whether a launcher runs
  epoch,    \* the launchers started so far
  told,     \* what claude uploaded under the ids it was told
  since,    \* the epoch in which it was told
  held,     \* what the running launcher gives for a told id
  misses    \* per reader: the ids that were not found

vars == <<running, epoch, told, since, held, misses>>

NoFiles == [i \in Ids |-> Nothing]

Init ==
  /\ running = FALSE /\ epoch = 0
  /\ told = NoFiles /\ since = [i \in Ids |-> 0] /\ held = NoFiles
  /\ misses = [r \in Readers |-> {}]

\* A launcher starts with no files, whatever the one before it held.
Open ==
  /\ ~ running
  /\ running' = TRUE /\ epoch' = epoch + 1
  /\ UNCHANGED <<told, since, held, misses>>

Close ==
  /\ running
  /\ running' = FALSE /\ held' = NoFiles
  /\ UNCHANGED <<epoch, told, since, misses>>

\* claude learns an id for its upload, and from then on the id is good.
Upload(i, d) ==
  /\ running /\ told[i] = Nothing
  /\ told' = [told EXCEPT ![i] = d]
  /\ since' = [since EXCEPT ![i] = epoch]
  /\ held' = [held EXCEPT ![i] = d]
  /\ UNCHANGED <<running, epoch, misses>>

Miss(r, i) ==
  /\ running
  /\ told[i] # Nothing /\ since[i] < epoch /\ held[i] = Nothing
  /\ misses' = [misses EXCEPT ![r] = @ \cup {i}]
  /\ UNCHANGED <<running, epoch, told, since, held>>

Next ==
  \/ Open \/ Close
  \/ \E i \in Ids, d \in Contents : Upload(i, d)
  \/ \E q \in Readers, i \in Ids : Miss(q, i)

Spec == Init /\ [][Next]_vars
===============================================================================
