--------------------------- MODULE RecoveryPoint ----------------------------
(***************************************************************************)
(* The recovery points of the runtime: create_recovery_bundle copies four  *)
(* databases and the protected files beside them while the service goes on *)
(* writing, and publishes an archive and its manifest; the collector of    *)
(* another host lists what was published, fetches it and prunes its own    *)
(* old copies; a drill restores one copy into a new directory.             *)
(*                                                                         *)
(* A database is the number of its commits (PRAGMA data_version changes    *)
(* with each), the protected files are the number of their changes.        *)
(***************************************************************************)
EXTENDS Naturals, FiniteSets, Functions

CONSTANTS
    Dbs,           \* the databases of one home
    MaxWrites,     \* bound on the commits and file changes of the service
    Generations,   \* a set of consecutive numbers from 1, newest last
    Attempts,      \* snapshots tried for one recovery point (3)
    KeepMin,       \* copies the collector never prunes (7)
    MaxFaults      \* bound on crashes, failed validations and transfers

RecoveryAssumption == Attempts \in Nat \ {0} /\ KeepMin \in Nat \ {0}

VARIABLES
    live,      \* db -> commits so far
    files,     \* changes of the protected files so far
    snap,      \* create_recovery_bundle
    archives,  \* generation -> bundle, as replaced into the output directory
    manifests, \* generation -> bundle its manifest describes
    pull,      \* collect, on the backup host
    copies,    \* generation -> bundle, on the backup host
    age,       \* generation -> "fresh" (36 hours), "aged" or "old" (90 days)
    report,    \* the generation last-success.json names, 0 if none
    drill,     \* the restored copy: [of, sessions]
    faults

vars == <<live, files, snap, archives, manifests, pull, copies, age, report, drill, faults>>

NoGen == 0

\* A table with nothing in it, and one with an entry more.
Empty == [x \in {} |-> 0]
Put(f, x, v) == [y \in DOMAIN f \cup {x} |-> IF y \in DOMAIN f THEN f[y] ELSE v]

Idle == [pc |-> "idle", gen |-> NoGen, attempt |-> 0, versions |-> Empty, files |-> 0,
         pinned |-> Empty, copied |-> Empty, then |-> Empty]
NoPull == [pc |-> "idle", list |-> Empty, gen |-> NoGen]
Torn == [dbs |-> Empty, files |-> 0, then |-> Empty]
NoDrill == [of |-> NoGen, sessions |-> "none"]
Writes == files + (CHOOSE n \in 0..(MaxWrites * Cardinality(Dbs)) :
                     n = FoldFunction(LAMBDA a, b : a + b, 0, live))

Init ==
    /\ live = [d \in Dbs |-> 0]
    /\ files = 0
    /\ snap = Idle
    /\ archives = Empty /\ manifests = Empty
    /\ pull = NoPull
    /\ copies = Empty
    /\ age = [g \in Generations |-> "fresh"]
    /\ report = NoGen
    /\ drill = NoDrill
    /\ faults = 0

-----------------------------------------------------------------------------
(* The service.                                                            *)

Commit(d) ==
    /\ Writes < MaxWrites
    /\ live' = [live EXCEPT ![d] = @ + 1]
    /\ UNCHANGED <<files, snap, archives, manifests, pull, copies, age, report, drill, faults>>
ChangeFile ==
    /\ Writes < MaxWrites
    /\ files' = files + 1
    /\ UNCHANGED <<live, snap, archives, manifests, pull, copies, age, report, drill, faults>>

-----------------------------------------------------------------------------
(* create_recovery_bundle and _snapshot.                                   *)

SnapOnly == UNCHANGED <<live, files, archives, manifests, pull, copies, age, report, drill, faults>>

Start(g) ==
    /\ snap.pc = "idle"
    /\ g = 1 + Cardinality(DOMAIN archives)
    /\ snap' = [Idle EXCEPT !.pc = "version", !.gen = g, !.attempt = 1]
    /\ SnapOnly

\* The monitoring connections read data_version one after the other ...
ReadVersion(d) ==
    /\ snap.pc = "version"
    /\ d \notin DOMAIN snap.versions
    /\ snap' = [snap EXCEPT !.versions = Put(snap.versions, d, live[d])]
    /\ SnapOnly

\* ... the protected files are listed with their hashes ...
Inventory ==
    /\ snap.pc = "version"
    /\ DOMAIN snap.versions = Dbs
    /\ snap' = [snap EXCEPT !.pc = "pin", !.files = files, !.then = live]
    /\ SnapOnly

\* ... and every database is pinned by a reader.
PinDatabase(d) ==
    /\ snap.pc = "pin"
    /\ d \notin DOMAIN snap.pinned
    /\ snap' = [snap EXCEPT !.pinned = Put(snap.pinned, d, live[d])]
    /\ SnapOnly

\* SnapshotConflict: the next attempt starts over; after the last one the
\* call fails and nothing is published.
Conflict ==
    snap' = IF snap.attempt < Attempts
            THEN [Idle EXCEPT !.pc = "version", !.gen = snap.gen, !.attempt = snap.attempt + 1]
            ELSE Idle

\* A mutant: the commits while the readers were pinned are not looked at.
UnchangedAnyway(d) == TRUE

\* data_version of a monitoring connection says whether someone committed.
Unchanged(d) == live[d] = snap.versions[d]

Recheck(d) ==
    /\ snap.pc = "pin"
    /\ DOMAIN snap.pinned = Dbs
    /\ d \notin DOMAIN snap.copied
    /\ IF Unchanged(d)
       THEN snap' = [snap EXCEPT !.copied = Put(snap.copied, d, snap.pinned[d])]
       ELSE Conflict
    /\ SnapOnly

\* The pinned views and the files are copied; the files must still be as
\* they were listed, during and after the copy.
FilesAsListed == files = snap.files
CopyFiles ==
    /\ snap.pc = "pin"
    /\ DOMAIN snap.copied = Dbs
    /\ IF FilesAsListed THEN snap' = [snap EXCEPT !.pc = "archive"] ELSE Conflict
    /\ SnapOnly

Bundle == [dbs |-> snap.copied, files |-> snap.files, then |-> snap.then]

\* _validate_home passed: the archive is moved into place, then the manifest
\* that makes the generation known.
PublishArchive ==
    /\ snap.pc = "archive"
    /\ archives' = Put(archives, snap.gen, Bundle)
    /\ snap' = [snap EXCEPT !.pc = "manifest"]
    /\ UNCHANGED <<live, files, manifests, pull, copies, age, report, drill, faults>>
PublishManifest ==
    /\ snap.pc = "manifest"
    /\ manifests' = Put(manifests, snap.gen, Bundle)
    /\ snap' = Idle
    /\ UNCHANGED <<live, files, archives, pull, copies, age, report, drill, faults>>

\* Validation fails, the deadline passes or the process dies: what was staged
\* is gone, an archive without a manifest may stay behind.
SnapshotFails ==
    /\ snap.pc # "idle"
    /\ faults < MaxFaults
    /\ faults' = faults + 1
    /\ snap' = Idle
    /\ UNCHANGED <<live, files, archives, manifests, pull, copies, age, report, drill>>

-----------------------------------------------------------------------------
(* inventory (agentbridge_backup_export.py) and collect.                   *)

PullOnly == UNCHANGED <<live, files, snap, archives, manifests, drill>>

\* An empty inventory is an error.
List ==
    /\ pull.pc = "idle"
    /\ manifests # Empty
    /\ pull' = [pc |-> "next", list |-> manifests, gen |-> NoGen]
    /\ UNCHANGED <<copies, age, report, faults>> /\ PullOnly

SameAsListed(g) == copies[g] = pull.list[g]
NextEntry(g) == g \in DOMAIN pull.list /\ g > pull.gen /\ \A h \in DOMAIN pull.list : h > pull.gen => g <= h

Reuse(g) ==
    /\ pull.pc = "next"
    /\ NextEntry(g)
    /\ g \in DOMAIN copies
    /\ pull' = IF SameAsListed(g) THEN [pull EXCEPT !.gen = g] ELSE NoPull
    /\ UNCHANGED <<copies, age, report, faults>> /\ PullOnly

\* A mutant: what arrives is taken for what was listed.
VerifiedAnyway(g, got) == TRUE

\* fetch: size and hash of what arrived.
Verified(g, got) == got = pull.list[g]

\* Manifest and archive are fetched into a stage and compared with the
\* listing; the rename makes them a copy.  A transfer that does not compare
\* ends the run.
Fetch(g, got) ==
    /\ pull.pc = "next"
    /\ NextEntry(g)
    /\ g \notin DOMAIN copies
    /\ IF Verified(g, got)
       THEN copies' = Put(copies, g, got) /\ pull' = [pull EXCEPT !.gen = g]
       ELSE pull' = NoPull /\ UNCHANGED copies
    /\ UNCHANGED <<age, report, faults>> /\ PullOnly

\* The transfer breaks or the collector dies: the stage is removed, the run
\* ends and its report stays the old one.
PullFails ==
    /\ pull.pc # "idle"
    /\ faults < MaxFaults
    /\ faults' = faults + 1
    /\ pull' = NoPull
    /\ UNCHANGED <<copies, age, report>> /\ PullOnly

Latest == CHOOSE g \in DOMAIN pull.list : \A h \in DOMAIN pull.list : h <= g

\* The newest KeepMin copies stay, whatever their age.
Prunable == {g \in DOMAIN copies : age[g] = "old" /\ Cardinality({h \in DOMAIN copies : h > g}) >= KeepMin}

\* After the last entry: a stale source is an error, before anything is
\* pruned; then the old copies go and the report is replaced.
Finish ==
    /\ pull.pc = "next"
    /\ pull.gen = Latest
    /\ IF age[Latest] = "fresh"
       THEN /\ copies' = Restrict(copies, DOMAIN copies \ Prunable)
            /\ report' = Latest
       ELSE UNCHANGED <<copies, report>>
    /\ pull' = NoPull
    /\ UNCHANGED <<age, faults>> /\ PullOnly

TimePasses(g) ==
    /\ g \in DOMAIN manifests
    /\ age[g] # "old"
    /\ \A h \in Generations : h < g => age[h] # "fresh" /\ (age[g] = "aged" => age[h] = "old")
    /\ age' = [age EXCEPT ![g] = IF @ = "fresh" THEN "aged" ELSE "old"]
    /\ UNCHANGED <<live, files, snap, archives, manifests, pull, copies, report, drill, faults>>

-----------------------------------------------------------------------------
\* restore_recovery_bundle: always a new directory; sessions, downloads and
\* reports are expired in it.
Restore(g) ==
    /\ g \in DOMAIN manifests
    /\ drill.of = NoGen
    /\ drill' = [of |-> g, sessions |-> "expired"]
    /\ UNCHANGED <<live, files, snap, archives, manifests, pull, copies, age, report, faults>>

-----------------------------------------------------------------------------
Next ==
    \/ \E d \in Dbs : Commit(d) \/ ReadVersion(d) \/ PinDatabase(d) \/ Recheck(d)
    \/ ChangeFile
    \/ \E g \in Generations : Start(g) \/ Reuse(g) \/ TimePasses(g) \/ Restore(g)
    \/ \E g \in DOMAIN archives : \E got \in {archives[g], Torn} : Fetch(g, got)
    \/ Inventory \/ CopyFiles \/ PublishArchive \/ PublishManifest \/ SnapshotFails
    \/ List \/ PullFails \/ Finish

Spec == Init /\ [][Next]_vars

-----------------------------------------------------------------------------
TypeOK ==
    /\ live \in [Dbs -> Nat]
    /\ DOMAIN manifests \subseteq DOMAIN archives
    /\ DOMAIN archives \subseteq Generations
    /\ DOMAIN copies \subseteq Generations
    /\ report \in Generations \cup {NoGen}

\* A published recovery point is one moment of the runtime: its databases and
\* its protected files were all like that at the same time, however the
\* commits fell between the reads of _snapshot.
OneMoment ==
    \A g \in DOMAIN manifests : manifests[g].dbs = manifests[g].then

\* What the report of the collector calls the latest generation is there, and
\* is what the source published under that name (collect).
ReportIsTrue ==
    report # NoGen => report \in DOMAIN copies /\ copies[report] = manifests[report]
=============================================================================
