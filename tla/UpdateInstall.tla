--------------------------- MODULE UpdateInstall ---------------------------
(***************************************************************************)
(* Replacing the installed binary on Linux, and the recovery of a          *)
(* replacement that was interrupted.                                       *)
(*                                                                         *)
(* `apply' copies the staged payload beside the target, hard-links the     *)
(* target as a backup, writes a journal, renames the copy over the target  *)
(* and runs it (the smoke test).  If it passes, the backup and then the    *)
(* journal are removed; if not, the backup is renamed back first.          *)
(* `recover', run for every stage when the application starts, finishes    *)
(* what a journal says was begun.                                          *)
(*                                                                         *)
(* Files are inodes, numbered in the order they appear.  A process may be  *)
(* killed and a system call may fail at any step, and the power may go:    *)
(* what a directory looks like then is one of its states since it was last *)
(* synced.  The target's directory and the journal's are two directories,  *)
(* so what was done last to one may survive what was done before to the    *)
(* other.                                                                  *)
(***************************************************************************)
EXTENDS Integers, Sequences

CONSTANTS
  Proc,      \* processes that apply or recover
  Staged,     \* the staged payloads
  Good,      \* those that can pass the smoke test
  Foreign,   \* a binary the user installs that is none of them
  Free, NoJournal,
  Faults,    \* what may go wrong: "kill", "io", "power"
  MaxInode,  \* bound on the files that are ever made
  MaxFault   \* bound on how often something goes wrong

ASSUME InstallAssumption ==
  /\ Good \subseteq Staged /\ Foreign \notin Staged /\ Free \notin Proc
  /\ NoJournal \notin [stage : Staged, backup : Nat, orig : Nat]
  /\ Faults \subseteq {"kill", "io", "power"}
  /\ MaxInode \in Nat /\ MaxFault \in Nat

VARIABLES
  file,      \* inode -> what it was copied from
  dir,       \* the target's inode, and the backups: their names -> inodes
  dirs,      \* the states of dir that may be found after a power failure
  journal,   \* NoJournal, or the stage, the backup's name and its inode
  journals,  \* the states of journal that may be found after a power failure
  lock,      \* who holds the lock of the target
  proc,      \* process -> the step it is at
  proven,    \* the inodes that passed a smoke test or that the user installed
  faults,    \* how often something went wrong
  power      \* "on", or "fails": whether it may go in this behaviour

directories == <<file, dir, dirs, journal, journals>>
installvars == <<directories, lock, proc, proven, faults>>

NoRun == [pc |-> "idle"]
Goto(p, pc) == proc' = [proc EXCEPT ![p].pc = pc]

\* Leaves the run, and with it the lock.
End(p) == proc' = [proc EXCEPT ![p] = NoRun] /\ lock' = IF lock = p THEN Free ELSE lock

\* Changes a directory in memory, syncs it.
Put(d) == dir' = d /\ dirs' = dirs \cup {d}
SyncDir == dir' = dir /\ dirs' = {dir}

Unlink(d, b) == [d EXCEPT !.backups = [x \in DOMAIN @ \ {b} |-> @[x]]]
BackupPresent(p) == proc[p].new \in DOMAIN dir.backups

-----------------------------------------------------------------------------
(* Beginning *)

\* The target is resolved before the lock is taken.
BeginRun(p, s, what) ==
  /\ proc[p].pc = "idle"
  /\ proc' = [proc EXCEPT ![p] = [pc |-> what, stage |-> s, orig |-> dir.target, new |-> 0]]
  /\ UNCHANGED <<directories, lock, proven, faults>>

\* Refused when the lock is taken or a journal is pending.
LockApply(p) ==
  /\ proc[p].pc = "apply"
  /\ IF lock = Free /\ journal = NoJournal
     THEN lock' = p /\ Goto(p, "copy")
     ELSE End(p)
  /\ UNCHANGED <<directories, proven, faults>>

\* Over when there is no journal or it is another stage's.
LockRecover(p) ==
  /\ proc[p].pc = "recover"
  /\ IF lock = Free /\ journal # NoJournal /\ journal.stage = proc[p].stage
     THEN /\ lock' = p
          /\ proc' = [proc EXCEPT ![p] = [pc |-> "inspect", stage |-> journal.stage,
                                          orig |-> journal.orig, new |-> journal.backup]]
     ELSE End(p)
  /\ UNCHANGED <<directories, proven, faults>>

-----------------------------------------------------------------------------
(* Applying *)

\* The verified copy gets the mode of the target and is synced; it may be
\* canceled.
Copy(p) ==
  /\ proc[p].pc = "copy"
  /\ \/ /\ Len(file) < MaxInode
        /\ file' = Append(file, proc[p].stage)
        /\ proc' = [proc EXCEPT ![p].pc = "link", ![p].new = Len(file) + 1]
        /\ UNCHANGED lock
     \/ End(p) /\ UNCHANGED file
  /\ UNCHANGED <<dir, dirs, journal, journals, proven, faults>>

\* The backup is a hard link to the target, if that is still the file it was.
\* Backups have random names; here the name is the inode of the copy.
Link(p) ==
  /\ proc[p].pc = "link"
  /\ IF dir.target = proc[p].orig
     THEN /\ Put([dir EXCEPT !.backups = [x \in DOMAIN @ \cup {proc[p].new} |->
                    IF x = proc[p].new THEN dir.target ELSE @[x]]])
          /\ Goto(p, "journal") /\ UNCHANGED lock
     ELSE End(p) /\ UNCHANGED <<dir, dirs>>
  /\ UNCHANGED <<file, journal, journals, proven, faults>>

JournalOf(p) == [stage |-> proc[p].stage, backup |-> proc[p].new, orig |-> proc[p].orig]

WriteJournal(p) ==
  /\ proc[p].pc = "journal"
  /\ journal' = JournalOf(p) /\ journals' = {journal'}
  /\ Goto(p, "rename")
  /\ UNCHANGED <<file, dir, dirs, lock, proven, faults>>

Rename(p) ==
  /\ proc[p].pc = "rename"
  /\ Put([dir EXCEPT !.target = proc[p].new])
  /\ Goto(p, "sync")
  /\ UNCHANGED <<file, journal, journals, lock, proven, faults>>

Sync(p) ==
  /\ proc[p].pc = "sync"
  /\ SyncDir
  /\ Goto(p, "smoke")
  /\ UNCHANGED <<file, journal, journals, lock, proven, faults>>

\* Runs what is installed, which has to answer with the version of the stage;
\* it may also fail, time out or, in `apply', be canceled.
Smoke(p) ==
  /\ proc[p].pc = "smoke"
  /\ \/ /\ file[dir.target] = proc[p].stage /\ proc[p].stage \in Good
        /\ proven' = proven \cup {dir.target}
        /\ Goto(p, "clean")
     \/ UNCHANGED proven /\ Goto(p, "rollback")
  /\ UNCHANGED <<directories, lock, faults>>

Rollback(p) ==
  /\ proc[p].pc = "rollback" /\ BackupPresent(p)
  /\ Put(Unlink([dir EXCEPT !.target = dir.backups[proc[p].new]], proc[p].new))
  /\ Goto(p, "rollsync")
  /\ UNCHANGED <<file, journal, journals, lock, proven, faults>>

RollbackSync(p) ==
  /\ proc[p].pc = "rollsync"
  /\ SyncDir
  /\ Goto(p, "drop")
  /\ UNCHANGED <<file, journal, journals, lock, proven, faults>>

Clean(p) ==
  /\ proc[p].pc = "clean"
  /\ Put(Unlink(dir, proc[p].new))
  /\ Goto(p, "cleansync")
  /\ UNCHANGED <<file, journal, journals, lock, proven, faults>>

CleanSync(p) ==
  /\ proc[p].pc = "cleansync"
  /\ SyncDir
  /\ Goto(p, "drop")
  /\ UNCHANGED <<file, journal, journals, lock, proven, faults>>

DropJournal(p) ==
  /\ proc[p].pc = "drop"
  /\ journal' = NoJournal /\ journals' = {NoJournal}
  /\ End(p)
  /\ UNCHANGED <<file, dir, dirs, proven, faults>>

-----------------------------------------------------------------------------
(* Recovering *)

\* Faulty variant: finds the payload installed and keeps it.
InspectTrusting(p) ==
  /\ proc[p].pc = "inspect"
  /\ IF dir.target # proc[p].orig /\ file[dir.target] # proc[p].stage
     THEN End(p)
     ELSE Goto(p, IF BackupPresent(p) THEN "clean" ELSE "drop") /\ UNCHANGED lock
  /\ UNCHANGED <<directories, proven, faults>>
\* Faulty variant: does not go on without the backup.
InspectNeedsBackup(p) ==
  /\ proc[p].pc = "inspect"
  /\ IF ~BackupPresent(p) \/ (dir.target # proc[p].orig /\ file[dir.target] # proc[p].stage)
     THEN End(p)
     ELSE /\ Goto(p, IF dir.target = proc[p].orig THEN "clean" ELSE "smoke")
          /\ UNCHANGED lock
  /\ UNCHANGED <<directories, proven, faults>>
\* With the original installed the backup is not needed; with the payload it is
\* tested again as long as there is a backup to go back to; anything else needs
\* the user.
Inspect(p) ==
  /\ proc[p].pc = "inspect"
  /\ IF dir.target # proc[p].orig /\ file[dir.target] # proc[p].stage
     THEN End(p)
     ELSE /\ Goto(p, IF ~BackupPresent(p) THEN "drop"
                     ELSE IF dir.target = proc[p].orig THEN "clean" ELSE "smoke")
          /\ UNCHANGED lock
  /\ UNCHANGED <<directories, proven, faults>>

-----------------------------------------------------------------------------
(* What goes wrong *)

Fault(kind) == kind \in Faults /\ faults < MaxFault /\ faults' = faults + 1

Keeping(p) == dir' = dir /\ dirs' = dirs
BestEffort(p) == Keeping(p) \/ Put(Unlink(dir, proc[p].new))
SameJournal == journal' = journal /\ journals' = journals

\* A system call fails.  A journal that was renamed into place may have missed
\* only its sync; the backup and the journal are then removed as far as that
\* goes.  A replacement that cannot be synced is rolled back.
Fail(p) ==
  /\ Fault("io")
  /\ \/ proc[p].pc \in {"copy", "link", "rollback", "rollsync", "clean", "cleansync"}
        /\ Keeping(p) /\ SameJournal /\ End(p)
     \/ /\ proc[p].pc = "journal"
        /\ \/ SameJournal
           \/ journal' = JournalOf(p) /\ journals' = journals \cup {journal'}
        /\ BestEffort(p) /\ End(p)
     \/ proc[p].pc = "rename" /\ BestEffort(p) /\ SameJournal /\ Goto(p, "drop") /\ UNCHANGED lock
     \/ proc[p].pc = "sync" /\ Keeping(p) /\ SameJournal /\ Goto(p, "rollback") /\ UNCHANGED lock
     \/ /\ proc[p].pc = "drop"
        /\ \/ SameJournal
           \/ journal' = NoJournal /\ journals' = journals \cup {NoJournal}
        /\ Keeping(p) /\ End(p)
  /\ UNCHANGED <<file, proven>>

\* The process is killed: the system takes its lock back.
Kill(p) ==
  /\ Fault("kill") /\ proc[p].pc # "idle"
  /\ End(p)
  /\ UNCHANGED <<directories, proven>>

PowerFailure ==
  /\ Fault("power")
  /\ \E d \in dirs, j \in journals :
       dir' = d /\ dirs' = {d} /\ journal' = j /\ journals' = {j}
  /\ proc' = [p \in Proc |-> NoRun] /\ lock' = Free
  /\ UNCHANGED <<file, proven>>

\* The user installs a binary over the target: another one, or the same release
\* from its package.
Install(s) ==
  /\ Len(file) < MaxInode
  /\ file' = Append(file, s) /\ proven' = proven \cup {Len(file) + 1}
  /\ Put([dir EXCEPT !.target = Len(file) + 1])
  /\ UNCHANGED <<journal, journals, lock, proc, faults>>

-----------------------------------------------------------------------------
InstallInit ==
  /\ file = <<Foreign>> /\ proven = {1}
  /\ dir = [target |-> 1, backups |-> <<>>] /\ dirs = {dir}
  /\ journal = NoJournal /\ journals = {NoJournal}
  /\ lock = Free /\ proc = [p \in Proc |-> NoRun]
  /\ faults = 0 /\ power \in {"on", "fails"}

RunStep(p) ==
  \/ LockApply(p) \/ LockRecover(p) \/ Copy(p) \/ Link(p) \/ WriteJournal(p)
  \/ Rename(p) \/ Sync(p) \/ Smoke(p) \/ Rollback(p) \/ RollbackSync(p)
  \/ Clean(p) \/ CleanSync(p) \/ DropJournal(p) \/ Inspect(p)

\* Whatever happens while the power is on.
Powered ==
  \/ \E p \in Proc : \/ \E s \in Staged, what \in {"apply", "recover"} : BeginRun(p, s, what)
                     \/ RunStep(p) \/ Fail(p) \/ Kill(p)
  \/ \E s \in Staged \cup {Foreign} : Install(s)

InstallNext == UNCHANGED power /\ (Powered \/ (power = "fails" /\ PowerFailure))

InstallSpec == InstallInit /\ [][InstallNext]_<<installvars, power>>

\* A run goes on, and the application is started again and again, each time
\* with a recovery of every stage.
FairRun(p) == WF_installvars(RunStep(p)) /\ \A s \in Staged : SF_installvars(BeginRun(p, s, "recover"))

FairInstall == InstallSpec /\ \A p \in Proc : FairRun(p)

-----------------------------------------------------------------------------
(* Properties *)

Unproven(i) == file[i] # Foreign /\ i \notin proven

\* The process with the lock is at a step of a run and nobody else is past the
\* lock; names and inodes are files that exist; what is in memory may be found
\* after a power failure.
TypeOK ==
  /\ file \in Seq(Staged \cup {Foreign}) /\ proven \subseteq DOMAIN file
  /\ \A d \in dirs : {d.target} \cup {d.backups[b] : b \in DOMAIN d.backups} \subseteq DOMAIN file
  /\ dir \in dirs /\ journal \in journals
  /\ \A p \in Proc : lock = p <=> proc[p].pc \notin {"idle", "apply", "recover"}

\* While the installed binary has not passed a smoke test, a journal says so and
\* names the backup, and the backup is the binary that was installed before.
Restorable ==
  Unproven(dir.target) =>
    /\ journal # NoJournal /\ journal.stage = file[dir.target]
    /\ journal.backup \in DOMAIN dir.backups
    /\ dir.backups[journal.backup] = journal.orig

\* "Recovery repeats the smoke test and rolls back to the backup when it fails,
\* instead of keeping an unproven binary" (crates/ptrack-updater/src/installer.rs:698):
\* no unproven binary stays installed without a journal to recover from.
KeptIsProven == journal = NoJournal => ~Unproven(dir.target)

\* Whatever fails, a binary that has not passed a smoke test has one beside it
\* that has, or that the user had installed.
BackupBeside ==
  Unproven(dir.target) => \E b \in DOMAIN dir.backups : dir.backups[b] \in proven

\* What a run can put back, as long as the power is on (Restorable), and what
\* there is to put back even after it went (BackupBeside).
BackupKept == BackupBeside /\ (power = "on" => Restorable)

\* A journal is resolved sooner or later, unless the user has installed a binary
\* that is neither the one before nor the payload.
PendingResolved ==
  journal # NoJournal ~>
    \/ journal = NoJournal
    \/ dir.target # journal.orig /\ file[dir.target] # journal.stage
=============================================================================
