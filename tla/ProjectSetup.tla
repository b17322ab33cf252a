---------------------------- MODULE ProjectSetup ----------------------------
\* Setting up a project in the desktop: the wizard of the window, the
\* authority that commits the operation checkpoint by checkpoint, its journal,
\* and the two guide files of the folder, which the user may edit meanwhile.
\* A checkpoint is its rank: 0 none, 1 prepared, 2 runtime, 3 project,
\* 4 guide, 5 desktop bound.
EXTENDS Integers, FiniteSets

CONSTANTS None,
          MaxEdits,     \* edits of the guide files by the user
          MaxPreviews,  \* previews asked for
          MaxFaults     \* failures of calls and ends of the desktop

VARIABLES run,        \* the wizard
          opening,    \* the wizard as it was when its Open was clicked
          mem,        \* the operation as the authority holds it
          journal,    \* the operation as its journal has it
          job,        \* the commit that is running
          preview,    \* the preview the authority keeps
          files,      \* the guide files of the folder
          wrote,      \* those the operation has written and the user left alone since
          open,       \* the desktop has the project open
          onboarded,  \* how often the first steps were begun
          spent       \* edits, previews and faults so far

setupvars == <<run, opening, mem, journal, job, preview, files, wrote, open, onboarded, spent>>

Guides == 1..2
Absent == [text |-> 0, guide |-> FALSE]
Idle == [phase |-> "idle", choice |-> "skip", token |-> 0, post |-> FALSE, skipOk |-> TRUE,
         resumed |-> FALSE, locked |-> FALSE, cp |-> 0, mode |-> "none"]

SetupInit ==
  /\ run = Idle /\ opening = None
  /\ mem = None /\ journal = None /\ job = None /\ preview = None
  /\ files \in [Guides -> {Absent, [text |-> 1, guide |-> FALSE]}]
  /\ wrote = {} /\ open = FALSE /\ onboarded = 0
  /\ spent = [edits |-> 0, previews |-> 0, faults |-> 0]

Fault == spent.faults < MaxFaults /\ spent' = [spent EXCEPT !.faults = @ + 1]

-----------------------------------------------------------------------------
\* Guide manifests: what a preview saw of each file, and so what installing it
\* would write.

Skip == [choice |-> "skip", token |-> 0, base |-> None]
Output(m, f) == [m.base[f] EXCEPT !.guide = TRUE]

\* The file is still what the preview saw, or already what it would write.
Matches(m, f) == files[f] \in {m.base[f], Output(m, f)}

\* Whether the files still allow the manifest.
Valid(m) == m.choice = "install" => \A f \in Guides : Matches(m, f)

\* Some file the manifest changes holds what the manifest writes.
HasOutput(m) ==
  m.choice = "install" /\ \E f \in Guides : ~m.base[f].guide /\ files[f] = Output(m, f)

\* A stale guide may still be skipped where nothing of it was applied.
StaleSkip(s) ==
  \/ s.kind = "stale" /\ s.cp < 4 /\ s.outcome = IF s.cp = 0 THEN "ready" ELSE "recovery"
  \/ s.kind = "interrupted" /\ s.cp = 0 /\ s.outcome = "ready"

\* The journal refuses to give up or to change a consent.
ConsentKept(old, new) ==
  \/ old.m = None \/ old.m = new.m
  \/ /\ old.m.choice = "install" /\ new.cp = old.cp
     /\ \/ new.m.choice = "install" /\ old.cp < 4
        \/ new.m.choice = "skip" /\ StaleSkip(old)

-----------------------------------------------------------------------------
\* The wizard: what it makes of an event.

Resumed(s, locks) ==
  LET needs == s.m.choice = "install" /\ s.cp < 4
  IN [Idle EXCEPT !.phase = IF needs THEN "guide-stale" ELSE "review",
                  !.choice = s.m.choice, !.post = s.cp >= 3,
                  !.skipOk = s.m.choice = "skip" \/ (needs /\ StaleSkip(s)),
                  !.resumed = TRUE, !.locked = locks, !.cp = s.cp,
                  !.mode = IF locks THEN "durable" ELSE "no-write"]
ResumeUnlocked(s) == Resumed(s, s.outcome = "progress")
Resume(s) == Resumed(s, s.cp # 0 \/ s.outcome \in {"progress", "recovery"})

GuideStale(r, post, skipOk, s) ==
  [r EXCEPT !.phase = "guide-stale", !.token = 0, !.post = post, !.skipOk = skipOk,
            !.cp = s.cp, !.locked = post \/ @]
Recovery(r, cp, durable, resumable) ==
  [r EXCEPT !.phase = "recovery", !.cp = cp, !.locked = durable,
            !.mode = IF ~durable THEN "ambiguous" ELSE IF resumable THEN "durable" ELSE "blocked"]
Failed(r, cp) ==
  [r EXCEPT !.phase = "failed", !.cp = cp, !.locked = FALSE, !.mode = "no-write"]
Uncertain(r) == [r EXCEPT !.phase = "uncertain"]

\* A guide failure, told by a call or by the status, at the checkpoint of the
\* status: partial and stale guides are reviewed, before or after the commit.
Reviewable(kind, s) ==
  \/ kind \in {"stale", "partial"} /\ s.cp = 3 /\ s.outcome = "recovery"
  \/ kind = "stale" /\ s.cp = 0 /\ s.outcome = "ready"
Reviewed(r, kind, s) == GuideStale(r, s.cp = 3, kind = "stale", s)

\* Whether a status makes sense at all: the wizard refuses what does not.
Legal(s) ==
  CASE s.cp = 0 -> s.outcome \in {"ready", "progress"}
    [] s.cp = 5 -> s.outcome = "complete"
    [] OTHER -> s.outcome \in {"progress", "recovery"}

\* The status as the wizard applies it; complete ones are handled apart.
Applied(r, s) ==
  IF s.kind \in {"stale", "partial"}
    THEN IF Reviewable(s.kind, s) THEN Reviewed(r, s.kind, s) ELSE Uncertain(r)
    ELSE IF s.outcome = "ready" THEN Failed(r, s.cp) ELSE Recovery(r, s.cp, TRUE, TRUE)
Reconciled(r, error, s) ==
  IF r.phase = "idle" THEN r
  ELSE IF ~Legal(s) THEN Uncertain(r)
  ELSE IF Reviewable(error, s) THEN Reviewed(r, error, s) ELSE Applied(r, s)

-----------------------------------------------------------------------------
\* Choosing a folder, and what the authority says of it.

\* A folder that is new gets an operation, unless one is readied already.
Readied ==
  IF mem # None THEN mem
  ELSE [cp |-> 0, outcome |-> "ready", kind |-> "", m |-> None]
Classified(r) ==
  IF mem # None /\ mem.outcome = "complete" THEN [r EXCEPT !.phase = "existing"]
  ELSE IF Readied.m # None THEN Resume(Readied) ELSE [r EXCEPT !.phase = "goal"]

Choose ==
  LET from == IF run.phase = "idle" THEN Idle ELSE run IN
  /\ \/ run.phase \in {"idle", "existing", "target-new", "failed"} /\ ~open
     \/ run.phase = "recovery" /\ run.mode \in {"blocked", "ambiguous"}
  /\ \/ run' = Classified(from) /\ mem' = Readied /\ UNCHANGED spent
     \/ Fault /\ run' \in {Recovery(from, from.cp, FALSE, TRUE), Failed(from, from.cp)}
        /\ UNCHANGED mem
  /\ UNCHANGED <<opening, journal, job, preview, files, wrote, open, onboarded>>

\* The steps that change the wizard alone.
Leavable(r) ==
  /\ ~r.locked /\ r.mode # "durable"
  /\ r.phase \in {"existing", "target-new", "goal", "guide", "guide-stale", "review"}
Leaves(r) ==
  \/ Leavable(r)
  \/ r.phase = "failed"
  \/ r.phase = "recovery" /\ r.mode \in {"blocked", "ambiguous"}
Back(r) ==
  CASE r.resumed -> Idle
    [] r.phase = "goal" -> [r EXCEPT !.phase = "target-new"]
    [] r.phase = "review" -> [r EXCEPT !.phase = "guide"]
    [] OTHER -> [r EXCEPT !.phase = "goal"]
Click(r) ==
  {s \in {IF Leaves(r) THEN Idle ELSE r,
          IF r.phase \in {"goal", "guide", "guide-stale", "review"} /\ ~r.locked THEN Back(r) ELSE r,
          IF r.phase = "target-new" THEN [r EXCEPT !.phase = "goal"] ELSE r,
          IF r.phase = "goal"
            THEN [r EXCEPT !.phase = "guide", !.choice = "skip", !.token = 0,
                           !.post = FALSE, !.skipOk = TRUE] ELSE r,
          IF r.phase \in {"guide", "guide-stale"} /\ r.skipOk
            THEN [r EXCEPT !.phase = "review", !.choice = "skip", !.token = 0] ELSE r,
          IF r.phase = "guide" /\ r.token # 0
            THEN [r EXCEPT !.phase = "review", !.choice = "install"] ELSE r} : s # r}
Wizard ==
  /\ run' \in Click(run)
  /\ UNCHANGED <<opening, mem, journal, job, preview, files, wrote, open, onboarded, spent>>

\* A preview reads both files and replaces the operation's earlier one.
Preview ==
  LET shown == [run EXCEPT !.phase = "guide", !.choice = IF run.skipOk THEN "skip" ELSE @] IN
  /\ run.phase \in {"guide", "guide-stale"}
  /\ \/ /\ spent.previews < MaxPreviews /\ mem # None /\ mem.outcome # "complete"
        /\ preview' = [token |-> spent.previews + 1, base |-> files]
        /\ spent' = [spent EXCEPT !.previews = @ + 1]
        /\ run' = [shown EXCEPT !.token = spent.previews + 1]
     \/ Fault /\ run' = [shown EXCEPT !.token = 0] /\ UNCHANGED preview
  /\ UNCHANGED <<opening, mem, journal, job, files, wrote, open, onboarded>>

-----------------------------------------------------------------------------
\* The commit of the operation.

At(step) == job # None /\ job.pc = step
Held == UNCHANGED <<opening, preview, files, wrote, open, onboarded>>

\* The call has failed: the wizard reads the status, where it can.
Ends(error, s) ==
  /\ job' = None
  /\ \/ run' = Reconciled(run, error, s) /\ UNCHANGED spent
     \/ Fault /\ run.phase # "idle" /\ run' = Uncertain(run)

\* Where the commit stopped is recorded under the consent the journal has.
Stopped(s) == IF journal = None THEN s ELSE [s EXCEPT !.m = journal.m]
Fails(kind, from) ==
  LET s == Stopped([from EXCEPT !.outcome = IF from.cp = 0 THEN "ready" ELSE "recovery",
                                !.kind = kind])
  IN /\ mem' = s /\ journal' = IF journal = None THEN None ELSE s
     /\ Ends(kind, s)

\* The request of a reviewed wizard.
Commit ==
  /\ run.phase = "review" /\ job = None
  /\ IF run.choice = "skip" THEN run.skipOk ELSE run.token # 0 \/ (run.post /\ run.cp = 4)
  /\ job' = [pc |-> "bind", choice |-> run.choice, token |-> run.token]
  /\ run' = [run EXCEPT !.phase = "committing", !.locked = TRUE, !.mode = "durable"]
  /\ UNCHANGED <<opening, mem, journal, preview, files, wrote, open, onboarded, spent>>

\* The manifests a request may be bound to: the one bound before, a skip, or
\* the preview it names.
Taken == IF preview # None /\ preview.token = job.token
           THEN {[choice |-> "install", token |-> job.token, base |-> preview.base]} ELSE {}
Bindable ==
  CASE mem.cp = 4 -> {mem.m}
    [] mem.m = None /\ job.choice = "skip" -> {Skip}
    [] mem.m # None /\ mem.m.choice = job.choice /\ mem.m.token = job.token -> {mem.m}
    [] mem.m # None /\ mem.m.choice = "skip" -> {}
    [] job.choice = "skip" -> IF StaleSkip(mem) THEN {Skip} ELSE {}
    [] OTHER -> Taken
PartSkipped ==
  /\ mem.m # None /\ mem.m.choice = "install" /\ job.choice = "skip"
  /\ mem.cp = 3 /\ StaleSkip(mem) /\ HasOutput(mem.m)
Consumed(m) == IF m.choice = "install" /\ m # mem.m THEN None ELSE preview

Told(kind) ==
  [mem EXCEPT !.outcome = IF mem.cp = 0 THEN "ready" ELSE "recovery", !.kind = kind]

Bind ==
  /\ At("bind")
  /\ \/ open /\ Ends("failed", mem) /\ UNCHANGED <<mem, journal, preview>>
     \/ /\ ~open /\ PartSkipped
        /\ mem' = Told("partial") /\ journal' = Told("partial")
        /\ Ends("partial", Told("partial")) /\ UNCHANGED preview
     \/ /\ ~open /\ ~PartSkipped /\ Bindable = {}
        /\ Ends("stale", mem) /\ UNCHANGED <<mem, journal, preview>>
     \/ \E m \in Bindable :
        /\ ~open /\ ~PartSkipped /\ preview' = Consumed(m)
        /\ IF mem.cp = 4 \/ Valid(m)
             THEN /\ mem' = [mem EXCEPT !.m = m, !.outcome = "progress", !.kind = ""]
                  /\ job' = [job EXCEPT !.pc = "lock"]
                  /\ UNCHANGED <<journal, run, spent>>
             ELSE /\ mem' = Told("stale")
                  /\ journal' = IF journal = None THEN None ELSE Told("stale")
                  /\ Ends("stale", Told("stale"))
  /\ UNCHANGED <<opening, files, wrote, open, onboarded>>

\* Under the exclusive lease the guide is looked at again, and the journal is
\* told that the operation runs.
Lock ==
  /\ At("lock")
  /\ IF mem.cp # 4 /\ ~Valid(mem.m) THEN Fails("stale", mem)
     ELSE IF journal # None /\ ~ConsentKept(journal, mem) THEN Fails("failed", mem)
     ELSE /\ journal' = mem
          /\ job' = [job EXCEPT !.pc = CASE mem.cp = 4 -> "bound" [] mem.cp = 3 -> "check"
                                         [] OTHER -> "store"]
          /\ UNCHANGED <<mem, run, spent>>
  /\ Held

\* The checkpoints of the storage, one after another.
Store ==
  LET next == [mem EXCEPT !.cp = @ + 1] IN
  /\ At("store")
  /\ mem' = next /\ journal' = next
  /\ job' = [job EXCEPT !.pc = IF next.cp = 3 THEN "check" ELSE "store"]
  /\ UNCHANGED <<run, spent>> /\ Held
StoreFails ==
  /\ At("store") /\ spent.faults < MaxFaults
  /\ LET s == [mem EXCEPT !.outcome = IF mem.cp = 0 THEN "ready" ELSE "recovery", !.kind = "failed"]
     IN /\ mem' = s /\ journal' = s
        /\ job' = None /\ run' = Reconciled(run, "failed", s)
  /\ spent' = [spent EXCEPT !.faults = @ + 1]
  /\ Held

\* Applying the guide: every file is looked at before the first is written.
GuideFails == Fails(IF HasOutput(mem.m) THEN "partial" ELSE "stale", mem)
Check ==
  /\ At("check")
  /\ IF Valid(mem.m)
       THEN /\ job' = [job EXCEPT !.pc = IF mem.m.choice = "skip" THEN "record" ELSE "first"]
            /\ UNCHANGED <<mem, journal, run, spent>>
       ELSE GuideFails
  /\ Held
Write(f, step, next) ==
  /\ At(step)
  /\ IF Matches(mem.m, f)
       THEN /\ files' = [files EXCEPT ![f] = Output(mem.m, f)]
            /\ wrote' = IF files[f] = Output(mem.m, f) THEN wrote ELSE wrote \cup {f}
            /\ job' = [job EXCEPT !.pc = next]
            /\ UNCHANGED <<mem, journal, run, spent>>
       ELSE GuideFails /\ UNCHANGED <<files, wrote>>
  /\ UNCHANGED <<opening, preview, open, onboarded>>
Record ==
  LET next == [mem EXCEPT !.cp = 4] IN
  /\ At("record")
  /\ mem' = next /\ journal' = next /\ job' = [job EXCEPT !.pc = "bound"]
  /\ UNCHANGED <<run, spent>> /\ Held

\* The window is handed over once.
HandedOver == run' = Idle /\ onboarded' = onboarded + 1

\* The project is opened and the journal completed, or the opening fails.
Bound ==
  /\ At("bound")
  /\ \/ /\ mem' = [mem EXCEPT !.cp = 5, !.outcome = "complete", !.kind = ""]
        /\ journal' = mem' /\ open' = TRUE /\ job' = None
        /\ (IF run.phase = "idle" THEN UNCHANGED <<run, onboarded>> ELSE HandedOver)
        /\ UNCHANGED spent
     \/ /\ spent.faults < MaxFaults
        /\ spent' = [spent EXCEPT !.faults = @ + 1] /\ job' = None
        /\ run' = Reconciled(run, "failed", mem)
        /\ UNCHANGED <<mem, journal, open, onboarded>>
  /\ UNCHANGED <<opening, preview, files, wrote>>

-----------------------------------------------------------------------------
\* Recovering.

\* A status that may be read again: it is applied, or still unreadable.
Status ==
  /\ run.phase = "uncertain" /\ job = None
  /\ IF mem.outcome = "complete"
       THEN open' = TRUE /\ HandedOver
       ELSE run' = Reconciled(run, "", mem) /\ run' # run /\ UNCHANGED <<open, onboarded>>
  /\ UNCHANGED <<opening, mem, journal, job, preview, files, wrote, spent>>

\* Resume Setup asks, and goes by what the authority then says; only the
\* status is dropped when the wizard has moved on.
Ask ==
  /\ run.phase = "recovery" /\ run.mode = "durable"
  /\ run' = [run EXCEPT !.phase = "reconciling"]
  /\ UNCHANGED <<opening, mem, journal, job, preview, files, wrote, open, onboarded, spent>>
Answer ==
  /\ run.phase = "reconciling" /\ job = None
  /\ \/ /\ mem.outcome = "complete"
        /\ open' = TRUE /\ HandedOver /\ UNCHANGED spent
     \/ /\ mem.outcome # "complete"
        /\ run' = IF mem.kind \in {"stale", "partial"} THEN Applied(run, mem) ELSE Resume(mem)
        /\ UNCHANGED <<open, onboarded, spent>>
     \/ /\ Fault /\ run' \in {Uncertain(run), Recovery(run, run.cp, TRUE, FALSE)}
        /\ UNCHANGED <<open, onboarded>>
  /\ UNCHANGED <<opening, mem, journal, job, preview, files, wrote>>

\* Opening the preserved project as it is, beside whatever the wizard does.
CanOpen(r) ==
  r.locked /\ r.phase \in {"recovery", "guide", "guide-stale", "review"} /\ r.cp >= 3
Open ==
  /\ opening = None /\ CanOpen(run) /\ opening' = run
  /\ UNCHANGED <<run, mem, journal, job, preview, files, wrote, open, onboarded, spent>>
Opened ==
  /\ opening # None /\ (job = None \/ At("bind"))
  /\ opening' = None
  /\ \/ /\ open' = TRUE /\ run' = Idle
        /\ onboarded' = IF opening.cp = 5 THEN onboarded + 1 ELSE onboarded
        /\ UNCHANGED spent
     \/ Fault /\ ~open /\ run' = opening /\ UNCHANGED <<open, onboarded>>
  /\ UNCHANGED <<mem, journal, job, preview, files, wrote>>

\* The desktop ends and is started again: the journal is settled, and an
\* operation with a checkpoint is put before the user.
Settled(j) ==
  IF j # None /\ j.cp = 0 /\ j.outcome = "progress"
    THEN [j EXCEPT !.outcome = "ready", !.kind = "interrupted"] ELSE j
Restart ==
  /\ Fault
  /\ mem' = Settled(journal) /\ journal' = Settled(journal)
  /\ run' \in IF journal = None \/ journal.cp \in {0, 5} THEN {Idle}
              ELSE {Resume(journal), Recovery(Idle, journal.cp, TRUE, FALSE)}
  /\ opening' = None /\ job' = None /\ preview' = None /\ open' = FALSE
  /\ UNCHANGED <<files, wrote, onboarded>>

\* The user's own edits of a guide file keep or drop the guide.
Edit(f) ==
  /\ spent.edits < MaxEdits /\ ~open
  /\ \E kept \in BOOLEAN :
       files' = [files EXCEPT ![f] = [text |-> @.text + 1, guide |-> @.guide /\ kept]]
  /\ wrote' = wrote \ {f}
  /\ spent' = [spent EXCEPT !.edits = @ + 1]
  /\ UNCHANGED <<run, opening, mem, journal, job, preview, open, onboarded>>

SetupNext ==
  \/ Choose \/ Wizard \/ Preview \/ Commit
  \/ Bind \/ Lock \/ Store \/ StoreFails \/ Check
  \/ Write(1, "first", "second") \/ Write(2, "second", "record")
  \/ Record \/ Bound \/ Status \/ Ask \/ Answer \/ Open \/ Opened \/ Restart
  \/ \E f \in Guides : Edit(f)

SetupSpec == SetupInit /\ [][SetupNext]_setupvars

-----------------------------------------------------------------------------
\* The user may leave the steps of the wizard only while nothing of the
\* operation is in the journal with a checkpoint (cancelFirstRunSetup and
\* "back" go by resumeLocked and recoveryMode alone).
LeavesNothing ==
  Leavable(run) /\ run.phase # "existing" => journal = None \/ journal.cp = 0

\* The wizard never goes on from a checkpoint that is not durable.
ShownIsDurable ==
  run.phase \in {"guide-stale", "review", "recovery"} /\ run.mode = "durable" /\ job = None
    => run.cp = 0 \/ (journal # None /\ run.cp <= journal.cp)

\* The first steps are begun once for a project (completeInitialization and
\* openProjectFromRecovery both begin them).
BegunOnce == onboarded <= 1

\* All of them: leaving the wizard loses nothing, it promises nothing that a
\* restart would take back, and the first steps begin once.
SetupSafe == LeavesNothing /\ ShownIsDurable /\ BegunOnce

\* What the user wrote in a guide file is never overwritten: the manifest's
\* base is looked at again before every write.
TextStays == \A f \in Guides : files'[f].text >= files[f].text
TextKept == [][TextStays]_setupvars

\* "Partially applied project guidance cannot be skipped.": an operation that
\* ends with its guide skipped has written no guide file.
PartialNotSkipped == journal # None /\ journal.m # None /\ journal.m.choice = "skip" => wrote = {}
=============================================================================
