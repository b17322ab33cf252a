---------------------------- MODULE UpdateProofs ----------------------------
(***************************************************************************)
(* The update service is safe for any number of calls, versions, starts    *)
(* and operations: UpdatesSafe is proved of every behaviour.  And so is    *)
(* the replacement of the binary, for any number of processes, files and   *)
(* failures: BackupKept.                                                   *)
(*                                                                         *)
(* What makes the service inductive is Single: at most one thread is at    *)
(* work, and while one is, the service is active with that thread's        *)
(* operation.  So an operation that ends always settles its own, and the   *)
(* candidate does not change under a download.                             *)
(*                                                                         *)
(* What makes the replacement inductive is Stocked, of every state of the  *)
(* directory that a power failure may bring back: runs and journals only   *)
(* remove the backups they name, and whenever one of these is not proven   *)
(* (a run began on what a power failure left), something proven lies       *)
(* under a name that no run and no journal knows.                          *)
(***************************************************************************)
EXTENDS UpdateRuntime, UpdateInstall, WellFoundedInduction, TLAPS

(* The update service *)

Step == {"idle", "auto", "ask", "begin", "run", "staging", "unsaved", "optin", "optout"}
Work == {"none", "check", "download", "apply"}
Phase == Work \cup {"down", "idle", "current", "available", "ready", "installed",
                   "canceling", "recovery", "error"}
Service ==
  [up : BOOLEAN, phase : Phase, current : Nat, auto : BOOLEAN, candidate : Nat,
   stage : Nat, active : BOOLEAN, automatic : BOOLEAN, operation : Nat, token : BOOLEAN,
   blocked : BOOLEAN, down : BOOLEAN]
Thread == [pc : Step, what : Work, v : Nat, op : Nat, cut : BOOLEAN]

\* The types of the state.
Typed ==
  /\ svc \in Service /\ th \in [Threads -> Thread]
  /\ stopping \in {"no", "waiting", "stopped"}
  /\ preference \in BOOLEAN /\ installed \in Nat /\ pending \in Nat

AtWork(t) == th[t].pc \in {"run", "staging"}

\* One thread works at a time, on the operation that the service has active.
Single ==
  \A t \in Threads : AtWork(t) =>
    /\ svc.active /\ th[t].op = svc.operation
    /\ \A u \in Threads : AtWork(u) => u = t

\* A shutdown that waits or has ended lets no operation begin.
Fenced == stopping # "no" => svc.down

Inv == Typed /\ Single /\ Fenced /\ UpdatesSafe
-----------------------------------------------------------------------------
LEMMA InitInv == Init => Inv
<1> SUFFICES ASSUME Init PROVE Inv OBVIOUS
<1> USE UpdateAssumption DEF Init, Idle
<1>1. Typed BY DEF Typed, Service, Phase, Thread, Step, Work, Down
<1>2. Single /\ Fenced BY DEF Single, Fenced, AtWork
<1>3. UpdatesSafe BY DEF Down, UpdatesSafe, NeverStuck, AutomaticStops, DownloadsCandidate
<1>4. QED BY <1>1, <1>2, <1>3 DEF Inv

\* A set of naturals with an upper bound has a greatest member.
LEMMA Greatest ==
  ASSUME NEW S \in SUBSET Nat, S # {}, NEW m \in Nat, \A v \in S : v <= m
  PROVE  \E v \in S : \A w \in S : w <= v
<1> DEFINE T == {m - v : v \in S}
<1>0. \A v \in S : v \in Nat /\ m - v \in Nat OBVIOUS
<1>1. T \subseteq Nat /\ T # {} BY <1>0
<1>2. PICK x \in T : \A y \in T : ~ (<<y, x>> \in OpToRel(<, Nat))
  BY <1>1, WFMin, NatLessThanWellFounded
<1>3. PICK v \in S : x = m - v OBVIOUS
<1>4. ASSUME NEW w \in S PROVE w <= v
  <2>1. m - w \in T OBVIOUS
  <2>2. ~ (m - w < m - v) BY <1>0, <1>1, <1>2, <1>3, <2>1 DEF OpToRel
  <2>3. QED BY <1>0, <2>2
<1>5. QED BY <1>4

\* The best stage that a start finds is a version.
LEMMA BestIsVersion == ASSUME NEW found, installed \in Nat PROVE Best(found) \in Nat
<1> DEFINE newer == {s.v : s \in found} \cap (installed + 1)..MaxVersion
<1>1. CASE newer = {} BY <1>1 DEF Best
<1>2. CASE newer # {}
  <2>1. newer \subseteq Nat /\ \A v \in newer : v <= MaxVersion BY UpdateAssumption
  <2>2. \E v \in newer : \A w \in newer : w <= v BY <1>2, <2>1, Greatest, UpdateAssumption
  <2>3. Best(found) = CHOOSE v \in newer : \A w \in newer : w <= v BY <1>2 DEF Best
  <2> HIDE DEF newer
  <2>4. QED BY <2>1, <2>2, <2>3
<1>3. QED BY <1>1, <1>2

-----------------------------------------------------------------------------
LEMMA Defaults == Down \in Service /\ Idle \in Thread
BY DEF Down, Idle, Service, Thread, Phase, Step, Work

LEMMA StartTyped == ASSUME Typed, Start PROVE Typed'
<1> USE UpdateAssumption DEF Typed
<1>1. PICK auto \in {preference, FALSE} : Scan(auto) BY DEF Start
<1>2. pending' \in Nat /\ installed' \in Nat
  <2>1. Recovered(pending) \/ UNCHANGED <<pending, installed>> BY <1>1 DEF Scan
  <2>2. QED BY <2>1 DEF Recovered
<1>3. svc' \in Service
  <2>1. auto \in BOOLEAN OBVIOUS
  <2>2. \A best \in Nat, blocked \in BOOLEAN : Started(auto, best, blocked) \in Service
    BY ZenonT(60), <2>1, Defaults DEF Started, Service, Phase
  <2>3. Best(Loaded) \in Nat BY BestIsVersion
  <2>4. \/ svc' = Started(auto, 0, TRUE)
        \/ svc' = Started(auto, 0, pending' # 0)
        \/ svc' = Started(auto, Best(Loaded), pending' # 0)
    BY <1>1 DEF Scan
  <2>5. QED BY <2>2, <2>3, <2>4
<1>4. th' \in [Threads -> Thread]
  <2>1. [Idle EXCEPT !.pc = "auto"] \in Thread BY Defaults DEF Thread, Step
  <2>2. QED BY <2>1, Defaults DEF Start
<1>5. QED BY <1>2, <1>3, <1>4 DEF Start

LEMMA CallTyped == ASSUME Typed, NEW t \in Calls, Call(t) PROVE Typed'
<1> USE UpdateAssumption DEF Typed, disk, Threads
<1>1. \A what \in Work, v \in Nat :
        [[[Idle EXCEPT !.pc = "begin"] EXCEPT !.what = what] EXCEPT !.v = v] \in Thread
  BY Defaults DEF Thread, Step
<1>2. \A what \in Work, v \in Nat : Asked(t, what, v) => th' \in [Threads -> Thread]
  BY <1>1 DEF Asked, Threads
<1>3. Done(t) => th' \in [Threads -> Thread] BY Defaults DEF Done
<1>4. \A pc \in Step : [Idle EXCEPT !.pc = pc] \in Thread BY Defaults DEF Thread
<1>5. CASE CheckAsk(t) BY <1>2, <1>5 DEF CheckAsk, Work
<1>6. CASE \E v \in Versions : DownloadAsk(t, v) \/ ApplyAsk(t, v)
  BY <1>2, <1>6 DEF DownloadAsk, ApplyAsk, Versions, Work
<1>7. CASE \E enabled \in BOOLEAN : PreferenceSave(t, enabled)
  BY <1>4, <1>7 DEF PreferenceSave, Step
<1>8. CASE PreferenceUnsaved(t) BY <1>3, <1>8 DEF PreferenceUnsaved
<1>9. CASE OptIn(t) BY <1>3, <1>9 DEF OptIn, Service
<1>10. CASE OptOut(t)
  <2>1. svc' \in Service BY <1>10 DEF OptOut, Service, Phase
  <2>2. \A u \in Threads : [th[u] EXCEPT !.cut = TRUE] \in Thread BY DEF Thread
  <2>3. th' \in [Threads -> Thread] BY <1>10, <2>2, Defaults DEF OptOut
  <2>4. QED BY <1>10, <2>1, <2>3 DEF OptOut
<1>11. QED BY <1>5, <1>6, <1>7, <1>8, <1>9, <1>10 DEF Call

\* What an operation that ends leaves of the service.
Same(s, r) == s.up = r.up /\ s.auto = r.auto /\ s.down = r.down

LEMMA SettledTyped ==
  ASSUME NEW s \in Service, NEW phase \in Phase, NEW v \in Nat
  PROVE  /\ Settled(s) \in Service /\ Restored(s) \in Service
         /\ [s EXCEPT !.phase = phase] \in Service
         /\ [s EXCEPT !.phase = phase, !.candidate = v] \in Service
         /\ [s EXCEPT !.phase = phase, !.stage = v] \in Service
         /\ Same(Restored(s), s) /\ Same([s EXCEPT !.phase = phase], s)
         /\ Same([s EXCEPT !.phase = phase, !.candidate = v], s)
         /\ Same([s EXCEPT !.phase = phase, !.stage = v], s)
BY ZenonT(60) DEF Settled, Same, Restored, Service, Phase

LEMMA EndedTyped ==
  ASSUME Typed, NEW t \in Threads, NEW s \in Service, Ended(t, s)
  PROVE  svc' \in Service /\ th' \in [Threads -> Thread] /\ UNCHANGED <<stopping, preference>>
BY Defaults, SettledTyped DEF Typed, Ended, Done, Phase

\* However an operation ends, the service that is settled is a service.
LEMMA EndsTyped ==
  ASSUME Typed, NEW t \in Threads, CheckEnds(t) \/ DownloadEnds(t) \/ ApplyEnds(t)
  PROVE  \E s \in Service : Ended(t, s) /\ Same(s, svc)
<1> USE DEF Typed, Phase
<1>1. CASE CheckEnds(t)
  <2>1. \A v \in (svc.current + 1)..MaxVersion : v \in Nat BY UpdateAssumption DEF Service
  <2>2. QED BY <1>1, <2>1, SettledTyped DEF CheckEnds
<1>2. CASE DownloadEnds(t) BY <1>2, SettledTyped DEF DownloadEnds, Thread
<1>3. CASE ApplyEnds(t) BY <1>3, SettledTyped DEF ApplyEnds
<1>4. QED BY <1>1, <1>2, <1>3

LEMMA OperationTyped == ASSUME Typed, NEW t \in Threads, Operation(t) PROVE Typed'
<1> USE UpdateAssumption DEF Typed, disk
<1>1. CASE Begin(t)
  <2>1. Active(t) \in Service
    <3>1. th[t].what \in Phase BY DEF Thread, Phase
    <3>2. svc.operation + 1 \in Nat BY DEF Service
    <3>3. \A b \in BOOLEAN, n \in Nat, phase \in Phase :
            [svc EXCEPT !.active = TRUE, !.automatic = b, !.token = TRUE,
                        !.operation = n, !.phase = phase] \in Service
      BY DEF Service
    <3>4. (t = AutoCheck) \in BOOLEAN OBVIOUS
    <3>5. QED BY <3>1, <3>2, <3>3, <3>4, Zenon DEF Active
  <2>2. svc' \in Service BY <1>1, <2>1 DEF Begin
  <2>3. th' \in [Threads -> Thread]
    <3>1. svc'.operation \in Nat BY <2>2 DEF Service
    <3>2. [[th[t] EXCEPT !.pc = "run"] EXCEPT !.op = svc'.operation] \in Thread
      BY <3>1 DEF Thread, Step
    <3>3. QED BY <1>1, <3>2, Defaults DEF Begin, Done
  <2>4. QED BY <1>1, <2>2, <2>3 DEF Begin
<1>2. CASE Stage(t) BY <1>2 DEF Stage, Thread, Step
<1>3. CASE CheckEnds(t) \/ DownloadEnds(t) \/ ApplyEnds(t)
  <2>1. svc' \in Service /\ th' \in [Threads -> Thread] /\ UNCHANGED <<stopping, preference>>
    BY <1>3, EndsTyped, EndedTyped
  <2>2. pending' \in Nat /\ installed' \in Nat
    BY <1>3 DEF CheckEnds, DownloadEnds, ApplyEnds, Thread
  <2>3. QED BY <2>1, <2>2
<1>4. QED BY <1>1, <1>2, <1>3 DEF Operation

LEMMA CutTyped == ASSUME Typed, CutRunning PROVE th' \in [Threads -> Thread]
BY DEF Typed, CutRunning, Thread

LEMMA OtherTyped ==
  ASSUME Typed, \/ AutoLock \/ AutoAsk \/ Cancel \/ ShutdownBegin \/ ShutdownEnds
                \/ ShutdownRefused \/ Exit \/ Elsewhere
  PROVE  Typed'
<1> USE UpdateAssumption DEF Typed, disk, Threads
<1>1. CASE AutoLock BY <1>1 DEF AutoLock, Thread, Step
<1>2. CASE AutoAsk
  <2>1. [[[Idle EXCEPT !.pc = "begin"] EXCEPT !.what = "check"] EXCEPT !.v = 0] \in Thread
    BY Defaults DEF Thread, Step, Work
  <2>2. th' \in [Threads -> Thread] BY <1>2, <2>1, Defaults DEF AutoAsk, Asked, Done
  <2>3. QED BY <1>2, <2>2 DEF AutoAsk
<1>3. CASE Cancel BY <1>3, CutTyped DEF Cancel, Service, Phase
<1>4. CASE ShutdownBegin BY <1>4, CutTyped DEF ShutdownBegin, Service
<1>5. CASE ShutdownEnds BY <1>5 DEF ShutdownEnds
<1>6. CASE ShutdownRefused BY <1>6 DEF ShutdownRefused, Service
<1>7. CASE Exit BY <1>7, Defaults DEF Exit, Thread
<1>8. CASE Elsewhere BY <1>8 DEF Elsewhere
<1>9. QED BY <1>1, <1>2, <1>3, <1>4, <1>5, <1>6, <1>7, <1>8

LEMMA NextTyped == ASSUME Typed, [Next]_vars PROVE Typed'
<1>1. CASE UNCHANGED vars BY <1>1 DEF vars, disk, Typed
<1>2. QED BY <1>1, StartTyped, CallTyped, OperationTyped, OtherTyped DEF Next
-----------------------------------------------------------------------------
(* Which thread is at work *)

Working == Single /\ NeverStuck /\ DownloadsCandidate

\* Nobody begins or ends an operation and the candidate stays.
Calm ==
  /\ \A t \in Threads :
       /\ AtWork(t)' <=> AtWork(t)
       /\ AtWork(t) => /\ th'[t].op = th[t].op /\ th'[t].what = th[t].what
                       /\ th'[t].v = th[t].v
  /\ svc'.active = svc.active /\ svc'.operation = svc.operation
  /\ svc'.candidate = svc.candidate

LEMMA CalmWorking == ASSUME Working, Calm PROVE Working'
<1>1. Single' BY DEF Working, Calm, Single
<1>2. NeverStuck' BY DEF Working, Calm, NeverStuck, AtWork
<1>3. DownloadsCandidate' BY DEF Working, Calm, DownloadsCandidate, AtWork
<1>4. QED BY <1>1, <1>2, <1>3 DEF Working

\* Everything is down, or just started: nobody works.
LEMMA FreshWorking ==
  ASSUME ~svc'.active, \A t \in Threads : ~AtWork(t)' PROVE Working'
BY DEF Working, Single, NeverStuck, DownloadsCandidate, AtWork

LEMMA CallCalm == ASSUME Typed, NEW t \in Calls, Call(t) PROVE Calm
<1> USE DEF Typed, Calm, AtWork, Threads, Thread, Service
<1>1. Idle.pc = "idle" BY DEF Idle
<1>2. \A what, v : Asked(t, what, v) => th'[t].pc = "begin"
  BY Defaults DEF Asked
<1>3. CASE CheckAsk(t) BY <1>2, <1>3 DEF CheckAsk, Asked, Taken
<1>4. CASE \E v \in Versions : DownloadAsk(t, v) \/ ApplyAsk(t, v)
  <2>1. PICK v \in Versions : DownloadAsk(t, v) \/ ApplyAsk(t, v) BY <1>4
  <2>2. CASE DownloadAsk(t, v) BY <1>2, <2>2 DEF DownloadAsk, Asked, Taken
  <2>3. CASE ApplyAsk(t, v) BY <1>2, <2>3 DEF ApplyAsk, Asked, Taken
  <2>4. QED BY <2>1, <2>2, <2>3
<1>5. CASE \E enabled \in BOOLEAN : PreferenceSave(t, enabled)
  BY <1>5, Defaults DEF PreferenceSave, Taken
<1>6. CASE PreferenceUnsaved(t) BY <1>1, <1>6 DEF PreferenceUnsaved, Done
<1>7. CASE OptIn(t) BY <1>1, <1>7 DEF OptIn, Done
<1>8. CASE OptOut(t) BY <1>1, <1>8 DEF OptOut
<1>9. QED BY <1>3, <1>4, <1>5, <1>6, <1>7, <1>8 DEF Call

LEMMA OtherCalm ==
  ASSUME Typed, \/ AutoLock \/ AutoAsk \/ Cancel \/ ShutdownBegin \/ ShutdownEnds
                \/ ShutdownRefused \/ Elsewhere \/ UNCHANGED vars
  PROVE  Calm
<1> USE DEF Typed, Calm, AtWork, Thread, Service
<1>1. CASE AutoLock BY <1>1 DEF AutoLock
<1>2. CASE AutoAsk
  <2>0. AutoCheck \in Threads BY DEF Threads
  <2>1. Idle.pc = "idle" BY DEF Idle
  <2>2. Asked(AutoCheck, "check", 0) => th'[AutoCheck].pc = "begin" BY <2>0, Defaults DEF Asked
  <2>3. Done(AutoCheck) => th'[AutoCheck].pc = "idle" BY <2>0, <2>1 DEF Done
  <2>4. QED BY <1>2, <2>0, <2>2, <2>3 DEF AutoAsk, Asked, Done
<1>3. CASE Cancel BY <1>3 DEF Cancel, CutRunning
<1>4. CASE ShutdownBegin BY <1>4 DEF ShutdownBegin, CutRunning
<1>5. CASE ShutdownEnds BY <1>5 DEF ShutdownEnds
<1>6. CASE ShutdownRefused BY <1>6 DEF ShutdownRefused
<1>7. CASE Elsewhere BY <1>7 DEF Elsewhere
<1>8. CASE UNCHANGED vars BY <1>8 DEF vars
<1>9. QED BY <1>1, <1>2, <1>3, <1>4, <1>5, <1>6, <1>7, <1>8

LEMMA StartIsFresh ==
  ASSUME Start \/ Exit PROVE ~svc'.active /\ \A t \in Threads : ~AtWork(t)'
<1>1. \A auto, best, blocked : ~Started(auto, best, blocked).active
  <2>1. ~Down.active /\ Down \in Service BY Defaults DEF Down
  <2>2. QED BY <2>1 DEF Started, Service
<1>2. Idle.pc = "idle" /\ [Idle EXCEPT !.pc = "auto"].pc = "auto"
  <2>1. Idle.pc = "idle" BY DEF Idle
  <2>2. QED BY <2>1, Defaults DEF Thread
<1>3. CASE Start BY <1>1, <1>2, <1>3 DEF Start, Scan, AtWork
<1>4. CASE Exit
  <2>1. ~Down.active BY DEF Down
  <2>2. QED BY <1>2, <1>4, <2>1 DEF Exit, AtWork
<1>5. QED BY <1>3, <1>4

LEMMA EndedWorking ==
  ASSUME Typed, Working, NEW t \in Threads, AtWork(t), NEW s \in Service, Ended(t, s)
  PROVE  Working'
<1>1. svc' = Settled(s) /\ ~svc'.active BY DEF Ended, Working, Single, Settled, Service
<1>2. \A u \in Threads : ~AtWork(u)'
  <2>1. Idle.pc = "idle" BY DEF Idle
  <2>2. QED BY <2>1 DEF Ended, Done, Typed, Working, Single, AtWork
<1>3. QED BY <1>1, <1>2, FreshWorking

LEMMA BeginWorking ==
  ASSUME Typed, Working, NEW t \in Threads, Begin(t) PROVE Working'
<1>1. Idle.pc = "idle" BY DEF Idle
<1>2. CASE MayBegin(t)
  <2>1. \A u \in Threads : ~AtWork(u) BY <1>2 DEF MayBegin, Working, Single
  <2>2. /\ svc' = Active(t) /\ svc'.active /\ svc'.candidate = svc.candidate
        /\ th' = [th EXCEPT ![t].pc = "run", ![t].op = svc'.operation]
    BY <1>2 DEF Begin, Active, Typed, Service
  <2>3. /\ th'[t].pc = "run" /\ th'[t].op = svc'.operation /\ th'[t].what = th[t].what
        /\ th'[t].v = th[t].v
        /\ \A u \in Threads : u # t => th'[u] = th[u]
    BY <2>2 DEF Typed, Thread
  <2>4. Single' BY ZenonT(60), <2>1, <2>2, <2>3 DEF Single, AtWork
  <2>5. NeverStuck' BY <2>3 DEF NeverStuck
  <2>6. DownloadsCandidate' BY ZenonT(60), <1>2, <2>1, <2>2, <2>3 DEF DownloadsCandidate, MayBegin, AtWork
  <2>7. QED BY <2>4, <2>5, <2>6 DEF Working
<1>3. CASE ~MayBegin(t)
  <2>1. Calm BY <1>1, <1>3 DEF Begin, Done, Typed, Calm, AtWork
  <2>2. QED BY <2>1, CalmWorking
<1>4. QED BY <1>2, <1>3

LEMMA OperationWorking ==
  ASSUME Typed, Working, NEW t \in Threads, Operation(t) PROVE Working'
<1> USE DEF AtWork
<1>1. CASE Stage(t)
  <2>1. Calm BY <1>1 DEF Stage, Calm, Typed, Thread
  <2>2. QED BY <2>1, CalmWorking
<1>2. CASE CheckEnds(t) \/ DownloadEnds(t) \/ ApplyEnds(t)
  <2>1. AtWork(t) BY <1>2 DEF CheckEnds, DownloadEnds, ApplyEnds
  <2>2. PICK s \in Service : Ended(t, s) BY <1>2, EndsTyped
  <2>3. QED BY <2>1, <2>2, EndedWorking
<1>3. QED BY <1>1, <1>2, BeginWorking DEF Operation

LEMMA NextWorking == ASSUME Typed, Working, [Next]_vars PROVE Working'
BY StartIsFresh, FreshWorking, CallCalm, OtherCalm, CalmWorking, OperationWorking DEF Next
-----------------------------------------------------------------------------
(* What stops operations *)

Stops == AutomaticStops /\ Fenced

\* The operations that begin are asked for by a user, or while the check is on.
LEMMA CallStops == ASSUME Typed, Stops, NEW t \in Calls, Call(t) PROVE Stops'
<1> USE DEF Typed, Service, Stops, AutomaticStops, Fenced
<1>1. CASE OptIn(t) BY <1>1 DEF OptIn
<1>2. CASE OptOut(t) BY <1>2 DEF OptOut
<1>3. CASE UNCHANGED <<svc, stopping>> BY <1>3
<1>4. QED BY <1>1, <1>2, <1>3 DEF Call, CheckAsk, DownloadAsk, ApplyAsk, PreferenceSave,
                                 PreferenceUnsaved

LEMMA EndedStops ==
  ASSUME Typed, Stops, NEW t \in Threads, NEW s \in Service, Ended(t, s), Same(s, svc)
  PROVE  Stops'
BY DEF Typed, Service, Stops, AutomaticStops, Fenced, Ended, Settled, Same

LEMMA OperationStops == ASSUME Typed, Stops, NEW t \in Threads, Operation(t) PROVE Stops'
<1> USE DEF Typed, Stops, AutomaticStops, Fenced
<1>1. CASE Begin(t)
  <2>1. CASE MayBegin(t)
    <3>1. /\ svc'.automatic = (t = AutoCheck) /\ svc'.up = svc.up /\ svc'.auto = svc.auto
          /\ svc'.down = svc.down
      BY <1>1, <2>1 DEF Begin, Active, Service
    <3>2. QED BY <1>1, <2>1, <3>1 DEF Begin, MayBegin
  <2>2. CASE ~MayBegin(t) BY <1>1, <2>2 DEF Begin
  <2>3. QED BY <2>1, <2>2
<1>2. CASE Stage(t) BY <1>2 DEF Stage
<1>3. CASE CheckEnds(t) \/ DownloadEnds(t) \/ ApplyEnds(t)
  <2>1. PICK s \in Service : Ended(t, s) /\ Same(s, svc)
    BY <1>3, EndsTyped
  <2>2. QED BY <2>1, EndedStops
<1>4. QED BY <1>1, <1>2, <1>3 DEF Operation

LEMMA OtherStops ==
  ASSUME Typed, Stops, \/ AutoLock \/ AutoAsk \/ Cancel \/ ShutdownBegin \/ ShutdownEnds
                       \/ ShutdownRefused \/ Elsewhere \/ Start \/ Exit \/ UNCHANGED vars
  PROVE  Stops'
<1> USE DEF Typed, Service, Stops, AutomaticStops, Fenced
<1>1. CASE AutoLock \/ AutoAsk \/ Elsewhere \/ UNCHANGED vars
  BY <1>1 DEF AutoLock, AutoAsk, Elsewhere, vars
<1>2. CASE Cancel BY <1>2 DEF Cancel
<1>3. CASE ShutdownBegin BY <1>3 DEF ShutdownBegin
<1>4. CASE ShutdownEnds BY <1>4 DEF ShutdownEnds
<1>5. CASE ShutdownRefused BY <1>5 DEF ShutdownRefused
<1>6. CASE Start \/ Exit
  <2>1. ~svc'.active /\ stopping' = "no" BY <1>6, StartIsFresh DEF Start, Exit
  <2>2. QED BY <2>1
<1>7. QED BY <1>1, <1>2, <1>3, <1>4, <1>5, <1>6

LEMMA NextStops == ASSUME Typed, Stops, [Next]_vars PROVE Stops'
BY CallStops, OperationStops, OtherStops DEF Next
-----------------------------------------------------------------------------
\* Whatever is asked, opted, canceled, shut down and restarted, an operation that
\* is active is settled by its thread, opting out and a shutdown stop what they are
\* to stop, and only the candidate that a check returned is downloaded.
THEOREM UpdatesAreSafe == Spec => []UpdatesSafe
<1>1. Init => Inv BY InitInv
<1>2. Inv /\ [Next]_vars => Inv'
  <2>1. Inv /\ [Next]_vars => Typed' /\ Working' /\ Stops'
    BY NextTyped, NextWorking, NextStops DEF Inv, UpdatesSafe, Working, Stops
  <2>2. Typed' /\ Working' /\ Stops' => Inv' BY DEF Inv, UpdatesSafe, Working, Stops
  <2>3. QED BY <2>1, <2>2
<1>3. Inv => UpdatesSafe BY DEF Inv
<1>4. QED BY <1>1, <1>2, <1>3, PTL DEF Spec
-----------------------------------------------------------------------------
(* The replacement of the binary *)

\* The steps of a run that has the lock; those after its copy; those at which
\* the target is what it was before; those after its journal.
Locked == {"copy", "link", "journal", "rename", "sync", "smoke", "rollback", "rollsync",
           "clean", "cleansync", "drop", "inspect"}
Copied == Locked \ {"copy"}
Reversed == {"copy", "link", "journal", "rename", "clean", "cleansync", "rollsync", "drop"}
Written == Copied \ {"link", "journal"}

\* The types of the state: names and inodes are files there are, an original is
\* proven, and who is past the lock has it.
Inodes == 1..Len(file)
JournalType == [stage : Staged, backup : Inodes, orig : Inodes]
Directory(d) ==
  /\ DOMAIN d = {"target", "backups"}
  /\ d.target \in Inodes /\ DOMAIN d.backups \subseteq Inodes
  /\ \A b \in DOMAIN d.backups : d.backups[b] \in Inodes
Process(r, files) ==
  \/ r = NoRun
  \/ /\ DOMAIN r = {"pc", "stage", "orig", "new"}
     /\ r.pc \in Locked \cup {"apply", "recover"}
     /\ r.stage \in Staged /\ r.orig \in files /\ r.new \in files \cup {0}

Shapes ==
  /\ file \in Seq(Staged \cup {Foreign}) /\ proven \subseteq Inodes
  /\ \A i \in Inodes : file[i] = Foreign => i \in proven
  /\ dir \in dirs /\ \A d \in dirs : Directory(d)
  /\ journal \in journals /\ journals \subseteq JournalType \cup {NoJournal}
  /\ DOMAIN proc = Proc /\ \A p \in Proc : Process(proc[p], Inodes)
  /\ lock \in Proc \cup {Free}
  /\ \A p \in Proc : proc[p].pc \in Locked <=> lock = p

PastCopy(p) == proc[p].pc \in Copied
\* The backups that a journal or a run may remove.
Names == {j.backup : j \in journals \ {NoJournal}} \cup {proc[p].new : p \in {q \in Proc : PastCopy(q)}}
Outside(d) == \E b \in DOMAIN d.backups : b \notin Names /\ d.backups[b] \in proven
Behind(d) == \E b \in DOMAIN d.backups : d.backups[b] \in proven
Risky(d) == \E b \in DOMAIN d.backups : b \in Names /\ d.backups[b] \notin proven

\* A backup holds what its journal and its run say it does; the name of a new
\* one is not taken.
Known(d) ==
  /\ \A j \in journals \ {NoJournal} : j.backup \in DOMAIN d.backups => d.backups[j.backup] = j.orig
  /\ \A p \in Proc : PastCopy(p) /\ proc[p].new \in DOMAIN d.backups => d.backups[proc[p].new] = proc[p].orig
  /\ \A p \in Proc : proc[p].pc = "link" => proc[p].new \notin DOMAIN d.backups
\* A target that is not proven has something proven behind it, and so, under a
\* name that nobody may remove, has a backup that is not proven and may be removed.
Stocked(d) == (d.target \notin proven => Behind(d)) /\ (Risky(d) => Outside(d))
Backed == \A d \in dirs : Known(d) /\ Stocked(d)
\* And so has the target, when the run or the lack of a journal leave it as it is.
Spare ==
  dir.target \notin proven /\ (NoJournal \in journals \/ \E p \in Proc : proc[p].pc \in Reversed)
    => Outside(dir)

\* What a run relies on at each step.
At(p) ==
  /\ proc[p].pc \in {"copy", "link", "journal"} => journal = NoJournal
  /\ proc[p].pc = "link" => \A j \in journals \ {NoJournal} : j.backup # proc[p].new
  /\ proc[p].pc \in {"journal", "rename"} => proc[p].new \in DOMAIN dir.backups
  /\ proc[p].pc \in {"link", "journal", "rename"} => file[proc[p].new] = proc[p].stage
  /\ proc[p].pc \in Copied => proc[p].new # 0
  /\ proc[p].pc \in Written => journal = JournalOf(p)
  /\ proc[p].pc = "rename" => NoJournal \notin journals
Phases ==
  /\ NoJournal \in journals \/ \A j \in journals : j = journal
  /\ \A p \in Proc : At(p)
\* As long as the power is on, what a run goes back to is proven.
WhileOn ==
  power = "on" =>
   /\ dir.target \notin proven =>
        journal # NoJournal /\ journal.stage = file[dir.target] /\ journal.backup \in DOMAIN dir.backups
   /\ journal # NoJournal => journal.orig \in proven
   /\ \A p \in Proc : /\ proc[p].pc \in Reversed => dir.target \in proven
                      /\ proc[p].pc \in Copied \ {"link"} => proc[p].orig \in proven

InstallInv == Shapes /\ Backed /\ Spare /\ Phases /\ WhileOn
-----------------------------------------------------------------------------
LEMMA Kept == InstallInv => BackupKept
<1> SUFFICES ASSUME InstallInv PROVE BackupKept OBVIOUS
<1> USE DEF InstallInv
<1>1. BackupBeside BY DEF BackupBeside, Unproven, Shapes, Directory, Backed, Stocked, Behind
<1>2. ASSUME power = "on" PROVE Restorable
  <2> SUFFICES ASSUME dir.target \notin proven PROVE Restorable!2 BY DEF Restorable, Unproven
  <2>1. journal # NoJournal /\ journal.stage = file[dir.target] /\ journal.backup \in DOMAIN dir.backups
    BY <1>2 DEF WhileOn
  <2>2. dir \in dirs /\ journal \in journals BY DEF Shapes
  <2>3. dir.backups[journal.backup] = journal.orig BY <2>1, <2>2 DEF Backed, Known
  <2>4. QED BY <2>1, <2>3
<1>3. QED BY <1>1, <1>2 DEF BackupKept

LEMMA InstallStarts == InstallInit => InstallInv
<1> SUFFICES ASSUME InstallInit PROVE InstallInv OBVIOUS
<1> USE InstallAssumption DEF InstallInit
<1>0. Len(file) = 1 /\ Inodes = {1} /\ DOMAIN (<<>>) = {} BY DEF Inodes
<1>1. Shapes BY <1>0 DEF Shapes, Directory, Process, NoRun, Locked
<1>2. Backed BY <1>0 DEF Backed, Known, Stocked, Behind, Risky, NoRun, PastCopy, Copied, Locked
<1>3. Spare /\ WhileOn BY DEF Spare, WhileOn, NoRun, Reversed, Copied, Locked
<1>4. Phases BY DEF Phases, At, NoRun, Written, Copied, Locked
<1>5. QED BY <1>1, <1>2, <1>3, <1>4 DEF InstallInv
-----------------------------------------------------------------------------
\* Who has the lock is alone.
LEMMA OneRun ==
  ASSUME Shapes, NEW p \in Proc, proc[p].pc \in Locked
  PROVE  /\ lock = p /\ p # Free
         /\ \A q \in Proc : q # p => proc[q].pc \notin Locked
         /\ DOMAIN proc[p] = {"pc", "stage", "orig", "new"}
         /\ proc[p].stage \in Staged /\ proc[p].orig \in Inodes /\ proc[p].new \in Inodes \cup {0}
BY InstallAssumption DEF Shapes, Process, NoRun, Locked

LEMMA Goes ==
  ASSUME Shapes, NEW p \in Proc, proc[p].pc \in Locked, NEW pc \in Locked, Goto(p, pc),
         Inodes \subseteq Inodes', UNCHANGED lock
  PROVE  /\ DOMAIN proc' = Proc /\ \A q \in Proc : Process(proc'[q], Inodes')
         /\ proc'[p].pc = pc /\ proc'[p].stage = proc[p].stage
         /\ proc'[p].orig = proc[p].orig /\ proc'[p].new = proc[p].new
         /\ \A q \in Proc : q # p => proc'[q] = proc[q]
         /\ lock' \in Proc \cup {Free} /\ \A q \in Proc : proc'[q].pc \in Locked <=> lock' = q
<1>1. \A q \in Proc : Process(proc[q], Inodes') BY DEF Shapes, Process
<1>2. proc' = [proc EXCEPT ![p] = [proc[p] EXCEPT !.pc = pc]] BY DEF Goto
<1>3. proc'[p] = [proc[p] EXCEPT !.pc = pc] /\ \A q \in Proc : q # p => proc'[q] = proc[q]
  BY <1>2 DEF Shapes
<1>4. DOMAIN proc' = Proc BY <1>2 DEF Shapes
<1>5. proc'[p].pc = pc /\ proc'[p].stage = proc[p].stage /\ DOMAIN proc'[p] = {"pc", "stage", "orig", "new"}
      /\ proc'[p].orig = proc[p].orig /\ proc'[p].new = proc[p].new
  BY <1>3, OneRun
<1>6. Process(proc'[p], Inodes') BY <1>1, <1>5, OneRun DEF Process
<1>7. QED BY <1>1, <1>3, <1>4, <1>5, <1>6, OneRun DEF Shapes

LEMMA Ends ==
  ASSUME Shapes, NEW p \in Proc, End(p), Inodes \subseteq Inodes'
  PROVE  /\ DOMAIN proc' = Proc /\ \A q \in Proc : Process(proc'[q], Inodes')
         /\ proc'[p].pc = "idle" /\ \A q \in Proc : q # p => proc'[q] = proc[q]
         /\ lock' \in Proc \cup {Free} /\ \A q \in Proc : proc'[q].pc \in Locked <=> lock' = q
<1>1. \A q \in Proc : Process(proc[q], Inodes') BY DEF Shapes, Process
<1>2. proc'[p] = NoRun /\ (\A q \in Proc : q # p => proc'[q] = proc[q]) /\ DOMAIN proc' = Proc
  BY DEF End, Shapes
<1>3. proc'[p].pc = "idle" /\ Process(proc'[p], Inodes') BY <1>2 DEF NoRun, Process
<1>4. lock' \in Proc \cup {Free} /\ \A q \in Proc : proc'[q].pc \in Locked <=> lock' = q
  BY <1>2, <1>3, InstallAssumption DEF End, Shapes, Locked
<1>5. QED BY <1>1, <1>2, <1>3, <1>4

\* The other processes do not count for what may be removed.
LEMMA NamesOf ==
  ASSUME Shapes, NEW p \in Proc, \A q \in Proc : q # p => proc[q].pc \notin Locked
  PROVE  Names = {j.backup : j \in journals \ {NoJournal}} \cup (IF PastCopy(p) THEN {proc[p].new} ELSE {})
BY DEF Names, PastCopy, Copied

\* A directory with proven files and what may be removed: the more proven and
\* the less to remove the better.
LEMMA StillStocked ==
  ASSUME NEW d, Stocked(d), proven \subseteq proven', Names' \cap DOMAIN d.backups \subseteq Names
  PROVE  Stocked(d)' /\ (Outside(d) => Outside(d)')
BY DEF Stocked, Behind, Risky, Outside

\* What the step of p leaves of the others, and of itself.
Follows(p) ==
  /\ DOMAIN proc' = Proc /\ Process(proc'[p], Inodes') /\ \A q \in Proc : q # p => proc'[q] = proc[q]
  /\ lock' \in Proc \cup {Free} /\ \A q \in Proc : proc'[q].pc \in Locked <=> lock' = q
Carries(p) ==
  proc'[p].pc \in Copied =>
    \/ proc[p].pc \in Copied /\ proc'[p].new = proc[p].new /\ proc'[p].orig = proc[p].orig
    \/ journal # NoJournal /\ proc'[p].new = journal.backup /\ proc'[p].orig = journal.orig

LEMMA Processes ==
  ASSUME Shapes, NEW p \in Proc, Follows(p), Inodes \subseteq Inodes'
  PROVE  \A q \in Proc : Process(proc'[q], Inodes')
BY DEF Shapes, Process, Follows

\* A step that changes no file, and lets go at most of what was in memory only.
LEMMA Stays ==
  ASSUME InstallInv, NEW p \in Proc, Follows(p), Carries(p), At(p)',
         UNCHANGED <<file, dir, journal, journals, power>>,
         dirs' \subseteq dirs, dir \in dirs', proven \subseteq proven', proven' \subseteq Inodes,
         proc'[p].pc # "link",
         dir.target \notin proven' /\ proc'[p].pc \in Reversed => NoJournal \in journals \/ Outside(dir),
         power = "on" => /\ proc'[p].pc \in Reversed => dir.target \in proven'
                         /\ proc'[p].pc \in Copied => proc'[p].orig \in proven'
  PROVE  InstallInv'
<1> USE DEF InstallInv, Follows
<1>0. Inodes' = Inodes BY DEF Inodes
<1>1. Shapes' BY <1>0, Processes DEF Shapes, Directory, JournalType
<1>2. Names' \subseteq Names BY DEF Shapes, Names, PastCopy, Carries
<1>3. Backed'
  <2> SUFFICES ASSUME NEW d \in dirs' PROVE Known(d)' /\ Stocked(d)' BY DEF Backed
  <2>0. Known(d) BY DEF Backed
  <2>1. Known(d)'
    <3>1. \A j \in journals \ {NoJournal} : j.backup \in DOMAIN d.backups => d.backups[j.backup] = j.orig
      BY <2>0 DEF Known
    <3>2. \A q \in Proc : PastCopy(q)' /\ proc'[q].new \in DOMAIN d.backups => d.backups[proc'[q].new] = proc'[q].orig
      BY <2>0, <3>1 DEF Known, PastCopy, Carries, Shapes
    <3>3. \A q \in Proc : proc'[q].pc = "link" => proc'[q].new \notin DOMAIN d.backups BY <2>0 DEF Known
    <3>4. QED BY <3>1, <3>2, <3>3 DEF Known
  <2>2. Stocked(d)' BY <1>2, StillStocked DEF Backed
  <2>3. QED BY <2>1, <2>2
<1>4. Spare'
  <2> SUFFICES ASSUME dir.target \notin proven', NoJournal \in journals \/ \E q \in Proc : proc'[q].pc \in Reversed
               PROVE Outside(dir)'
    BY DEF Spare
  <2>1. Outside(dir) BY DEF Spare
  <2>2. QED BY <1>2, <2>1 DEF Outside
<1>5. Phases' BY DEF Phases, At, JournalOf
<1>6. WhileOn' BY DEF WhileOn
<1>7. QED BY <1>1, <1>3, <1>4, <1>5, <1>6

\* A run that ends leaves everything as it was.
LEMMA Released ==
  ASSUME InstallInv, NEW p \in Proc, End(p), UNCHANGED <<directories, proven, power>>
  PROVE  InstallInv'
<1> USE DEF InstallInv, directories
<1>0. Inodes' = Inodes BY DEF Inodes
<1>1. Follows(p) /\ proc'[p].pc = "idle" BY <1>0, Ends DEF Follows
<1>2. Carries(p) /\ At(p)' BY <1>1 DEF Carries, At, Written, Copied, Locked
<1>3. dir \in dirs /\ proven \subseteq Inodes BY DEF Shapes
<1>4. QED BY <1>1, <1>2, <1>3, Stays DEF Reversed, Copied, Locked
-----------------------------------------------------------------------------
LEMMA BeginSafe ==
  ASSUME InstallInv, NEW p \in Proc, NEW s \in Staged, NEW what \in {"apply", "recover"},
         BeginRun(p, s, what), UNCHANGED power
  PROVE  InstallInv'
<1> USE DEF InstallInv, directories, BeginRun
<1>1. proc'[p] = [pc |-> what, stage |-> s, orig |-> dir.target, new |-> 0]
      /\ (\A q \in Proc : q # p => proc'[q] = proc[q]) /\ DOMAIN proc' = Proc
  BY DEF Shapes
<1>2. proc'[p].pc = what /\ what \notin Locked BY <1>1 DEF Locked
<1>3. Process(proc'[p], Inodes') BY <1>1 DEF Process, Shapes, Directory, Inodes
<1>4. lock # p BY DEF Shapes, Locked
<1>5. Follows(p) BY <1>1, <1>2, <1>3, <1>4 DEF Follows, Shapes
<1>6. Carries(p) /\ At(p)' BY <1>2 DEF Carries, At, Written, Copied, Locked
<1>7. dir \in dirs /\ proven \subseteq Inodes BY DEF Shapes
<1>8. QED BY <1>2, <1>5, <1>6, <1>7, Stays DEF Reversed, Copied, Locked

LEMMA LockSafe ==
  ASSUME InstallInv, NEW p \in Proc, LockApply(p) \/ LockRecover(p), UNCHANGED power
  PROVE  InstallInv'
<1> USE DEF InstallInv, directories
<1>0. dir \in dirs /\ proven \subseteq Inodes /\ Inodes' = Inodes /\ journal \in journals
  BY DEF Shapes, Inodes, LockApply, LockRecover
<1>1. CASE LockApply(p) /\ lock = Free /\ journal = NoJournal
  <2>1. /\ DOMAIN proc[p] = {"pc", "stage", "orig", "new"} /\ proc[p].stage \in Staged
        /\ proc[p].orig \in Inodes /\ proc[p].new \in Inodes \cup {0}
    BY <1>1 DEF Shapes, Process, NoRun, LockApply
  <2>2. proc'[p] = [proc[p] EXCEPT !.pc = "copy"] /\ (\A q \in Proc : q # p => proc'[q] = proc[q])
        /\ DOMAIN proc' = Proc
    BY <1>1 DEF Shapes, LockApply, Goto
  <2>3. Process(proc'[p], Inodes') /\ proc'[p].pc = "copy" BY <1>0, <2>1, <2>2 DEF Process, Locked
  <2>. lock' = p /\ \A q \in Proc : proc[q].pc \notin Locked
    BY <1>1, InstallAssumption DEF Shapes, LockApply, Goto
  <2>4. Follows(p) BY <2>2, <2>3 DEF Follows, Locked
  <2>5. Carries(p) /\ At(p)' BY <1>1, <2>3 DEF Carries, At, Written, Copied, Locked, LockApply
  <2>6. power = "on" => dir.target \in proven BY <1>1 DEF WhileOn
  <2>7. QED BY <1>0, <1>1, <2>3, <2>4, <2>5, <2>6, Stays DEF LockApply, Copied
<1>2. CASE LockRecover(p) /\ lock = Free /\ journal # NoJournal /\ journal.stage = proc[p].stage
  <2>1. journal \in JournalType BY <1>0, <1>2 DEF Shapes
  <2>2. proc'[p] = [pc |-> "inspect", stage |-> journal.stage, orig |-> journal.orig, new |-> journal.backup]
        /\ (\A q \in Proc : q # p => proc'[q] = proc[q]) /\ DOMAIN proc' = Proc
    BY <1>2 DEF Shapes, LockRecover
  <2>3. Process(proc'[p], Inodes') /\ proc'[p].pc = "inspect" BY <1>0, <2>1, <2>2 DEF Process, Locked, JournalType
  <2>4. Follows(p) BY <1>2, <2>2, <2>3, InstallAssumption DEF Follows, Shapes, LockRecover, Locked
  <2>5. Carries(p) BY <1>2, <2>2 DEF Carries
  <2>6. JournalOf(p)' = journal /\ proc'[p].new # 0 BY <2>1, <2>2 DEF JournalOf, JournalType, Inodes
  <2>7. At(p)' BY <1>2, <2>3, <2>6 DEF At, LockRecover
  <2>8. power = "on" => proc'[p].orig \in proven BY <1>2, <2>2 DEF WhileOn
  <2>9. QED BY <1>0, <1>2, <2>3, <2>4, <2>5, <2>7, <2>8, Stays DEF LockRecover, Reversed
<1>3. CASE End(p) BY <1>3, Released DEF LockApply, LockRecover
<1>4. QED BY <1>1, <1>2, <1>3 DEF LockApply, LockRecover

-----------------------------------------------------------------------------
\* A run that goes on without changing a file.
LEMMA GoesOn ==
  ASSUME InstallInv, NEW p \in Proc, proc[p].pc \in Copied, NEW pc \in Copied, Goto(p, pc),
         UNCHANGED <<file, dir, journal, journals, lock, power>>,
         dirs' \subseteq dirs, dir \in dirs', proven \subseteq proven', proven' \subseteq Inodes,
         pc \in Written, journal = JournalOf(p), pc = "rename" => FALSE, proc[p].pc = "link" => FALSE,
         dir.target \notin proven' /\ pc \in Reversed => NoJournal \in journals \/ Outside(dir),
         power = "on" /\ pc \in Reversed => dir.target \in proven'
  PROVE  InstallInv'
<1> USE DEF InstallInv
<1>0. proc[p].pc \in Locked /\ pc \in Locked /\ Inodes' = Inodes BY DEF Copied, Inodes
<1>1. Follows(p) /\ proc'[p].pc = pc /\ proc'[p].new = proc[p].new /\ proc'[p].orig = proc[p].orig
      /\ proc'[p].stage = proc[p].stage
  BY <1>0, Goes DEF Follows
<1>2. Carries(p) BY <1>1 DEF Carries
<1>3. At(p)' BY <1>1 DEF Phases, At, JournalOf, Written, Copied
<1>4. power = "on" => proc[p].orig \in proven BY DEF WhileOn
<1>5. pc # "link" BY DEF Written
<1>6. QED BY <1>1, <1>2, <1>3, <1>4, <1>5, Stays

LEMMA Facts == ASSUME InstallInv PROVE dir \in dirs /\ journal \in journals /\ proven \subseteq Inodes
                                 /\ dir.target \in Inodes /\ Known(dir) /\ Stocked(dir)
BY DEF InstallInv, Shapes, Backed, Directory

LEMMA SyncSafe ==
  ASSUME InstallInv, NEW p \in Proc, Sync(p) \/ RollbackSync(p) \/ CleanSync(p), UNCHANGED power
  PROVE  InstallInv'
<1>0. dir \in dirs /\ proven \subseteq Inodes /\ At(p) BY Facts DEF InstallInv, Phases
<1>1. PICK x \in {"smoke", "drop"} : Goto(p, x) /\ (x = "smoke" => proc[p].pc = "sync")
                                     /\ (x = "drop" => proc[p].pc \in {"rollsync", "cleansync"})
  BY DEF Sync, RollbackSync, CleanSync
<1>2. proc[p].pc \in {"sync", "rollsync", "cleansync"} /\ dir' = dir /\ dirs' = {dir}
      /\ UNCHANGED <<file, journal, journals, lock, proven, power>>
  BY DEF Sync, RollbackSync, CleanSync, SyncDir
<1>3. journal = JournalOf(p) BY <1>0, <1>2 DEF At, Written, Copied, Locked
<1>4. dir.target \notin proven /\ x \in Reversed => Outside(dir)
  BY <1>1 DEF InstallInv, Spare, Reversed
<1>5. power = "on" /\ x \in Reversed => dir.target \in proven BY <1>1 DEF InstallInv, WhileOn, Reversed
<1>6. x \in Written /\ x # "rename" /\ proc[p].pc \in Copied BY <1>2 DEF Written, Copied, Locked
<1>7. QED BY <1>0, <1>1, <1>2, <1>3, <1>4, <1>5, <1>6, GoesOn DEF Written

LEMMA SmokeSafe ==
  ASSUME InstallInv, NEW p \in Proc, Smoke(p), UNCHANGED power
  PROVE  InstallInv'
<1>0. dir \in dirs /\ proven \subseteq Inodes /\ At(p) /\ dir.target \in Inodes BY Facts DEF InstallInv, Phases
<1>1. PICK x \in {"clean", "rollback"} : Goto(p, x) /\ (x = "clean" => proven' = proven \cup {dir.target})
                                         /\ (x = "rollback" => proven' = proven)
  BY DEF Smoke
<1>2. journal = JournalOf(p) /\ proc[p].pc = "smoke" BY <1>0 DEF Smoke, At, Written, Copied, Locked
<1>3. x \in Written /\ x # "rename" /\ proc[p].pc \in Copied /\ (x \in Reversed => x = "clean")
  BY <1>2 DEF Written, Copied, Locked, Reversed
<1>4. QED BY <1>0, <1>1, <1>2, <1>3, GoesOn DEF Smoke, directories, Written

\* With the original installed, or no backup, what may be taken away is not needed.
LEMMA InspectSafe ==
  ASSUME InstallInv, NEW p \in Proc, Inspect(p), UNCHANGED power
  PROVE  InstallInv'
<1> USE Facts DEF Inspect
<1>0. At(p) /\ journal = JournalOf(p) /\ proc[p].pc \in Copied
  BY DEF InstallInv, Phases, At, Written, Copied, Locked
<1>1. CASE End(p) BY <1>1, Released
<1>2. ASSUME NEW x \in {"drop", "clean", "smoke"}, Goto(p, x), UNCHANGED lock,
             x = "drop" => ~BackupPresent(p), x = "clean" => BackupPresent(p) /\ dir.target = proc[p].orig
      PROVE  InstallInv'
  <2>1. x \in Written /\ x # "rename" /\ (x \in Reversed => x \in {"drop", "clean"})
    BY DEF Written, Copied, Locked, Reversed
  <2>2. proc[p].new \in Names BY <1>0 DEF Names, PastCopy
  <2>3. ASSUME x = "clean", dir.target \notin proven PROVE Outside(dir) /\ power # "on"
    <3>1. dir.backups[proc[p].new] = proc[p].orig BY <1>0, <1>2, <2>3 DEF Known, PastCopy, BackupPresent
    <3>2. Risky(dir) BY <1>2, <2>2, <2>3, <3>1 DEF Risky, BackupPresent
    <3>3. power # "on" BY <1>0, <1>2, <2>3 DEF InstallInv, WhileOn
    <3>4. QED BY <3>2, <3>3 DEF Stocked
  <2>4. ASSUME x = "drop", dir.target \notin proven PROVE (NoJournal \in journals \/ Outside(dir)) /\ power # "on"
    <3>1. journal.backup = proc[p].new /\ proc[p].new \notin DOMAIN dir.backups
      BY <1>0, <1>2, <2>4 DEF JournalOf, BackupPresent
    <3>2. power # "on" BY <2>4, <3>1 DEF InstallInv, WhileOn
    <3>3. PICK b \in DOMAIN dir.backups : dir.backups[b] \in proven BY <2>4 DEF Stocked, Behind
    <3>4. CASE \A j \in journals : j = journal
      <4>1. Names = {j.backup : j \in journals \ {NoJournal}} \cup {proc[p].new}
        BY <1>0, OneRun, NamesOf DEF InstallInv, PastCopy, Copied
      <4>2. b \notin Names BY <3>1, <3>4, <4>1
      <4>3. QED BY <3>2, <3>3, <4>2 DEF Outside
    <3>5. QED BY <3>2, <3>4 DEF InstallInv, Phases
  <2>5. QED BY <1>0, <1>2, <2>1, <2>3, <2>4, GoesOn DEF directories, Written
<1>3. QED BY <1>1, <1>2

-----------------------------------------------------------------------------
\* A new file is named by nothing yet.
LEMMA CopySafe ==
  ASSUME InstallInv, NEW p \in Proc, Copy(p), UNCHANGED power
  PROVE  InstallInv'
<1> USE Facts DEF InstallInv
<1>1. CASE End(p) /\ UNCHANGED file BY <1>1, Released DEF Copy, directories
<1>2. CASE file' = Append(file, proc[p].stage) /\ proc' = [proc EXCEPT ![p].pc = "link", ![p].new = Len(file) + 1]
           /\ UNCHANGED lock
  <2> DEFINE n == Len(file) + 1
  <2>0. proc[p].pc = "copy" /\ proc[p].pc \in Locked /\ UNCHANGED <<dir, dirs, journal, journals, proven>>
    BY DEF Copy, Locked
  <2>1. Inodes' = 1..n /\ Inodes \subseteq Inodes' /\ n \in Inodes' /\ n \notin Inodes
        /\ file' \in Seq(Staged \cup {Foreign})
        /\ (\A i \in Inodes : file'[i] = file[i]) /\ file'[n] = proc[p].stage
    BY <1>2, <2>0, OneRun DEF Inodes, Shapes
  <2>2. /\ proc'[p].pc = "link" /\ proc'[p].stage = proc[p].stage /\ DOMAIN proc'[p] = {"pc", "stage", "orig", "new"}
        /\ proc'[p].orig = proc[p].orig /\ proc'[p].new = n /\ DOMAIN proc' = Proc
        /\ \A q \in Proc : q # p => proc'[q] = proc[q]
    BY <1>2, <2>0, OneRun DEF Shapes
  <2>3. Process(proc'[p], Inodes') BY <2>0, <2>1, <2>2, OneRun DEF Process, Locked
  <2>4. \A q \in Proc : Process(proc'[q], Inodes') BY <2>1, <2>2, <2>3 DEF Process, Shapes
  <2>5. \A q \in Proc : q # p => proc'[q].pc \notin Locked BY <2>0, <2>2, OneRun
  <2>6. Foreign \notin Staged /\ proc[p].stage \in Staged BY <2>0, OneRun, InstallAssumption
  <2>7. Shapes' 
    <3>1. \A i \in Inodes' : file'[i] = Foreign => i \in proven BY <2>1, <2>6 DEF Shapes, Inodes
    <3>2. \A d \in dirs : Directory(d)' BY <2>1 DEF Shapes, Directory
    <3>3. journals \subseteq (JournalType \cup {NoJournal})' BY <2>1 DEF Shapes, JournalType
    <3>4. \A q \in Proc : proc'[q].pc \in Locked <=> lock' = q
      BY <1>2, <2>0, <2>2, <2>5, OneRun DEF Locked
    <3>5. QED BY <1>2, <2>0, <2>1, <2>2, <2>4, <3>1, <3>2, <3>3, <3>4 DEF Shapes
  <2>8. Names' \subseteq Names \cup {n} BY <2>0, <2>2, <2>5 DEF Names, PastCopy, Copied
  <2>9. \A d \in dirs : n \notin DOMAIN d.backups BY <2>1 DEF Shapes, Directory
  <2>10. \A j \in journals \ {NoJournal} : j.backup # n BY <2>1 DEF Shapes, JournalType
  <2>11. Backed'
    <3> SUFFICES ASSUME NEW d \in dirs PROVE Known(d)' /\ Stocked(d)' BY <2>0 DEF Backed
    <3>1. Known(d)' BY <2>0, <2>2, <2>5, <2>9 DEF Backed, Known, PastCopy, Copied, Locked
    <3>2. Stocked(d)' BY <2>0, <2>8, <2>9, StillStocked DEF Backed
    <3>3. QED BY <3>1, <3>2
  <2>12. Spare' BY <2>0, <2>8, <2>9 DEF Spare, Outside, Reversed
  <2>13. journal = NoJournal BY <2>0 DEF Phases, At
  <2>14. Phases'
    <3>1. At(p)' BY <2>0, <2>1, <2>2, <2>10, <2>13 DEF At, Written, Copied, Inodes, Shapes
    <3>2. \A q \in Proc : q # p => At(q)' BY <2>5 DEF At, Written, Copied, Locked
    <3>3. QED BY <2>0, <3>1, <3>2 DEF Phases
  <2>15. WhileOn' 
    <3>1. power = "on" => dir.target \in proven BY <2>13 DEF WhileOn
    <3>2. QED BY <2>0, <2>2, <2>5, <2>13, <3>1 DEF WhileOn, Copied, Locked
  <2>16. QED BY <2>7, <2>11, <2>12, <2>14, <2>15
<1>3. QED BY <1>1, <1>2 DEF Copy

\* A state of the directory that may be found is added to the others.
LEMMA Puts ==
  ASSUME InstallInv, NEW d, dirs' = dirs \cup {d}, Known(d)', Stocked(d)',
         \A e \in dirs : Known(e)', Names' \cap Inodes \subseteq Names, proven \subseteq proven'
  PROVE  Backed'
<1> SUFFICES ASSUME NEW e \in dirs PROVE Stocked(e)' BY DEF Backed
<1>1. Stocked(e) /\ DOMAIN e.backups \subseteq Inodes BY DEF InstallInv, Backed, Shapes, Directory
<1>2. QED BY <1>1, StillStocked

LEMMA LinkSafe ==
  ASSUME InstallInv, NEW p \in Proc, Link(p), UNCHANGED power
  PROVE  InstallInv'
<1> USE Facts DEF InstallInv
<1>1. CASE End(p) /\ UNCHANGED <<dir, dirs>> BY <1>1, Released DEF Link, directories
<1>2. CASE dir.target = proc[p].orig /\ Goto(p, "journal") /\ UNCHANGED lock
           /\ Put([dir EXCEPT !.backups = [x \in DOMAIN @ \cup {proc[p].new} |->
                    IF x = proc[p].new THEN dir.target ELSE @[x]]])
  <2>n. PICK n : n = proc[p].new OBVIOUS
  <2>d. PICK d : d = [dir EXCEPT !.backups = [x \in DOMAIN @ \cup {n} |-> IF x = n THEN dir.target ELSE @[x]]]
    OBVIOUS
  <2>0. proc[p].pc = "link" /\ proc[p].pc \in Locked /\ "journal" \in Locked /\ Inodes' = Inodes
        /\ UNCHANGED <<file, journal, journals, proven>>
    BY DEF Link, Locked, Inodes
  <2>1. /\ DOMAIN d = {"target", "backups"} /\ d.target = dir.target /\ DOMAIN d.backups = DOMAIN dir.backups \cup {n}
        /\ d.backups[n] = dir.target /\ \A b \in DOMAIN dir.backups : b # n => d.backups[b] = dir.backups[b]
    BY <2>d DEF Shapes, Directory
  <2>2. dir' = d /\ dirs' = dirs \cup {d} BY <1>2, <2>d, <2>n DEF Put
  <2>3. Follows(p) /\ proc'[p].pc = "journal" /\ proc'[p].new = n /\ proc'[p].orig = proc[p].orig
        /\ proc'[p].stage = proc[p].stage
    BY <1>2, <2>n, <2>0, Goes DEF Follows
  <2>4. n \in Inodes /\ n \notin DOMAIN dir.backups /\ (\A j \in journals \ {NoJournal} : j.backup # n)
        /\ n # 0 /\ file[n] = proc[p].stage /\ journal = NoJournal
    BY <2>n, <2>0, OneRun DEF Known, Phases, At, Copied
  <2>5. Shapes'
    <3>1. Directory(d) BY <2>1, <2>4 DEF Directory, Shapes
    <3>2. QED BY <2>0, <2>2, <2>3, <3>1, Processes DEF Shapes, Follows, Directory, JournalType
  <2>6. Names' = Names
    <3>1. \A q \in Proc : q # p => proc[q].pc \notin Locked /\ proc'[q] = proc[q] BY <2>n, <2>0, <2>3, OneRun DEF Follows
    <3>2. PastCopy(p) /\ PastCopy(p)' BY <2>n, <2>0, <2>3 DEF PastCopy, Copied, Locked
    <3>3. QED BY <2>n, <2>0, <2>3, <3>1, <3>2 DEF Names, PastCopy
  <2>7. \A e \in dirs : Known(e)' BY <1>2, <2>n, <2>0, <2>3 DEF Backed, Known, PastCopy, Copied, Follows
  <2>8. Known(d)'
    <3>1. \A j \in journals \ {NoJournal} : j.backup \in DOMAIN d.backups => d.backups[j.backup] = j.orig
      BY <2>1, <2>4 DEF Known
    <3>2. \A q \in Proc : q # p => proc'[q] = proc[q] /\ proc[q].pc \notin Locked BY <2>n, <2>0, <2>3, OneRun DEF Follows
    <3>3. QED BY <1>2, <2>n, <2>0, <2>1, <2>3, <3>1, <3>2 DEF Known, PastCopy, Copied, Locked
  <2>9. dir.target \notin proven => Outside(dir) BY <2>0 DEF Spare, Reversed
  <2>10. Outside(dir) => Outside(d)' BY <2>0, <2>1, <2>4, <2>6 DEF Outside
  <2>11. Stocked(d)'
    <3>1. dir.target \notin proven => Behind(d)' BY <2>0, <2>9, <2>10 DEF Outside, Behind
    <3>2. Risky(d)' => Risky(dir) \/ dir.target \notin proven BY <2>0, <2>1, <2>6 DEF Risky
    <3>3. QED BY <2>0, <2>1, <2>9, <2>10, <3>1, <3>2 DEF Stocked
  <2>12. Backed' BY <2>0, <2>2, <2>6, <2>7, <2>8, <2>11, Puts
  <2>13. Spare' BY <2>0, <2>1, <2>2, <2>9, <2>10 DEF Spare, Outside
  <2>14. Phases' BY <2>n, <2>0, <2>1, <2>2, <2>3, <2>4, OneRun DEF Phases, At, Written, Copied, Follows, Locked
  <2>15. WhileOn'
    <3>1. power = "on" => dir.target \in proven BY <2>4 DEF WhileOn
    <3>2. QED BY <1>2, <2>n, <2>0, <2>1, <2>2, <2>3, <2>4, <3>1, OneRun DEF WhileOn, Follows, Copied
  <2>16. QED BY <2>5, <2>12, <2>13, <2>14, <2>15
<1>3. QED BY <1>1, <1>2 DEF Link

-----------------------------------------------------------------------------
\* What a directory looks like without a name.
LEMMA Unlinked ==
  ASSUME NEW d, NEW b, NEW files, DOMAIN d = {"target", "backups"}, d.target \in files,
         DOMAIN d.backups \subseteq files, \A x \in DOMAIN d.backups : d.backups[x] \in files
  PROVE  /\ DOMAIN Unlink(d, b) = {"target", "backups"} /\ Unlink(d, b).target = d.target
         /\ DOMAIN Unlink(d, b).backups = DOMAIN d.backups \ {b}
         /\ \A x \in DOMAIN d.backups \ {b} : Unlink(d, b).backups[x] = d.backups[x]
BY DEF Unlink

\* A journal is a record.
LEMMA JournalOfType ==
  ASSUME InstallInv, NEW p \in Proc, proc[p].pc \in Copied
  PROVE  /\ JournalOf(p) \in JournalType /\ JournalOf(p) # NoJournal
         /\ JournalOf(p).backup = proc[p].new /\ JournalOf(p).orig = proc[p].orig
         /\ JournalOf(p).stage = proc[p].stage /\ proc[p].new \in Inodes
<1> USE DEF InstallInv
<1>1. proc[p].new # 0 /\ proc[p].pc \in Locked BY DEF Phases, At, Copied
<1>2. JournalOf(p) \in JournalType /\ proc[p].new \in Inodes
  BY <1>1, OneRun DEF JournalOf, JournalType
<1>3. Inodes \subseteq Nat BY DEF Inodes
<1>4. JournalOf(p) \in [stage : Staged, backup : Nat, orig : Nat] BY <1>2, <1>3 DEF JournalType
<1>5. QED BY <1>2, <1>4, InstallAssumption DEF JournalOf

\* While the target is what it was before, the run may take its backup away and
\* write or remove its journal.
LEMMA Removes ==
  ASSUME InstallInv, NEW p \in Proc, Follows(p), At(p)', NEW d, d \in {dir, Unlink(dir, proc[p].new)},
         proc[p].pc \in Reversed \ {"copy", "link"}, proc'[p].pc # "link",
         proc'[p].pc \in Copied => proc'[p].new = proc[p].new /\ proc'[p].orig = proc[p].orig,
         dir' = d, dirs' = dirs \cup {d}, UNCHANGED <<file, proven, power>>,
         journals' \subseteq journals \cup {JournalOf(p), NoJournal}, journal' \in journals',
         journal' \in {journal, JournalOf(p), NoJournal},
         NoJournal \in journals' \/ \A j \in journals' : j = journal'
  PROVE  InstallInv'
<1> USE Facts DEF InstallInv, Follows
<1>0. proc[p].pc \in Copied /\ proc[p].pc \in Reversed /\ proc[p].pc \in Locked /\ Inodes' = Inodes
  BY DEF Copied, Locked, Reversed, Inodes
<1>1. /\ DOMAIN d = {"target", "backups"} /\ d.target = dir.target /\ DOMAIN d.backups \subseteq DOMAIN dir.backups
      /\ (\A b \in DOMAIN d.backups : d.backups[b] = dir.backups[b])
      /\ \A b \in DOMAIN dir.backups : b # proc[p].new => b \in DOMAIN d.backups
  BY Unlinked DEF Shapes, Directory
<1>2. JournalOf(p) \in JournalType /\ JournalOf(p) # NoJournal /\ JournalOf(p).backup = proc[p].new
      /\ JournalOf(p).orig = proc[p].orig /\ proc[p].new \in Inodes
  BY <1>0, JournalOfType
<1>3. \A q \in Proc : q # p => proc[q].pc \notin Locked /\ proc'[q] = proc[q] BY <1>0, OneRun
<1>4. Shapes'
  <2>1. Directory(d) BY <1>1 DEF Shapes, Directory
  <2>2. QED BY <1>0, <1>2, <2>1, Processes DEF Shapes, Directory, JournalType
<1>5. Names' \subseteq Names /\ proc[p].new \in Names BY <1>0, <1>2, <1>3 DEF Names, PastCopy, Copied
<1>6. \A e \in dirs \cup {d} : Known(e)'
  <2> SUFFICES ASSUME NEW e \in dirs \cup {d} PROVE Known(e)' OBVIOUS
  <2>1. /\ \A j \in journals \ {NoJournal} : j.backup \in DOMAIN e.backups => e.backups[j.backup] = j.orig
        /\ proc[p].new \in DOMAIN e.backups => e.backups[proc[p].new] = proc[p].orig
    BY <1>0, <1>1 DEF Backed, Known, PastCopy
  <2>2. \A j \in journals' \ {NoJournal} : j.backup \in DOMAIN e.backups => e.backups[j.backup] = j.orig
    BY <1>2, <2>1
  <2>3. QED BY <1>3, <2>1, <2>2 DEF Known, PastCopy, Copied, Locked
<1>7. Outside(dir) => Outside(d)' BY <1>1, <1>5 DEF Outside
<1>8. dir.target \notin proven => Outside(dir) BY <1>0 DEF Spare
<1>9. Stocked(d)'
  <2>1. Risky(d)' => Risky(dir) BY <1>1, <1>5 DEF Risky
  <2>2. Outside(d)' => Behind(d)' BY DEF Outside, Behind
  <2>3. QED BY <1>1, <1>7, <1>8, <2>1, <2>2 DEF Stocked
<1>10. Backed' BY <1>5, <1>6, <1>9, Puts
<1>11. Spare' BY <1>1, <1>7, <1>8 DEF Spare, Outside
<1>12. Phases' BY <1>3 DEF Phases, At, Written, Copied, Locked
<1>13. WhileOn'
  <2>1. power = "on" => dir.target \in proven /\ proc[p].orig \in proven BY <1>0 DEF WhileOn
  <2>2. power = "on" /\ journal' # NoJournal => journal'.orig \in proven BY <1>2, <2>1 DEF WhileOn
  <2>3. QED BY <1>1, <1>3, <2>1, <2>2 DEF WhileOn, Copied, Locked, Reversed
<1>14. QED BY <1>4, <1>10, <1>11, <1>12, <1>13

LEMMA RemoveSafe ==
  ASSUME InstallInv, NEW p \in Proc, WriteJournal(p) \/ Clean(p) \/ DropJournal(p), UNCHANGED power
  PROVE  InstallInv'
<1> USE Facts DEF InstallInv
<1>0. proc[p].pc \in Reversed \ {"copy", "link"} /\ proc[p].pc \in Copied /\ proc[p].pc \in Locked /\ At(p)
      /\ Inodes' = Inodes /\ dirs = dirs \cup {dir}
  BY DEF Reversed, Copied, Locked, WriteJournal, Clean, DropJournal, Phases, Inodes
<1>1. CASE WriteJournal(p)
  <2>1. Follows(p) /\ proc'[p].pc = "rename" /\ proc'[p].new = proc[p].new /\ proc'[p].orig = proc[p].orig
        /\ proc'[p].stage = proc[p].stage
    BY <1>0, <1>1, Goes DEF Follows, WriteJournal, Locked
  <2>2. JournalOf(p)' = JournalOf(p) /\ JournalOf(p) # NoJournal BY <1>0, <2>1, JournalOfType DEF JournalOf
  <2>3. At(p)' BY <1>0, <1>1, <2>1, <2>2 DEF At, WriteJournal, Written, Copied
  <2>4. QED BY <1>0, <1>1, <2>1, <2>3, Removes DEF WriteJournal
<1>2. CASE Clean(p)
  <2>1. Follows(p) /\ proc'[p].pc = "cleansync" /\ proc'[p].new = proc[p].new /\ proc'[p].orig = proc[p].orig
        /\ proc'[p].stage = proc[p].stage
    BY <1>0, <1>2, Goes DEF Follows, Clean, Locked
  <2>2. At(p)' BY <1>0, <1>2, <2>1 DEF At, Clean, JournalOf, Written, Copied
  <2>3. NoJournal \in journals \/ \A j \in journals : j = journal BY DEF Phases
  <2>4. PICK d : d = Unlink(dir, proc[p].new) OBVIOUS
  <2>5. dir' = d /\ dirs' = dirs \cup {d} BY <1>2, <2>4 DEF Clean, Put
  <2>6. QED BY <1>0, <1>2, <2>1, <2>2, <2>3, <2>4, <2>5, Removes DEF Clean
<1>3. CASE DropJournal(p)
  <2>1. Follows(p) /\ proc'[p].pc = "idle" BY <1>0, <1>3, Ends DEF Follows, DropJournal
  <2>2. At(p)' BY <2>1 DEF At, Written, Copied, Locked
  <2>3. QED BY <1>0, <1>3, <2>1, <2>2, Removes DEF DropJournal, Copied, Locked
<1>4. QED BY <1>1, <1>2, <1>3

-----------------------------------------------------------------------------
\* The payload is installed while its journal and its backup are there.
LEMMA RenameSafe ==
  ASSUME InstallInv, NEW p \in Proc, Rename(p), UNCHANGED power
  PROVE  InstallInv'
<1> USE Facts DEF InstallInv
<1>d. PICK d : d = [dir EXCEPT !.target = proc[p].new] OBVIOUS
<1>0. proc[p].pc = "rename" /\ proc[p].pc \in Copied /\ proc[p].pc \in Locked /\ At(p) /\ Inodes' = Inodes
      /\ dir' = d /\ dirs' = dirs \cup {d} /\ UNCHANGED <<file, journal, journals, lock, proven, power>>
  BY <1>d DEF Copied, Locked, Rename, Put, Phases, Inodes
<1>1. Follows(p) /\ proc'[p].pc = "sync" /\ proc'[p].new = proc[p].new /\ proc'[p].orig = proc[p].orig
      /\ proc'[p].stage = proc[p].stage
  BY <1>0, Goes DEF Follows, Rename, Locked
<1>2. DOMAIN d = {"target", "backups"} /\ d.target = proc[p].new /\ d.backups = dir.backups
  BY <1>d DEF Shapes, Directory
<1>3. /\ journal = JournalOf(p) /\ journal \in JournalType /\ journal # NoJournal
      /\ journal.backup = proc[p].new /\ journal.stage = proc[p].stage /\ proc[p].new \in Inodes
      /\ NoJournal \notin journals /\ proc[p].new \in DOMAIN dir.backups /\ file[proc[p].new] = proc[p].stage
  BY <1>0, JournalOfType DEF At, Written
<1>4. \A q \in Proc : q # p => proc[q].pc \notin Locked /\ proc'[q] = proc[q] BY <1>0, <1>1, OneRun DEF Follows
<1>5. Shapes'
  <2>1. Directory(d) BY <1>2, <1>3 DEF Shapes, Directory
  <2>2. QED BY <1>0, <1>1, <2>1, Processes DEF Shapes, Follows, Directory, JournalType
<1>6. Names' = Names /\ proc[p].new \in Names BY <1>0, <1>1, <1>4 DEF Names, PastCopy, Copied, Locked
<1>7. \A e \in dirs : Known(e)' BY <1>0, <1>1, <1>4 DEF Backed, Known, PastCopy, Copied, Locked
<1>8. Known(d)' BY <1>0, <1>1, <1>2, <1>4 DEF Known, PastCopy, Copied, Locked
<1>9. Stocked(d)'
  <2>1. dir.backups[proc[p].new] = proc[p].orig BY <1>0, <1>3 DEF Known, PastCopy
  <2>2. proc[p].orig \notin proven => Risky(dir) BY <1>3, <1>6, <2>1 DEF Risky
  <2>3. Behind(dir) BY <1>3, <2>1, <2>2 DEF Stocked, Outside, Behind
  <2>4. QED BY <1>0, <1>2, <1>6, <2>3 DEF Stocked, Outside, Behind, Risky
<1>10. Backed' BY <1>0, <1>6, <1>7, <1>8, <1>9, Puts
<1>11. Spare' BY <1>0, <1>1, <1>3, <1>4 DEF Spare, Reversed, Locked
<1>12. Phases' BY <1>0, <1>1, <1>3, <1>4 DEF Phases, At, Written, Copied, Locked, JournalOf
<1>13. WhileOn'
  <2>1. power = "on" => proc[p].orig \in proven BY <1>0 DEF WhileOn, Copied
  <2>2. QED BY <1>0, <1>1, <1>2, <1>3, <1>4, <2>1 DEF WhileOn, Reversed, Copied, Locked
<1>14. QED BY <1>5, <1>10, <1>11, <1>12, <1>13

\* What is rolled back to may be as little proven as the payload; something
\* proven is then beside it under another name.
LEMMA RollbackSafe ==
  ASSUME InstallInv, NEW p \in Proc, Rollback(p), UNCHANGED power
  PROVE  InstallInv'
<1> USE Facts DEF InstallInv
<1>c. PICK c : c = [dir EXCEPT !.target = dir.backups[proc[p].new]] OBVIOUS
<1>d. PICK d : d = Unlink(c, proc[p].new) OBVIOUS
<1>0. proc[p].pc = "rollback" /\ proc[p].pc \in Copied /\ proc[p].pc \in Locked /\ At(p) /\ Inodes' = Inodes
      /\ dir' = d /\ dirs' = dirs \cup {d} /\ UNCHANGED <<file, journal, journals, lock, proven, power>>
      /\ proc[p].new \in DOMAIN dir.backups
  BY <1>c, <1>d DEF Copied, Locked, Rollback, Put, Phases, Inodes, BackupPresent
<1>1. Follows(p) /\ proc'[p].pc = "rollsync" /\ proc'[p].new = proc[p].new /\ proc'[p].orig = proc[p].orig
      /\ proc'[p].stage = proc[p].stage
  BY <1>0, Goes DEF Follows, Rollback, Locked
<1>2. DOMAIN c = {"target", "backups"} /\ c.target = dir.backups[proc[p].new] /\ c.backups = dir.backups
  BY <1>c DEF Shapes, Directory
<1>3. /\ DOMAIN d = {"target", "backups"} /\ d.target = dir.backups[proc[p].new]
      /\ DOMAIN d.backups = DOMAIN dir.backups \ {proc[p].new}
      /\ \A b \in DOMAIN d.backups : d.backups[b] = dir.backups[b]
  BY <1>0, <1>2, <1>d, Unlinked DEF Shapes, Directory
<1>4. \A q \in Proc : q # p => proc[q].pc \notin Locked /\ proc'[q] = proc[q] BY <1>0, <1>1, OneRun DEF Follows
<1>5. Shapes'
  <2>1. Directory(d) BY <1>0, <1>3 DEF Shapes, Directory
  <2>2. QED BY <1>0, <1>1, <2>1, Processes DEF Shapes, Follows, Directory, JournalType
<1>6. Names' = Names /\ proc[p].new \in Names BY <1>0, <1>1, <1>4 DEF Names, PastCopy, Copied, Locked
<1>7. \A e \in dirs : Known(e)' BY <1>0, <1>1, <1>4 DEF Backed, Known, PastCopy, Copied, Locked
<1>8. Known(d)' BY <1>0, <1>1, <1>3, <1>4 DEF Known, PastCopy, Copied, Locked
<1>9. Outside(dir) => Outside(d)' BY <1>0, <1>3, <1>6 DEF Outside
<1>10. d.target \notin proven => Outside(d)' BY <1>0, <1>3, <1>6, <1>9 DEF Stocked, Risky
<1>11. Stocked(d)'
  <2>1. Risky(d)' => Risky(dir) BY <1>0, <1>3, <1>6 DEF Risky
  <2>2. Outside(d)' => Behind(d)' BY DEF Outside, Behind
  <2>3. QED BY <1>0, <1>9, <1>10, <2>1, <2>2 DEF Stocked
<1>12. Backed' BY <1>0, <1>6, <1>7, <1>8, <1>11, Puts
<1>13. Spare' BY <1>0, <1>10 DEF Spare, Outside
<1>14. Phases' BY <1>0, <1>1, <1>4 DEF Phases, At, Written, Copied, Locked, JournalOf
<1>15. WhileOn'
  <2>1. dir.backups[proc[p].new] = proc[p].orig BY <1>0 DEF Known, PastCopy
  <2>2. power = "on" => proc[p].orig \in proven BY <1>0 DEF WhileOn, Copied
  <2>3. QED BY <1>0, <1>1, <1>3, <1>4, <2>1, <2>2 DEF WhileOn, Copied, Locked
<1>16. QED BY <1>5, <1>12, <1>13, <1>14, <1>15
-----------------------------------------------------------------------------
LEMMA FailSafe ==
  ASSUME InstallInv, NEW p \in Proc, Fail(p), UNCHANGED power
  PROVE  InstallInv'
<1> USE Facts DEF InstallInv
<1>0. UNCHANGED <<file, proven>> /\ Inodes' = Inodes /\ dirs = dirs \cup {dir} /\ At(p)
      /\ (NoJournal \in journals \/ \A j \in journals : j = journal)
  BY DEF Fail, Inodes, Phases
<1>1. CASE Keeping(p) /\ SameJournal /\ End(p)
  BY <1>0, <1>1, Released DEF Keeping, SameJournal, directories
<1>2. CASE /\ proc[p].pc = "journal" /\ BestEffort(p) /\ End(p)
           /\ SameJournal \/ (journal' = JournalOf(p) /\ journals' = journals \cup {journal'})
  <2>1. PICK d \in {dir, Unlink(dir, proc[p].new)} : dir' = d /\ dirs' = dirs \cup {d}
    BY <1>0, <1>2 DEF BestEffort, Keeping, Put
  <2>2. Follows(p) /\ proc'[p].pc = "idle" BY <1>0, <1>2, Ends DEF Follows
  <2>3. At(p)' BY <2>2 DEF At, Written, Copied, Locked
  <2>4. NoJournal \in journals BY <1>0, <1>2 DEF At
  <2>5. proc[p].pc \in Reversed \ {"copy", "link"} BY <1>2 DEF Reversed
  <2>6. journals' \subseteq journals \cup {JournalOf(p), NoJournal} /\ journal' \in journals'
        /\ journal' \in {journal, JournalOf(p), NoJournal} /\ NoJournal \in journals'
    BY <1>2, <2>4 DEF SameJournal
  <2>7. QED BY <1>0, <2>1, <2>2, <2>3, <2>5, <2>6, Removes DEF Copied, Locked
<1>3. CASE proc[p].pc = "rename" /\ BestEffort(p) /\ SameJournal /\ Goto(p, "drop") /\ UNCHANGED lock
  <2>1. PICK d \in {dir, Unlink(dir, proc[p].new)} : dir' = d /\ dirs' = dirs \cup {d}
    BY <1>0, <1>3 DEF BestEffort, Keeping, Put
  <2>2. Follows(p) /\ proc'[p].pc = "drop" /\ proc'[p].new = proc[p].new /\ proc'[p].orig = proc[p].orig
        /\ proc'[p].stage = proc[p].stage
    BY <1>0, <1>3, Goes DEF Follows, Locked
  <2>3. At(p)' BY <1>0, <1>3, <2>2 DEF At, SameJournal, JournalOf, Written, Copied, Locked
  <2>4. proc[p].pc \in Reversed \ {"copy", "link"} BY <1>3 DEF Reversed
  <2>5. QED BY <1>0, <1>3, <2>1, <2>2, <2>3, <2>4, Removes DEF SameJournal
<1>4. CASE proc[p].pc = "sync" /\ Keeping(p) /\ SameJournal /\ Goto(p, "rollback") /\ UNCHANGED lock
  <2>1. "rollback" \in Written /\ "rollback" \in Copied /\ proc[p].pc \in Copied /\ proc[p].pc \in Written
        /\ "rollback" \notin Reversed
    BY <1>4 DEF Written, Copied, Locked, Reversed
  <2>2. journal = JournalOf(p) BY <1>0, <2>1 DEF At
  <2>3. QED BY <1>0, <1>4, <2>1, <2>2, GoesOn DEF Keeping, SameJournal
<1>5. CASE /\ proc[p].pc = "drop" /\ Keeping(p) /\ End(p)
           /\ SameJournal \/ (journal' = NoJournal /\ journals' = journals \cup {NoJournal})
  <2>1. Follows(p) /\ proc'[p].pc = "idle" BY <1>0, <1>5, Ends DEF Follows
  <2>2. At(p)' BY <2>1 DEF At, Written, Copied, Locked
  <2>3. proc[p].pc \in Reversed \ {"copy", "link"} BY <1>5 DEF Reversed
  <2>4. QED BY <1>0, <1>5, <2>1, <2>2, <2>3, Removes DEF Keeping, SameJournal, Copied, Locked
<1>6. QED BY <1>1, <1>2, <1>3, <1>4, <1>5 DEF Fail

\* After the power went, a directory and a journal of those that may be found,
\* and nobody at work.
LEMMA PowerSafe ==
  ASSUME InstallInv, PowerFailure, power = "fails", UNCHANGED power
  PROVE  InstallInv'
<1> USE Facts DEF InstallInv
<1>0. PICK d \in dirs, j \in journals : dir' = d /\ dirs' = {d} /\ journal' = j /\ journals' = {j}
  BY DEF PowerFailure
<1>1. UNCHANGED <<file, proven>> /\ Inodes' = Inodes /\ lock' = Free /\ DOMAIN proc' = Proc
      /\ \A q \in Proc : proc'[q] = NoRun /\ proc'[q].pc = "idle"
  BY DEF PowerFailure, Inodes, NoRun
<1>2. \A q \in Proc : proc'[q].pc \notin Locked /\ proc'[q].pc # "link" /\ ~PastCopy(q)'
      /\ proc'[q].pc \notin Reversed /\ proc'[q].pc \notin Copied
  BY <1>1 DEF Locked, PastCopy, Copied, Reversed
<1>3. Shapes' BY <1>0, <1>1, <1>2, InstallAssumption DEF Shapes, Process, Directory, JournalType
<1>4. Names' = {i.backup : i \in {j} \ {NoJournal}} BY <1>0, <1>2 DEF Names
<1>5. Names' \subseteq Names BY <1>0, <1>4 DEF Names
<1>6. Known(d) /\ Stocked(d) BY DEF Backed
<1>7. Stocked(d)' BY <1>1, <1>5, <1>6, StillStocked
<1>8. Known(d)' BY <1>0, <1>2, <1>6 DEF Known
<1>9. Backed' BY <1>0, <1>7, <1>8 DEF Backed
<1>10. Spare'
  <2>1. CASE j = NoJournal BY <1>0, <1>1, <1>2, <1>4, <1>7, <2>1 DEF Spare, Stocked, Behind, Outside
  <2>2. CASE j # NoJournal BY <1>0, <1>2, <2>2 DEF Spare
  <2>3. QED BY <2>1, <2>2
<1>11. Phases' BY <1>0, <1>1, <1>2 DEF Phases, At, Written, Copied, Locked
<1>12. WhileOn' BY DEF WhileOn
<1>13. QED BY <1>3, <1>9, <1>10, <1>11, <1>12

LEMMA InstallSafe ==
  ASSUME InstallInv, NEW s \in Staged \cup {Foreign}, Install(s), UNCHANGED power
  PROVE  InstallInv'
<1> USE Facts DEF InstallInv
<1>n. PICK n : n = Len(file) + 1 OBVIOUS
<1>d. PICK d : d = [dir EXCEPT !.target = n] OBVIOUS
<1>0. UNCHANGED <<journal, journals, lock, proc>> /\ dir' = d /\ dirs' = dirs \cup {d}
      /\ proven' = proven \cup {n} /\ file' = Append(file, s)
  BY <1>n, <1>d DEF Install, Put
<1>1. Inodes' = 1..n /\ Inodes \subseteq Inodes' /\ n \in Inodes' /\ n \notin Inodes
      /\ file' \in Seq(Staged \cup {Foreign}) /\ Inodes' = Inodes \cup {n}
      /\ (\A i \in Inodes : file'[i] = file[i])
  BY <1>0, <1>n DEF Inodes, Shapes
<1>2. DOMAIN d = {"target", "backups"} /\ d.target = n /\ d.backups = dir.backups
  BY <1>d DEF Shapes, Directory
<1>3. Shapes'
  <2>1. \A e \in dirs \cup {d} : Directory(e)' BY <1>1, <1>2 DEF Shapes, Directory
  <2>2. \A q \in Proc : Process(proc[q], Inodes') BY <1>1 DEF Shapes, Process
  <2>3. journals \subseteq (JournalType \cup {NoJournal})' BY <1>1 DEF Shapes, JournalType
  <2>4. QED BY <1>0, <1>1, <2>1, <2>2, <2>3 DEF Shapes
<1>4. Names' = Names BY <1>0 DEF Names, PastCopy
<1>5. \A e \in dirs \cup {d} : Known(e)' BY <1>0, <1>2 DEF Backed, Known, PastCopy
<1>6. Stocked(d)' BY <1>0, <1>2, <1>4 DEF Stocked, Outside, Behind, Risky
<1>7. Backed' BY <1>0, <1>4, <1>5, <1>6, Puts
<1>8. Spare' BY <1>0, <1>2 DEF Spare
<1>9. Phases'
  <2>1. \A q \in Proc : proc[q].pc \in Copied => proc[q].new \in Inodes
    BY OneRun DEF Phases, At, Copied
  <2>2. QED BY <1>0, <1>1, <1>2, <2>1 DEF Phases, At, JournalOf, Copied, Locked
<1>10. WhileOn' BY <1>0, <1>2 DEF WhileOn
<1>11. QED BY <1>3, <1>7, <1>8, <1>9, <1>10
-----------------------------------------------------------------------------
LEMMA InstallStep == InstallInv /\ [InstallNext]_<<installvars, power>> => InstallInv'
<1> SUFFICES ASSUME InstallInv, [InstallNext]_<<installvars, power>> PROVE InstallInv' OBVIOUS
<1>1. CASE UNCHANGED <<installvars, power>>
  BY <1>1 DEF InstallInv, Shapes, Backed, Spare, Phases, WhileOn, installvars, directories, Inodes, JournalType,
     Directory, Process, Known, Stocked, Behind, Risky, Outside, Names, PastCopy, At, JournalOf
<1>2. ASSUME NEW p \in Proc, NEW s \in Staged, NEW what \in {"apply", "recover"},
             BeginRun(p, s, what), UNCHANGED power
      PROVE  InstallInv'
  BY <1>2, BeginSafe
<1>3. ASSUME NEW p \in Proc, RunStep(p), UNCHANGED power PROVE InstallInv'
  BY <1>3, LockSafe, CopySafe, LinkSafe, RemoveSafe, RenameSafe, SyncSafe, SmokeSafe, RollbackSafe,
     InspectSafe DEF RunStep
<1>4. ASSUME NEW p \in Proc, Fail(p) \/ Kill(p), UNCHANGED power PROVE InstallInv'
  BY <1>4, FailSafe, Released DEF Kill
<1>5. ASSUME NEW s \in Staged \cup {Foreign}, Install(s), UNCHANGED power PROVE InstallInv'
  BY <1>5, InstallSafe
<1>6. CASE power = "fails" /\ PowerFailure /\ UNCHANGED power BY <1>6, PowerSafe
<1>7. QED BY <1>1, <1>2, <1>3, <1>4, <1>5, <1>6 DEF InstallNext, Powered

\* For any number of processes, payloads, files and failures, whatever fails and
\* whenever the power goes: an installed binary that has not passed a smoke test
\* has a proven one beside it, and as long as the power stays on a journal that
\* names the binary it replaced (apply and recover, Linux,
\* crates/ptrack-updater/src/installer.rs).
THEOREM BackupIsKept == InstallSpec => []BackupKept
<1>1. InstallSpec => []InstallInv BY InstallStarts, InstallStep, PTL DEF InstallSpec
<1>2. QED BY <1>1, Kept, PTL

\* As long as the power is on, no unproven binary stays installed without a
\* journal to recover from, whatever is killed or fails.
THEOREM NothingUnprovenStays == InstallSpec => [](power = "on" => KeptIsProven)
<1>1. BackupKept => (power = "on" => KeptIsProven) BY DEF BackupKept, Restorable, KeptIsProven
<1>2. QED BY <1>1, BackupIsKept, PTL

\* The files, names and inodes are what they should be, what is in memory may be
\* found after a power failure, and only who has the lock is past it.
THEOREM InstallTypeCorrect == InstallSpec => []TypeOK
<1>1. InstallInv => TypeOK
  <2>1. ASSUME InstallInv, NEW p \in Proc
        PROVE  proc[p].pc \in Locked <=> proc[p].pc \notin {"idle", "apply", "recover"}
    <3>1. proc[p] = NoRun \/ proc[p].pc \in Locked \cup {"apply", "recover"}
      BY <2>1 DEF InstallInv, Shapes, Process
    <3>2. QED BY <3>1 DEF NoRun, Locked
  <2>2. DOMAIN file = Inodes BY DEF InstallInv, Shapes, Inodes
  <2>3. QED BY <2>1, <2>2 DEF TypeOK, InstallInv, Shapes, Directory
<1>2. InstallSpec => []InstallInv BY InstallStarts, InstallStep, PTL DEF InstallSpec
<1>3. QED BY <1>1, <1>2, PTL
=============================================================================
