--------------------------- MODULE UpdateRuntime ---------------------------
(***************************************************************************)
(* The update service of a running desktop: one operation at a time out of *)
(* check, download and apply, asked for by concurrent calls and by the     *)
(* automatic check, canceled by a call, by opting out or by a shutdown;    *)
(* and the staged updates it leaves on disk for the next start, which       *)
(* recovers, adopts and discards them.                                     *)
(*                                                                         *)
(* Versions are numbers, 1 the one first installed.  Replacing the binary  *)
(* is UpdateInstall: here an apply installs, is canceled or fails, and may *)
(* leave its journal pending.                                              *)
(***************************************************************************)
EXTENDS Integers, FiniteSets

CONSTANTS
  Calls,      \* the calls of the user interface that may be under way
  AutoCheck,  \* the thread of the automatic check
  None,
  MaxVersion, MaxOp, MaxStart, \* bounds: releases, operations, starts
  MaxStages   \* how many stages a start accepts (64 in the code)

Threads == Calls \cup {AutoCheck}

ASSUME UpdateAssumption ==
  /\ AutoCheck \notin Calls /\ MaxVersion \in Nat \ {0} /\ MaxOp \in Nat /\ MaxStart \in Nat
  /\ MaxStages \in Nat

VARIABLES
  svc,       \* the service's RuntimeState
  th,        \* what each thread is at
  preflock,  \* who holds preference_lock
  stopping,  \* the shutdown: "no", "waiting", "stopped"
  preference,\* the durable opt-in
  stages,    \* the stage directories: the version, whether it is
             \* whole, and else the start that began it
  pending,   \* the version whose replacement was interrupted, 0: none
  installed, \* the version of the installed binary
  starts

disk == <<preference, stages, pending, installed>>
vars == <<svc, th, preflock, stopping, disk, starts>>

Versions == 1..MaxVersion
Whole(v) == [v |-> v, whole |-> TRUE, from |-> 0]
Part(v) == [v |-> v, whole |-> FALSE, from |-> starts]
Idle == [pc |-> "idle", what |-> "none", v |-> 0, op |-> 0, cut |-> FALSE]
Down == [up |-> FALSE, phase |-> "down", current |-> 0, auto |-> FALSE, candidate |-> 0,
         stage |-> 0, active |-> FALSE, automatic |-> FALSE, operation |-> 0, token |-> FALSE,
         blocked |-> FALSE, down |-> FALSE]

Init ==
  /\ svc = Down /\ th = [t \in Threads |-> Idle] /\ preflock = None /\ stopping = "no"
  /\ preference \in BOOLEAN /\ stages = {} /\ pending = 0 /\ installed = 1 /\ starts = 0
-----------------------------------------------------------------------------
(* Starting *)

\* The stages that load: a record written and an intact package.
Loaded == {s \in stages : s.whole}
Valid(v) == Whole(v) \in stages
Best(found) == LET newer == {s.v : s \in found} \cap (installed + 1)..MaxVersion IN
  IF newer = {} THEN 0 ELSE CHOOSE v \in newer : \A w \in newer : w <= v

\* A replacement that was interrupted ends with one or the other version, or
\* needs the user.
Recovered(v) ==
  \/ pending' = 0 /\ installed' \in {installed, v}
  \/ UNCHANGED <<pending, installed>>

Discarding(best) == stages \ {s \in Loaded : s.v # best}

\* scan_stages: the whole stages are recovered and all but the best, which is
\* newer than what runs, are discarded; a stage that is not whole is left alone.
Started(auto, best, blocked) ==
  [Down EXCEPT !.up = TRUE, !.current = installed, !.auto = auto, !.stage = best, !.blocked = blocked,
               !.phase = IF blocked THEN "recovery" ELSE IF best = 0 THEN "idle" ELSE "ready"]
Scan(auto) ==
  IF Cardinality(stages) > MaxStages
  THEN svc' = Started(auto, 0, TRUE) /\ UNCHANGED <<stages, pending, installed>>
  ELSE /\ IF Valid(pending) THEN Recovered(pending) ELSE UNCHANGED <<pending, installed>>
       /\ LET best == IF pending' # 0 THEN 0 ELSE Best(Loaded) IN
          /\ stages' = IF pending' # 0 THEN stages ELSE Discarding(best)
          /\ svc' = Started(auto, best, pending' # 0)

\* The service starts before any call is taken; then the automatic check, if
\* the user opted in, as far as that can be read, and nothing is ready.
Start ==
  /\ ~svc.up /\ starts < MaxStart /\ starts' = starts + 1
  /\ \E auto \in {preference, FALSE} : Scan(auto)
  /\ th' = [t \in Threads |->
              IF t = AutoCheck /\ svc'.auto /\ ~svc'.blocked /\ svc'.stage = 0
              THEN [Idle EXCEPT !.pc = "auto"] ELSE Idle]
  /\ stopping' = "no" /\ preflock' = None
  /\ UNCHANGED preference
-----------------------------------------------------------------------------
(* The operations *)

\* A call is taken unless the desktop is shutting down.
Taken(t) == svc.up /\ t \in Calls /\ th[t].pc = "idle" /\ stopping = "no"
Asked(t, what, v) == th' = [th EXCEPT ![t] = [Idle EXCEPT !.pc = "begin", !.what = what, !.v = v]]
Done(t) == th' = [th EXCEPT ![t] = Idle]

CheckAsk(t) ==
  /\ Taken(t) /\ svc.stage = 0
  /\ Asked(t, "check", 0)
  /\ UNCHANGED <<svc, preflock, stopping, disk, starts>>

\* The automatic check holds the preference until it has begun.
AutoLock ==
  /\ th[AutoCheck].pc = "auto" /\ preflock = None
  /\ preflock' = AutoCheck
  /\ th' = [th EXCEPT ![AutoCheck].pc = "ask"]
  /\ UNCHANGED <<svc, stopping, disk, starts>>
AutoAsk ==
  /\ th[AutoCheck].pc = "ask"
  /\ IF svc.stage = 0
     THEN Asked(AutoCheck, "check", 0) /\ UNCHANGED preflock
     ELSE Done(AutoCheck) /\ preflock' = None
  /\ UNCHANGED <<svc, stopping, disk, starts>>

DownloadAsk(t, v) ==
  /\ Taken(t) /\ svc.candidate = v
  /\ Asked(t, "download", v)
  /\ UNCHANGED <<svc, preflock, stopping, disk, starts>>

ApplyAsk(t, v) ==
  /\ Taken(t) /\ svc.stage = v
  /\ Asked(t, "apply", v)
  /\ UNCHANGED <<svc, preflock, stopping, disk, starts>>

MayBeginStale(t) ==
  /\ ~svc.down /\ ~svc.blocked /\ ~svc.active
  /\ t = AutoCheck => svc.auto
\* begin_guarded: a download looks again whether it is still of the candidate.
MayBegin(t) ==
  /\ ~svc.down /\ ~svc.blocked /\ ~svc.active
  /\ t = AutoCheck => svc.auto
  /\ th[t].what = "download" => svc.candidate = th[t].v

Active(t) ==
  [svc EXCEPT !.active = TRUE, !.automatic = (t = AutoCheck), !.token = TRUE,
              !.operation = @ + 1, !.phase = th[t].what]
BeginUnsettled(t) ==
  /\ th[t].pc = "begin" /\ svc.operation < MaxOp
  /\ preflock' = IF preflock = t THEN None ELSE preflock
  /\ IF MayBeginStale(t)
     THEN /\ svc' = Active(t)
          /\ IF MayBegin(t) THEN th' = [th EXCEPT ![t].pc = "run", ![t].op = svc'.operation] ELSE Done(t)
     ELSE UNCHANGED svc /\ Done(t)
  /\ UNCHANGED <<stopping, disk, starts>>
Begin(t) ==
  /\ th[t].pc = "begin" /\ svc.operation < MaxOp
  /\ preflock' = IF preflock = t THEN None ELSE preflock
  /\ IF MayBegin(t)
     THEN /\ svc' = Active(t)
          /\ th' = [th EXCEPT ![t].pc = "run", ![t].op = svc'.operation]
     ELSE UNCHANGED svc /\ Done(t)
  /\ UNCHANGED <<stopping, disk, starts>>

\* A download makes its stage, and writes its record last; what was not
\* finished is removed by the one who made it.
Stage(t) ==
  /\ th[t].pc = "run" /\ th[t].what = "download"
  /\ stages' = stages \cup {Part(th[t].v)}
  /\ th' = [th EXCEPT ![t].pc = "staging"]
  /\ UNCHANGED <<svc, preflock, stopping, preference, pending, installed, starts>>

\* settle_operation, and restore_phase after a cancelation.
Settled(s) == [s EXCEPT !.active = FALSE, !.automatic = FALSE, !.token = FALSE]
Ended(t, s) ==
  /\ svc' = IF svc.operation = th[t].op THEN Settled(s) ELSE svc
  /\ Done(t)
  /\ UNCHANGED <<preflock, stopping, preference, starts>>
Restored(s) ==
  [s EXCEPT !.phase = IF s.stage # 0 THEN "ready" ELSE IF s.candidate # 0 THEN "available" ELSE "idle"]

CheckEnds(t) ==
  /\ th[t].pc = "run" /\ th[t].what = "check"
  /\ \/ \E v \in (svc.current + 1)..MaxVersion : Ended(t, [svc EXCEPT !.phase = "available", !.candidate = v])
     \/ Ended(t, [svc EXCEPT !.phase = "current", !.candidate = 0])
     \/ Ended(t, [svc EXCEPT !.phase = "error", !.candidate = 0])
     \/ th[t].cut /\ Ended(t, Restored(svc))
  /\ UNCHANGED <<stages, pending, installed>>

\* The stage's record is written last.
Finished(v) == (stages \ {Part(v)}) \cup {Whole(v)}
DownloadEnds(t) ==
  /\ th[t].pc = "staging"
  /\ \/ /\ stages' = Finished(th[t].v)
        /\ Ended(t, [svc EXCEPT !.phase = "ready", !.stage = th[t].v])
     \/ /\ stages' = stages \ {Part(th[t].v)}
        /\ \/ Ended(t, [svc EXCEPT !.phase = "error"])
           \/ th[t].cut /\ Ended(t, Restored(svc))
  /\ UNCHANGED <<pending, installed>>

\* Only a stage that is still whole and newer than what runs is applied.
Upgrade(v) == v > svc.current
ApplyEnds(t) ==
  /\ th[t].pc = "run" /\ th[t].what = "apply"
  /\ \/ /\ Valid(th[t].v) /\ Upgrade(th[t].v) /\ pending = 0
        /\ installed' = th[t].v /\ UNCHANGED pending
        /\ Ended(t, [svc EXCEPT !.phase = "installed"])
     \/ /\ UNCHANGED installed
        /\ pending' \in IF pending = 0 /\ Valid(th[t].v) THEN {0, th[t].v} ELSE {pending}
        /\ \/ Ended(t, [svc EXCEPT !.phase = "error"])
           \/ th[t].cut /\ Ended(t, Restored(svc))
  /\ UNCHANGED stages
-----------------------------------------------------------------------------
(* Cancelation, the preference and the end *)

CutRunning == th' = [t \in Threads |-> IF th[t].pc \in {"run", "staging"} THEN [th[t] EXCEPT !.cut = TRUE] ELSE th[t]]

Cancel ==
  /\ svc.up /\ svc.token
  /\ svc' = [svc EXCEPT !.token = FALSE, !.phase = "canceling"]
  /\ CutRunning
  /\ UNCHANGED <<preflock, stopping, disk, starts>>

\* The preference is saved before the running service follows it.
PreferenceSave(t, enabled) ==
  /\ Taken(t) /\ preflock = None
  /\ preflock' = t
  /\ \/ preference' = enabled /\ th' = [th EXCEPT ![t] = [Idle EXCEPT !.pc = IF enabled THEN "optin" ELSE "optout"]]
     \/ UNCHANGED preference /\ th' = [th EXCEPT ![t] = [Idle EXCEPT !.pc = "unsaved"]]
  /\ UNCHANGED <<svc, stopping, stages, pending, installed, starts>>

PreferenceUnsaved(t) ==
  /\ th[t].pc = "unsaved"
  /\ preflock' = None /\ Done(t)
  /\ UNCHANGED <<svc, stopping, disk, starts>>

OptIn(t) ==
  /\ th[t].pc = "optin"
  /\ svc' = [svc EXCEPT !.auto = TRUE]
  /\ preflock' = None /\ Done(t)
  /\ UNCHANGED <<stopping, disk, starts>>

OptOut(t) ==
  /\ th[t].pc = "optout"
  /\ LET cut == svc.automatic /\ svc.token IN
     /\ svc' = [svc EXCEPT !.auto = FALSE, !.token = @ /\ ~cut, !.phase = IF cut THEN "canceling" ELSE @]
     /\ th' = [u \in Threads |-> IF u = t THEN Idle
                                 ELSE IF cut /\ th[u].pc = "run" THEN [th[u] EXCEPT !.cut = TRUE] ELSE th[u]]
  /\ preflock' = None
  /\ UNCHANGED <<stopping, disk, starts>>

\* A shutdown comes after the calls of the desktop have drained; the automatic
\* check is nobody's call.
ShutdownBegin ==
  /\ svc.up /\ stopping = "no" /\ \A t \in Calls : th[t].pc = "idle"
  /\ svc' = [svc EXCEPT !.down = TRUE, !.token = FALSE]
  /\ IF svc.token THEN CutRunning ELSE UNCHANGED th
  /\ stopping' = "waiting"
  /\ UNCHANGED <<preflock, disk, starts>>

ShutdownEnds ==
  /\ stopping = "waiting" /\ ~svc.active
  /\ stopping' = "stopped"
  /\ UNCHANGED <<svc, th, preflock, disk, starts>>

\* A refused shutdown keeps the service usable.
ShutdownRefused ==
  /\ stopping = "waiting" /\ svc.active
  /\ stopping' = "no" /\ svc' = [svc EXCEPT !.down = FALSE]
  /\ UNCHANGED <<th, preflock, disk, starts>>

\* The process ends, whatever its threads are at.
Exit ==
  /\ svc.up
  /\ \/ UNCHANGED pending
     \/ \E t \in Threads : /\ th[t].what = "apply" /\ th[t].pc = "run" /\ pending = 0
                           /\ Valid(th[t].v) /\ pending' = th[t].v
  /\ svc' = Down /\ th' = [t \in Threads |-> Idle] /\ preflock' = None /\ stopping' = "no"
  /\ UNCHANGED <<preference, stages, installed, starts>>

\* Another desktop on the same home finishes a download, or discards on its
\* start what it has no use for.
Elsewhere ==
  /\ \/ \E v \in 2..MaxVersion : stages' = stages \cup {Whole(v)}
     \/ \E v \in 1..MaxVersion : stages' = Discarding(v)
  /\ stages' # stages
  /\ UNCHANGED <<svc, th, preflock, stopping, preference, pending, installed, starts>>

Call(t) ==
  \/ CheckAsk(t) \/ (\E v \in Versions : DownloadAsk(t, v) \/ ApplyAsk(t, v))
  \/ (\E enabled \in BOOLEAN : PreferenceSave(t, enabled))
  \/ PreferenceUnsaved(t) \/ OptIn(t) \/ OptOut(t)
Operation(t) == Begin(t) \/ Stage(t) \/ CheckEnds(t) \/ DownloadEnds(t) \/ ApplyEnds(t)
Next ==
  \/ Start \/ AutoLock \/ AutoAsk
  \/ (\E t \in Calls : Call(t)) \/ (\E t \in Threads : Operation(t))
  \/ Cancel \/ ShutdownBegin \/ ShutdownEnds \/ ShutdownRefused \/ Exit \/ Elsewhere
Spec == Init /\ [][Next]_vars
-----------------------------------------------------------------------------
(* Properties *)

\* An active operation has a thread that will settle it: otherwise every later
\* operation of the session is refused as "another update operation is active"
\* (the fault download_update says it once had).
NeverStuck ==
  svc.active => \E t \in Threads : th[t].pc \in {"run", "staging"} /\ th[t].op = svc.operation

\* Opting out cancels an automatic check that was admitted and none is admitted
\* after it; and a service that answered its shutdown does nothing any more.
AutomaticStops ==
  /\ svc.up /\ ~svc.auto => ~(svc.active /\ svc.automatic /\ svc.token)
  /\ stopping = "stopped" => ~svc.active

\* "A successful check grants authority only to download the exact candidate it
\* returned" (docs/updater-security.md:15).
DownloadsCandidate ==
  \A t \in Threads : th[t].what = "download" /\ th[t].pc \in {"run", "staging"} => svc.candidate = th[t].v

\* The update service at large.
UpdatesSafe == NeverStuck /\ AutomaticStops /\ DownloadsCandidate
=============================================================================
