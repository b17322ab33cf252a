------------------------------ MODULE StoreFile ------------------------------
(***************************************************************************)
(* The file of a store: how it is created, opened, written, relocated and   *)
(* backed up by the threads of several processes, while files are moved     *)
(* and copied under them and processes are killed.                          *)
(*                                                                         *)
(* An open store holds its file locked; the threads of a process share it.  *)
(* To open, a thread validates a snapshot under a shared lock, lets go, and *)
(* locks the file for itself.  A name is checked against the file it named  *)
(* around every step that relies on it, and a write is only acknowledged if *)
(* its file still has the name after the commit.  A caller tries a failed   *)
(* write again unless it was told that it was committed.                    *)
(***************************************************************************)
EXTENDS Integers, Sequences, FiniteSets

CONSTANTS
  Workers, Processes,
  Nothing,
  Places,      \* where a store may lie
  MaxFiles,    \* bound: files that ever exist
  MaxOps,      \* bound: operations that threads begin
  MaxMoves     \* bound: files moved or copied by others, and kills

\* A file that a process has open: where, for which threads, and for others to share.
OpenStore == [proc : Processes, place : Places, users : SUBSET Workers, listed : BOOLEAN]

ASSUME FileBounds == MaxFiles \in Nat /\ Nothing \notin Workers /\ Nothing \notin OpenStore

VARIABLES
  process,      \* thread -> its process
  names,     \* place, or "backup" -> the file that has the name
  files,     \* the contents of the files, by number
  held,      \* file -> the open store that has it locked
  probing,   \* file -> the threads that have it locked to look at it
  writer,    \* file -> the thread in a write transaction of its open store
  doing,        \* thread -> what it is doing
  asked,     \* the threads whose write was answered for good
  ops, moves

sfvars == <<process, names, files, held, probing, writer, doing, asked, ops, moves>>

\* A file that was created and not yet initialised.
Raw == [ready |-> FALSE, bound |-> Nothing, applied |-> <<>>, torn |-> FALSE]
Resting == [pc |-> "idle", goal |-> Nothing, at |-> Nothing, file |-> Nothing, copy |-> Nothing, source |-> Nothing]
Goto(t, pc) == doing' = [doing EXCEPT ![t].pc = pc]
Rest(t) == doing' = [doing EXCEPT ![t] = Resting]

\* ensure_path_identity: the name still belongs to the file the thread opened.
Named(t) == names[doing[t].at] = doing[t].file
NewFile(content) == files' = Append(files, content)
-----------------------------------------------------------------------------
(* Opening *)

\* The store that this process has open at this place, if any.
Shared(t, place) == {f \in DOMAIN files : /\ held[f] # Nothing /\ held[f].proc = process[t]
                                            /\ held[f].place = place /\ held[f].listed}

Take(f, t) == held' = [held EXCEPT ![f].users = @ \cup {t}]
\* The last user of an open store closes its file.
LetGo(f, t) ==
  held' = [held EXCEPT ![f] = IF held[f].users = {t} THEN Nothing ELSE [held[f] EXCEPT !.users = @ \ {t}]]

BeginOp(t, goal, place) ==
  /\ doing[t].pc = "idle" /\ ops < MaxOps
  /\ goal = "write" => t \notin asked
  /\ ops' = ops + 1

\* ActivatedStore::open: what the process has open is used again if it still
\* has the name.  A relocation opens the file for itself.
OpenBegin(t, goal, place) ==
  /\ goal \in {"write", "backup", "rebind"}
  /\ BeginOp(t, goal, place) /\ names[place] # Nothing
  /\ LET open == IF goal = "rebind" THEN {} ELSE Shared(t, place) IN
     IF open = {}
     THEN /\ doing' = [doing EXCEPT ![t] = [Resting EXCEPT !.pc = "opened", !.goal = goal, !.at = place, !.file = names[place]]]
          /\ UNCHANGED held
     ELSE LET f == CHOOSE x \in open : TRUE IN
          IF names[place] = f /\ files[f].bound = place
          THEN /\ doing' = [doing EXCEPT ![t] = [Resting EXCEPT !.pc = "ready", !.goal = goal, !.at = place, !.file = f]]
               /\ Take(f, t)
          ELSE UNCHANGED <<doing, held>>
  /\ UNCHANGED <<process, names, files, probing, writer, asked, moves>>

\* probe_existing_with_retry: wait for a writer, for a while.
Probe(t) ==
  /\ doing[t].pc = "opened"
  /\ IF Named(t) /\ held[doing[t].file] = Nothing
     THEN probing' = [probing EXCEPT ![doing[t].file] = @ \cup {t}] /\ Goto(t, "probing")
     ELSE UNCHANGED probing /\ Rest(t)
  /\ UNCHANGED <<process, names, files, held, writer, asked, ops, moves>>

\* validate_database; a file that was not initialised has no manifest.
Validated(t) == files[doing[t].file].ready
\* The snapshot is validated before the store is touched.
Probed(t) ==
  /\ doing[t].pc = "probing"
  /\ probing' = [probing EXCEPT ![doing[t].file] = @ \ {t}]
  /\ IF Validated(t) /\ Named(t) THEN Goto(t, "probed") ELSE Rest(t)
  /\ UNCHANGED <<process, names, files, held, writer, asked, ops, moves>>

Lockable(f) == held[f] = Nothing /\ probing[f] = {}
Open(t, listed) ==
  held' = [held EXCEPT ![doing[t].file] = [proc |-> process[t], place |-> doing[t].at, users |-> {t}, listed |-> listed]]

\* open_writable_with_retry.
LockForWriting(t) ==
  /\ doing[t].pc = "probed"
  /\ IF Named(t) /\ Lockable(doing[t].file) THEN Open(t, FALSE) /\ Goto(t, "locked") ELSE UNCHANGED held /\ Rest(t)
  /\ UNCHANGED <<process, names, files, probing, writer, asked, ops, moves>>

\* The store must be bound to the place it was opened at; one that is to be
\* relocated is bound to a place where nothing lies.
MayUse(t) ==
  LET bound == files[doing[t].file].bound IN
  IF doing[t].goal = "rebind" THEN bound \notin {Nothing, doing[t].at} /\ names[bound] = Nothing
  ELSE bound = doing[t].at

OpenEnd(t) ==
  /\ doing[t].pc = "locked"
  /\ IF Named(t) /\ MayUse(t)
     THEN /\ held' = [held EXCEPT ![doing[t].file].listed = doing[t].goal # "rebind"]
          /\ Goto(t, "ready")
     ELSE LetGo(doing[t].file, t) /\ Rest(t)
  /\ UNCHANGED <<process, names, files, probing, writer, asked, ops, moves>>

Close(t) ==
  /\ doing[t].pc = "ready"
  /\ LetGo(doing[t].file, t) /\ Rest(t)
  /\ UNCHANGED <<process, names, files, probing, writer, asked, ops, moves>>
-----------------------------------------------------------------------------
(* Creating *)

\* create_private_file: never in the place of another.
CreateFile(t, place) ==
  /\ BeginOp(t, "create", place) /\ names[place] = Nothing /\ Len(files) < MaxFiles
  /\ NewFile(Raw)
  /\ names' = [names EXCEPT ![place] = Len(files) + 1]
  /\ doing' = [doing EXCEPT ![t] = [Resting EXCEPT !.pc = "created", !.goal = "create", !.at = place, !.file = Len(files) + 1]]
  /\ UNCHANGED <<process, held, probing, writer, asked, moves>>

\* Lock and initialise; whatever fails, the file stays where it is.
Initialize(t) ==
  /\ doing[t].pc = "created"
  /\ IF Named(t) /\ Lockable(doing[t].file)
     THEN /\ Open(t, FALSE) /\ Goto(t, "initialized")
          /\ files' = [files EXCEPT ![doing[t].file].ready = TRUE]
     ELSE Rest(t) /\ UNCHANGED <<held, files>>
  /\ UNCHANGED <<process, names, probing, writer, asked, ops, moves>>

\* activate: the store is bound to its place.
Activate(t) ==
  /\ doing[t].pc = "initialized"
  /\ IF Named(t)
     THEN /\ files' = [files EXCEPT ![doing[t].file].bound = doing[t].at]
          /\ held' = [held EXCEPT ![doing[t].file].listed = TRUE] /\ Goto(t, "ready")
     ELSE LetGo(doing[t].file, t) /\ Rest(t) /\ UNCHANGED files
  /\ UNCHANGED <<process, names, probing, writer, asked, ops, moves>>
-----------------------------------------------------------------------------
(* Writing and relocating *)

\* write_application: the name and the binding are checked before, ...
CheckWrite(t) ==
  /\ doing[t].pc = "ready" /\ doing[t].goal = "write"
  /\ Named(t) /\ files[doing[t].file].bound = doing[t].at
  /\ Goto(t, "checked")
  /\ UNCHANGED <<process, names, files, held, probing, writer, asked, ops, moves>>

\* ... one transaction at a time writes the store ...
MayCommit(t) == writer[doing[t].file] = Nothing
CommitWrite(t) ==
  /\ doing[t].pc = "checked" /\ MayCommit(t)
  /\ \/ files' = [files EXCEPT ![doing[t].file].applied = Append(@, t)] /\ Goto(t, "committed")
     \* an error of the operation, or one that it met and hid: aborted
     \/ UNCHANGED files /\ Goto(t, "ready")
  /\ UNCHANGED <<process, names, held, probing, writer, asked, ops, moves>>

\* ... and the name is checked again; if it is lost, the caller learns that
\* the write is committed all the same.
AcknowledgedMoved(t) == Named(t)
Acknowledged(t) == TRUE
Recheck(t) ==
  /\ doing[t].pc = "committed"
  /\ asked' = IF Acknowledged(t) THEN asked \cup {t} ELSE asked
  /\ LetGo(doing[t].file, t) /\ Rest(t)
  /\ UNCHANGED <<process, names, files, probing, writer, ops, moves>>

\* rebind_canonical_path.
Rebind(t) ==
  /\ doing[t].pc = "ready" /\ doing[t].goal = "rebind" /\ writer[doing[t].file] = Nothing
  /\ files' = IF Named(t) THEN [files EXCEPT ![doing[t].file].bound = doing[t].at] ELSE files
  /\ LetGo(doing[t].file, t) /\ Rest(t)
  /\ UNCHANGED <<process, names, probing, writer, asked, ops, moves>>
-----------------------------------------------------------------------------
(* Backing up *)

\* with_writer_barrier, and the first bytes of the copy.
CopyBegin(t) ==
  /\ doing[t].pc = "ready" /\ doing[t].goal = "backup" /\ writer[doing[t].file] = Nothing
  /\ names[doing[t].at] # Nothing /\ names["backup"] = Nothing /\ Len(files) < MaxFiles
  /\ writer' = [writer EXCEPT ![doing[t].file] = t]
  /\ NewFile(files[doing[t].file])
  /\ doing' = [doing EXCEPT ![t].pc = "copying", ![t].copy = Len(files) + 1, ![t].source = names[doing[t].at]]
  /\ UNCHANGED <<process, names, held, probing, asked, ops, moves>>

\* The last bytes: a copy of two states of the file is of neither.
CopyEnd(t) ==
  /\ doing[t].pc = "copying"
  /\ files' = [files EXCEPT ![doing[t].copy].torn = files[doing[t].file] # files[doing[t].copy]]
  /\ Goto(t, "copied")
  /\ UNCHANGED <<process, names, held, probing, writer, asked, ops, moves>>

\* The copy is opened, compared with the store it was made for, and given its
\* name if nothing has it; otherwise, or when anything fails, it is removed.
\* The name of the store must not have changed hands meanwhile.
Publishable(t) ==
  /\ names[doing[t].at] = doing[t].source /\ files[doing[t].copy].bound = doing[t].at
  /\ names["backup"] = Nothing
PublishBackup(t) ==
  /\ doing[t].pc = "copied"
  /\ writer' = [writer EXCEPT ![doing[t].file] = Nothing]
  /\ \/ Publishable(t) /\ names' = [names EXCEPT !["backup"] = doing[t].copy]
     \/ UNCHANGED names
  /\ LetGo(doing[t].file, t) /\ Rest(t)
  /\ UNCHANGED <<process, files, probing, asked, ops, moves>>
-----------------------------------------------------------------------------
(* Others *)

Disturb == moves < MaxMoves /\ moves' = moves + 1
Move(from, to) ==
  /\ Disturb /\ names[from] # Nothing /\ names[to] = Nothing
  /\ names' = [names EXCEPT ![from] = Nothing, ![to] = names[from]]
  /\ UNCHANGED <<process, files, held, probing, writer, doing, asked, ops>>
CopyFile(from, to) ==
  /\ Disturb /\ names[from] # Nothing /\ names[to] = Nothing /\ Len(files) < MaxFiles
  /\ NewFile(files[names[from]]) /\ names' = [names EXCEPT ![to] = Len(files) + 1]
  /\ UNCHANGED <<process, held, probing, writer, doing, asked, ops>>

\* A killed process lets go of every lock, and of the writes it was asked for.
Kill(p) ==
  LET own == {t \in Workers : process[t] = p} IN
  /\ Disturb
  /\ doing' = [t \in Workers |-> IF t \in own THEN Resting ELSE doing[t]]
  /\ asked' = asked \cup {t \in own : doing[t].goal = "write"}
  /\ held' = [f \in DOMAIN held |-> IF held[f] # Nothing /\ held[f].proc = p THEN Nothing ELSE held[f]]
  /\ probing' = [f \in DOMAIN probing |-> probing[f] \ own]
  /\ writer' = [f \in DOMAIN writer |-> IF writer[f] \in own THEN Nothing ELSE writer[f]]
  /\ UNCHANGED <<process, names, files, ops>>

SFInit ==
  /\ process \in [Workers -> Processes]
  /\ names = [p \in Places \cup {"backup"} |-> Nothing]
  /\ files = <<>>
  /\ held = [f \in 1..MaxFiles |-> Nothing] /\ probing = [f \in 1..MaxFiles |-> {}]
  /\ writer = [f \in 1..MaxFiles |-> Nothing]
  /\ doing = [t \in Workers |-> Resting]
  /\ asked = {} /\ ops = 0 /\ moves = 0

SFNext ==
  \/ \E t \in Workers, place \in Places :
       CreateFile(t, place) \/ (\E goal \in {"write", "backup", "rebind"} : OpenBegin(t, goal, place))
  \/ \E t \in Workers :
       \/ Probe(t) \/ Probed(t) \/ LockForWriting(t) \/ OpenEnd(t) \/ Close(t)
       \/ Initialize(t) \/ Activate(t)
       \/ CheckWrite(t) \/ CommitWrite(t) \/ Recheck(t) \/ Rebind(t)
       \/ CopyBegin(t) \/ CopyEnd(t) \/ PublishBackup(t)
  \/ \E from, to \in Places : Move(from, to) \/ CopyFile(from, to)
  \/ \E p \in Processes : Kill(p)
SFSpec == SFInit /\ [][SFNext]_sfvars
-----------------------------------------------------------------------------
(* Properties *)

\* No file holds one caller's write twice, although callers try a failed write
\* again, whatever is moved, copied or killed in between.
AppliedOnce ==
  \A f \in DOMAIN files : Cardinality({files[f].applied[i] : i \in DOMAIN files[f].applied}) = Len(files[f].applied)

\* What has the name of a backup is a store as it was at one moment, although
\* other threads of the process write the store while it is copied.
BackupWhole ==
  names["backup"] # Nothing => ~files[names["backup"]].torn

\* The files of a store at large: a retried write and a copied backup.
FilesSafe == AppliedOnce /\ BackupWhole
=============================================================================
