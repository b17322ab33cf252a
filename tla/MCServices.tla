----------------------------- MODULE MCServices -----------------------------
\* Small instances of the services of the desktop that work side by side without
\* touching one another's state, each explored with the others at rest.
EXTENDS UpdateRuntime, GitRunner, AgentService, McpTransport, StoreFile, MemoryWriteback, TLC
CONSTANTS
  t1, t2, a, b, Schemas, MaxEdits, p1, p2, MaxCommands, Shown, MaxRecords
VARIABLES part,
  db, edits,
  read

StoreKinds == {{"meta", "capability"}, {"plan"}, {"task", "note"}, {"projectRef"}}

ProjectLink == {[plan |-> 0, task |-> FALSE]}

Codec == INSTANCE RecordCodec WITH
  Stores <- StoreKinds
recordsvars ==
  <<db, edits>>

Repo == INSTANCE GitSnapshot
gitreadvars ==
  <<read>>

\* What the parts other than this one keep.
Others(here) ==
  /\ IF here = "updates" THEN TRUE ELSE UNCHANGED vars
  /\ IF here = "records" THEN TRUE ELSE UNCHANGED recordsvars
  /\ IF here = "files" THEN TRUE ELSE UNCHANGED sfvars
  /\ IF here = "agents" THEN TRUE ELSE UNCHANGED servicevars
  /\ IF here = "mcp" THEN TRUE ELSE UNCHANGED mcpvars
  /\ IF here = "gitrun" THEN TRUE ELSE UNCHANGED gitvars
  /\ IF here = "gitread" THEN TRUE ELSE UNCHANGED gitreadvars
  /\ IF here = "memory" THEN TRUE ELSE UNCHANGED memvars
everything ==
  <<part, vars, recordsvars, sfvars, servicevars, mcpvars, gitvars, gitreadvars, memvars>>

MCInit ==
  /\ part \in {"updates", "records", "files", "agents", "mcp", "gitrun", "gitread", "memory"}
  /\ Init /\ (part # "updates" => ~preference)
  /\ IF part = "records" THEN Codec!RecInit ELSE
       /\ db = None /\ edits = None
  /\ SFInit /\ (part # "files" => process = [w \in Workers |-> p1])
  /\ ServiceInit /\ McpInit /\ GitInit /\ MemInit
  /\ IF part = "gitread" THEN Repo!ReadInit ELSE
       /\ read = None
MCNext ==
  \/ part = "updates" /\ Next /\ Others(part) /\ UNCHANGED part
  \/ part = "records" /\ Codec!RecNext /\ Others(part) /\ UNCHANGED part
  \/ part = "files" /\ SFNext /\ Others(part) /\ UNCHANGED part
  \/ part = "agents" /\ ServiceNext
     /\ (owner'[2].at = "none" \/ \E s \in {a, b} : requests'[s] = NoRequest) /\ Others(part) /\ UNCHANGED part
  \/ part = "mcp" /\ McpNext /\ Others(part) /\ UNCHANGED part
  \/ part = "gitrun" /\ GitNext
     /\ (cmd'[1].pc = "done"
         \/ (cmd'[2].pc \in {"idle", "spawned", "permitted", "done"}
             /\ cmd'[2].pipe["stdout"].reader = "none")) /\ Others(part) /\ UNCHANGED part
  \/ part = "gitread" /\ Repo!ReadNext /\ Others(part) /\ UNCHANGED part
  \/ part = "memory" /\ MemNext /\ Others(part) /\ UNCHANGED part
MCSpec == MCInit /\ [][MCNext]_everything
Symmetry == Permutations({t1, t2}) \cup Permutations({a, b}) \cup Permutations({p1, p2})

\* What is read: records written by other versions, and a repository that changes.
ReadsRight ==
  /\ part = "records" => Codec!NewerOpens
  /\ part = "gitread" => Repo!ReadSafe
=============================================================================
