----------------------------- MODULE RecordCodec -----------------------------
(***************************************************************************)
(* The records of a database as builds of different ages store them.  Each *)
(* payload carries the schema it was written at, there is no upgrade in     *)
(* place: a build reads every older schema, writes its own, and refuses a   *)
(* database that holds one record of a newer schema.  A field is written    *)
(* from the schema that introduced it on; the stack's body is framed, and   *)
(* a build carries along what a later one appended to the frame.            *)
(*                                                                         *)
(* A field's value is the number of the edit that set it, 0 is unset; the   *)
(* bytes of values and the fields that every schema has are left out.  An   *)
(* older build is this code with a smaller number for its newest schema.    *)
(***************************************************************************)
EXTENDS Integers, Sequences

CONSTANTS
  Schemas,   \* the newest schemas of the builds that share the database
  Stores,    \* which kinds of records a database holds
  MaxEdits   \* bound: edits

VARIABLES
  db,      \* kind of record -> its envelope: schema and payload
  edits    \* how many edits were made

recvars == <<db, edits>>

Newest == 9
FramedFrom == 7
LinesFrom == 6
Bad == -1       \* a value that the record's validation refuses
Refused == [schema |-> 0, payload |-> <<>>]

\* A build, and whether it appends a field of its own to the stack's frame.
Builds == {b \in [schema : Schemas, appends : BOOLEAN] : b.appends => b.schema >= FramedFrom}
-----------------------------------------------------------------------------
(* Layouts: the gated fields of each kind of record in the order they are written *)

HoldField == [name |-> "hold", since |-> 2]
ActorField == [name |-> "actor", since |-> 3]
ClaimField == [name |-> "claim", since |-> 3]
EpochField == [name |-> "epoch", since |-> 3]
MapsField == [name |-> "maps", since |-> 3]
DepsField == [name |-> "deps", since |-> 4]
StackField == [name |-> "stack", since |-> 5]
ScratchpadField == [name |-> "scratchpad", since |-> 8]
SummaryTimeField == [name |-> "summaryTime", since |-> 9]

MetaFields == <<MapsField, StackField, ScratchpadField, SummaryTimeField>>
PlanFields == <<HoldField, ActorField, ClaimField, EpochField, DepsField>>
TaskFields == <<HoldField, ActorField, DepsField>>
NoteFields == <<ActorField>>
ProjectRefFields == <<StackField>>
CapabilityFields == <<>>

Fields(kind) ==
  CASE kind = "meta" -> MetaFields
    [] kind = "plan" -> PlanFields
    [] kind = "task" -> TaskFields
    [] kind = "note" -> NoteFields
    [] kind = "projectRef" -> ProjectRefFields
    [] kind = "capability" -> CapabilityFields

\* A decoded record: the values of its fields, and of the parts of its stack.
Names(kind) ==
  {Fields(kind)[i].name : i \in DOMAIN Fields(kind)}
  \cup (IF kind \in {"meta", "projectRef"} THEN {"appended"} ELSE {})
  \cup (IF kind = "meta" THEN {"lines"} ELSE {})
Blank(kind) == [f \in Names(kind) |-> 0]
-----------------------------------------------------------------------------
(* Encoding and decoding *)

\* validate: what a record may say at all, whatever its schema.
Valid(kind, r) ==
  /\ \A f \in DOMAIN r : r[f] # Bad
  /\ kind = "plan" => (r.claim # 0 => r.epoch # 0)

\* The fields that a payload of schema s holds.
Layout == [kind \in UNION Stores, s \in 1..Newest |-> SelectSeq(Fields(kind), LAMBDA f : f.since <= s)]

Counted(kind, s) == kind = "meta" /\ s >= LinesFrom

\* encode_stack_profile and encode_stack_summary: a flag, then the parts.
StackParts(kind, r, s) ==
  IF r.stack = 0 THEN <<>>
  ELSE <<r.stack>> \o (IF Counted(kind, s) THEN <<r.lines>> ELSE <<>>)
       \o (IF s >= FramedFrom /\ r.appended # 0 THEN <<r.appended>> ELSE <<>>)

\* A set field that the schema has no place for: refused, never dropped.
NoForm(kind, r, s) ==
  \/ \E i \in DOMAIN Fields(kind) : Fields(kind)[i].since > s /\ r[Fields(kind)[i].name] # 0
  \/ kind = "meta" /\ s < LinesFrom /\ r.lines # 0
  \/ kind \in {"meta", "projectRef"} /\ s < FramedFrom /\ r.appended # 0

EncodeUnchecked(kind, r, s) ==
  LET names == Layout[kind, s] IN
  IF NoForm(kind, r, s) THEN Refused
  ELSE [schema |-> s,
        payload |-> [i \in DOMAIN names |->
                       IF names[i].name = "stack" THEN StackParts(kind, r, s) ELSE <<r[names[i].name]>>]]

Encode(kind, r, s) == IF Valid(kind, r) THEN EncodeUnchecked(kind, r, s) ELSE Refused

\* decode_stack_profile: the known parts, and the rest of the frame as it is.
StackRead(kind, parts, s, f) ==
  LET known == IF Counted(kind, s) THEN 2 ELSE 1 IN
  CASE f = "stack" -> IF parts = <<>> THEN 0 ELSE parts[1]
    [] f = "lines" -> IF parts # <<>> /\ Counted(kind, s) THEN parts[2] ELSE 0
    [] f = "appended" -> IF s >= FramedFrom /\ Len(parts) > known THEN parts[known + 1] ELSE 0

\* What the fields of a payload say; those its schema has not are unset.
Parsed(kind, e) ==
  LET names == Layout[kind, e.schema]
      Value(f) == LET at == {i \in DOMAIN names : names[i].name = f} IN
                  IF at = {} THEN <<>> ELSE e.payload[CHOOSE i \in at : TRUE] IN
  [f \in Names(kind) |-> IF f \in {"stack", "lines", "appended"} THEN StackRead(kind, Value("stack"), e.schema, f)
                         ELSE IF Value(f) = <<>> THEN 0 ELSE Value(f)[1]]

\* decode_record_at_schema: nothing missing, nothing left over, valid, and the
\* bytes are the ones that the record is written as at that schema.
Decodes(kind, e) ==
  /\ Len(e.payload) = Len(Layout[kind, e.schema])
  /\ Valid(kind, Parsed(kind, e))
  /\ EncodeUnchecked(kind, Parsed(kind, e), e.schema) = e

Accepted(b) == 1..b.schema
\* validate_stored_records: every record is checked when a database is opened.
Opens(b) ==
  /\ \A k \in DOMAIN db : db[k].schema \in Accepted(b)
  /\ \A k \in DOMAIN db : Decodes(k, db[k])
-----------------------------------------------------------------------------
(* Builds at work *)

\* typed::put stamps the newest schema of the build that writes.
Put(b) == b.schema

\* One transaction on a record of a database that the build could open: read
\* it, change it, store it; a record that
\* cannot be encoded is refused and nothing is stored.
Store(b, k, r) ==
  /\ edits' = edits + 1
  /\ LET e == Encode(k, r, Put(b)) IN
     IF e = Refused THEN UNCHANGED db ELSE db' = [db EXCEPT ![k] = e]

\* A field is set, cleared or set to something invalid.
SetField(b, k) ==
  /\ \E i \in DOMAIN Layout[k, b.schema], v \in {0, edits + 1, Bad} :
       LET f == Layout[k, b.schema][i].name IN
       /\ f \notin {"stack", "claim", "epoch"}
       /\ Store(b, k, [Parsed(k, db[k]) EXCEPT ![f] = v])

\* A field that every schema has.
SetTitle(b, k) == Store(b, k, Parsed(k, db[k]))

Claim(b, k) ==
  /\ k = "plan" /\ b.schema >= ClaimField.since
  /\ LET r == Parsed(k, db[k]) IN
     \/ Store(b, k, [r EXCEPT !.claim = edits + 1, !.epoch = @ + 1])
     \/ Store(b, k, [r EXCEPT !.claim = 0])

\* A scan replaces the profile; what a later build had appended is its own
\* result and goes with it.
SetStackProfile(b, k) ==
  /\ k \in {"meta", "projectRef"} /\ b.schema >= StackField.since
  /\ LET r == [Parsed(k, db[k]) EXCEPT !.stack = edits + 1,
                 !.appended = IF b.appends THEN edits + 1 ELSE 0] IN
     Store(b, k, IF Counted(k, b.schema) THEN [r EXCEPT !.lines = edits + 1] ELSE r)

RecInit ==
  /\ \E kinds \in Stores, s \in Schemas :
       db = [k \in kinds |-> EncodeUnchecked(k, Blank(k), s)]
  /\ edits = 0
RecNext ==
  /\ edits < MaxEdits
  /\ \E b \in {x \in Builds : Opens(x)}, k \in DOMAIN db :
       SetField(b, k) \/ SetTitle(b, k) \/ Claim(b, k) \/ SetStackProfile(b, k)
RecSpec == RecInit /\ [][RecNext]_recvars
-----------------------------------------------------------------------------
(* Properties *)

\* Whatever builds wrote the records, every build at least as new as the newest
\* of them opens the database: no build locks itself or a newer one out.
NewerOpens ==
  \A b \in Builds : (\A k \in DOMAIN db : db[k].schema <= b.schema) => Opens(b)
=============================================================================
