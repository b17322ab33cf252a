------------------------- MODULE AgentRegistryProofs -------------------------
(***************************************************************************)
(* The registry of agent runs is safe and honest, for any number of runs,  *)
(* tokens, faults and events.                                              *)
(*                                                                         *)
(* The inductive invariant says, above the safety itself, that the history *)
(* never runs ahead of the registry and holds all of it when nothing is    *)
(* left to write, that what it holds is in order for some revision, that   *)
(* no token is known to two runs, and that a registry that is off has      *)
(* nothing.  Each action is shown to keep it and to be a step that a       *)
(* registry may take, in one lemma (Right); the steps that add no run and  *)
(* no event share one argument (AlikeRight).                               *)
(***************************************************************************)
EXTENDS AgentRegistry, SequenceTheorems, FiniteSetTheorems, TLAPS

-----------------------------------------------------------------------------
(* Events *)

EventSet == [source : Nat, host : Nat, rev : Nat]

\* The numbers of an event are numbers.
LEMMA EventNumbers ==
  ASSUME NEW e \in EventSet PROVE e.source \in Nat /\ e.host \in Nat /\ e.rev \in Nat
BY DEF EventSet

\* The events retained are the last ones.
LEMMA RetainedLast ==
  ASSUME NEW es \in Seq(EventSet)
  PROVE  /\ Retained(es) \in Seq(EventSet) /\ Len(Retained(es)) <= RetainLast
         /\ Len(Retained(es)) <= Len(es)
         /\ \A i \in 1..Len(Retained(es)) : Retained(es)[i] = es[i + (Len(es) - Len(Retained(es)))]
<1> DEFINE k == IF Len(es) < RetainLast THEN Len(es) ELSE RetainLast
<1>1. Len(es) \in Nat /\ RetainLast \in Nat /\ k \in Nat /\ k <= Len(es) /\ k <= RetainLast
  BY RegistryAssumption
<1>2. Retained(es) = SubSeq(es, Len(es) - k + 1, Len(es)) BY DEF Retained
<1> HIDE DEF k
<1>3. Len(Retained(es)) = k BY <1>1, <1>2
<1>4. \A i \in 1..k : Retained(es)[i] = es[Len(es) - k + 1 + i - 1] BY <1>1, <1>2
<1>5. \A i \in 1..k : Len(es) - k + 1 + i - 1 = i + (Len(es) - k) /\ i + (Len(es) - k) \in 1..Len(es)
  BY <1>1
<1>6. Retained(es) \in Seq(EventSet)
  <2>1. \A i \in 1..k : Retained(es)[i] \in EventSet BY <1>4, <1>5
  <2>2. Retained(es) = [i \in 1..k |-> Retained(es)[i]] BY <1>1, <1>2
  <2>3. QED BY <1>1, <2>1, <2>2
<1>7. QED BY <1>1, <1>3, <1>4, <1>5, <1>6

\* A part of events that are in order is in order, under later marks too.
LEMMA OrderedPart ==
  ASSUME NEW es \in Seq(EventSet), NEW ds \in Seq(EventSet), NEW k \in Nat,
         \A i \in 1..Len(ds) : i + k \in 1..Len(es) /\ ds[i] = es[i + k],
         NEW source \in Nat, NEW host \in Nat, NEW rev \in Nat, Ordered(es, source, host, rev),
         NEW source2 \in Nat, NEW host2 \in Nat, NEW rev2 \in Nat,
         source <= source2, host <= host2, rev <= rev2
  PROVE  Ordered(ds, source2, host2, rev2)
<1>1. ASSUME NEW i \in 1..Len(ds), NEW j \in 1..Len(ds), i < j
      PROVE  ds[i].source < ds[j].source /\ ds[i].host < ds[j].host /\ ds[i].rev <= ds[j].rev
  <2>1. i + k < j + k BY <1>1
  <2>2. QED BY <2>1 DEF Ordered
<1>2. ASSUME NEW i \in 1..Len(ds)
      PROVE  ds[i].source <= source2 /\ ds[i].host <= host2 /\ ds[i].rev <= rev2
  <2>1. es[i + k].source <= source /\ es[i + k].host <= host /\ es[i + k].rev <= rev BY DEF Ordered
  <2>2. es[i + k] \in EventSet OBVIOUS
  <2>3. ds[i] = es[i + k] /\ es[i + k].source \in Nat /\ es[i + k].host \in Nat /\ es[i + k].rev \in Nat
    BY <2>2, EventNumbers
  <2>4. \A a, b, c \in Nat : a <= b /\ b <= c => a <= c OBVIOUS
  <2>5. QED BY <2>1, <2>3, <2>4
<1>3. QED BY <1>1, <1>2 DEF Ordered

\* An event numbered above the marks comes last.
LEMMA OrderedAppend ==
  ASSUME NEW es \in Seq(EventSet), NEW e \in EventSet,
         NEW source \in Nat, NEW host \in Nat, NEW rev \in Nat, Ordered(es, source, host, rev),
         e.source > source, e.host > host, e.rev = rev
  PROVE  /\ Append(es, e) \in Seq(EventSet)
         /\ Ordered(Append(es, e), e.source, e.host, rev)
<1> DEFINE ds == Append(es, e)
<1>1. ds \in Seq(EventSet) /\ Len(ds) = Len(es) + 1 /\ ds[Len(es) + 1] = e OBVIOUS
<1>2. \A i \in 1..Len(es) : ds[i] = es[i] /\ es[i] \in EventSet OBVIOUS
<1>3. Len(es) \in Nat /\ e.source \in Nat /\ e.host \in Nat
      /\ \A i \in 1..Len(es) : es[i].source \in Nat /\ es[i].host \in Nat /\ es[i].rev \in Nat
  BY <1>2, EventNumbers
<1> HIDE DEF ds
<1>4. ASSUME NEW i \in 1..Len(ds), NEW j \in 1..Len(ds), i < j
      PROVE  ds[i].source < ds[j].source /\ ds[i].host < ds[j].host /\ ds[i].rev <= ds[j].rev
  <2>1. i \in 1..Len(es) BY <1>1, <1>3, <1>4
  <2>2. CASE j \in 1..Len(es) BY <1>2, <2>1, <2>2, <1>4 DEF Ordered
  <2>3. CASE j = Len(es) + 1
    <3>1. es[i].source <= source /\ es[i].host <= host /\ es[i].rev <= rev BY <2>1 DEF Ordered
    <3>2. ds[i] = es[i] /\ ds[j] = e BY <1>1, <1>2, <2>1, <2>3
    <3>3. /\ es[i].source \in Nat /\ es[i].host \in Nat /\ es[i].rev \in Nat
          /\ e.source \in Nat /\ e.host \in Nat
      BY <1>3, <2>1
    <3>4. \A a, b, c \in Nat : a <= b /\ c > b => a < c OBVIOUS
    <3>5. QED BY <3>1, <3>2, <3>3, <3>4
  <2>4. QED BY <1>1, <1>3, <2>2, <2>3
<1>5. ASSUME NEW i \in 1..Len(ds)
      PROVE  ds[i].source <= e.source /\ ds[i].host <= e.host /\ ds[i].rev <= rev
  <2>1. CASE i \in 1..Len(es)
    <3>1. es[i].source <= source /\ es[i].host <= host /\ es[i].rev <= rev BY <2>1 DEF Ordered
    <3>2. es[i].source \in Nat /\ es[i].host \in Nat /\ ds[i] = es[i] BY <1>2, <1>3, <2>1
    <3>3. \A a, b, c \in Nat : a <= b /\ c > b => a <= c OBVIOUS
    <3>4. e.source \in Nat /\ e.host \in Nat BY <1>3
    <3>5. QED BY <3>1, <3>2, <3>3, <3>4
  <2>2. CASE i = Len(es) + 1 BY <1>1, <1>3, <2>2
  <2>3. QED BY <1>1, <1>3, <2>1, <2>2
<1>6. QED BY <1>1, <1>4, <1>5 DEF Ordered, ds

\* The highest revision of events that are in order is no lower than any.
LEMMA HighestRev ==
  ASSUME NEW es \in Seq(EventSet), NEW source, NEW host, NEW rev, Ordered(es, source, host, rev)
  PROVE  Highest(es, "rev") \in Nat /\ \A i \in 1..Len(es) : es[i].rev <= Highest(es, "rev")
<1> DEFINE S == {0} \cup {es[i]["rev"] : i \in DOMAIN es}
<1>1. /\ Len(es) \in Nat /\ DOMAIN es = 1..Len(es)
      /\ \A i \in 1..Len(es) : es[i]["rev"] = es[i].rev /\ es[i].rev \in Nat
  BY EventNumbers
<1>2. S \subseteq Nat /\ 0 \in S /\ \A i \in 1..Len(es) : es[i].rev \in S
  <2>1. \A x \in S : x = 0 \/ \E i \in 1..Len(es) : x = es[i]["rev"] BY <1>1
  <2>2. QED BY <1>1, <2>1
<1>3. \E m \in S : \A x \in S : m >= x
  <2>1. \A x \in S : x = 0 \/ \E i \in 1..Len(es) : x = es[i].rev BY <1>1
  <2> HIDE DEF S
  <2>2. CASE Len(es) = 0 BY <1>2, <2>1, <2>2
  <2>3. CASE Len(es) # 0
    <3>1. Len(es) \in 1..Len(es) BY <1>1, <2>3
    <3>2. \A i \in 1..Len(es) : i < Len(es) => es[i].rev <= es[Len(es)].rev BY <3>1 DEF Ordered
    <3>3. ASSUME NEW i \in 1..Len(es) PROVE es[Len(es)].rev >= es[i].rev
      <4>1. es[i].rev \in Nat /\ es[Len(es)].rev \in Nat BY <1>1, <3>1
      <4>2. CASE i < Len(es) BY <3>2, <4>1, <4>2
      <4>3. CASE i = Len(es) BY <4>1, <4>3
      <4>4. Len(es) \in Nat OBVIOUS
      <4>5. i < Len(es) \/ i = Len(es) BY <4>4
      <4>6. QED BY <4>2, <4>3, <4>5
    <3>4. \A i \in 1..Len(es) : es[Len(es)].rev >= es[i].rev BY <3>3
    <3>5. \A x \in S : es[Len(es)].rev >= x BY <1>1, <2>1, <3>1, <3>4
    <3>6. QED BY <1>2, <3>1, <3>5
  <2>4. QED BY <2>2, <2>3
<1>4. Highest(es, "rev") = Max(S) BY DEF Highest
<1> HIDE DEF S
<1>5. Max(S) \in S /\ \A x \in S : Max(S) >= x BY <1>3 DEF Max
<1>6. QED BY <1>2, <1>5, <1>4, <1>1

-----------------------------------------------------------------------------
(* The invariant *)

RunRec ==
  [term : Terminal \cup {External}, linked : BOOLEAN, state : {"running", "stale", "exited"},
   late : BOOLEAN, rev : Nat \ {0}, token : Token \cup {NoToken}, events : Seq(EventSet),
   source : Nat, host : Nat]

SavedRec ==
  [term : Terminal \cup {External}, state : {"running", "stale", "exited"},
   events : Seq(EventSet), source : Nat, host : Nat]

\* A run of the registry, and one of the history, whose revision is not kept.
Fine(x) ==
  /\ x \in RunRec /\ Len(x.events) <= RetainLast
  /\ Ordered(x.events, x.source, x.host, x.rev)
FineSaved(x) == x \in SavedRec /\ \E rev \in Nat : Ordered(x.events, x.source, x.host, rev)

RunsOk(rs, m) ==
  /\ DOMAIN rs \subseteq 1..m /\ Cardinality(DOMAIN rs) <= MaxRecords
  /\ \A r \in DOMAIN rs : Fine(rs[r])
DiskOk(d, m) ==
  /\ d.newer \in BOOLEAN
  /\ DOMAIN d.recs \subseteq 1..m /\ Cardinality(DOMAIN d.recs) <= MaxRecords
  /\ \A r \in DOMAIN d.recs : FineSaved(d.recs[r])

\* The history never runs ahead of the registry; it may lag behind, unless
\* there is nothing left to write.
Behind(d, rs) == \A r \in DOMAIN rs \cap DOMAIN d.recs : d.recs[r].source <= rs[r].source
Holds(d, rs) ==
  \A r \in DOMAIN rs :
    r \in DOMAIN d.recs /\ d.recs[r].source = rs[r].source /\ d.recs[r].events = rs[r].events

RunsInv == made \in 0..MaxRun /\ RunsOk(runs, made)
HistoryInv ==
  /\ DiskOk(disk, made) /\ Behind(disk, runs)
  /\ ~dirty /\ writable /\ ~disk.newer => Holds(disk, runs)

\* Who reports has been numbered by its adapter.
CallInv == call # NoCall => call.source \in Nat

\* A token is known to at most one run, and that run is the one it is bound to.
TokensInv ==
  /\ issued \in 0..MaxToken /\ pending \subseteq 1..issued /\ DOMAIN bound \subseteq 1..issued
  /\ waiting \cup ready \subseteq Token
  /\ TokenAuthority
  /\ \A r \in DOMAIN runs : runs[r].token # NoToken => bound[runs[r].token] = r
  /\ NoLostWakeup

\* Nothing is left of a registry that is off.
PhaseInv ==
  /\ phase \in {"off", "up", "closed", "joined", "down"}
  /\ flush \in {"idle", "debounce", "write", "stopped"}
  /\ phase = "off" => DOMAIN runs = {} /\ pending = {} /\ DOMAIN bound = {} /\ waiting = {}

Inv == RunsInv /\ HistoryInv /\ CallInv /\ TokensInv /\ PhaseInv

-----------------------------------------------------------------------------
(* Records *)

\* A run goes on with the same events, in its life or in a later one.
LEMMA FineStays ==
  ASSUME NEW x, Fine(x), NEW y \in RunRec,
         y.events = x.events, y.source = x.source, y.host = x.host, y.rev >= x.rev
  PROVE  Fine(y)
<1>1. /\ x.events \in Seq(EventSet) /\ x.source \in Nat /\ x.host \in Nat
      /\ x.rev \in Nat /\ y.rev \in Nat
  BY DEF Fine, RunRec
<1>2. Ordered(x.events, x.source, x.host, x.rev) /\ Len(x.events) <= RetainLast BY DEF Fine
<1>3. Ordered(x.events, x.source, x.host, y.rev)
  <2>1. \A i \in 1..Len(x.events) : i + 0 \in 1..Len(x.events) /\ x.events[i] = x.events[i + 0] BY <1>1
  <2>2. x.source <= x.source /\ x.host <= x.host /\ x.rev <= y.rev /\ 0 \in Nat BY <1>1
  <2>3. QED BY <1>1, <1>2, <2>1, <2>2, OrderedPart
<1>4. QED BY <1>2, <1>3 DEF Fine

\* A run that is new has no event.
LEMMA NewFine ==
  ASSUME NEW t \in Terminal \cup {External}, NEW linked \in BOOLEAN
  PROVE  New(t, linked) \in RunRec /\ Fine(New(t, linked))
<1>1. <<>> \in Seq(EventSet) /\ Len(<<>>) = 0 OBVIOUS
<1>2. New(t, linked) \in RunRec BY <1>1 DEF New, RunRec, NoToken
<1>3. Ordered(<<>>, 0, 0, 1) BY <1>1 DEF Ordered
<1>4. QED BY <1>1, <1>2, <1>3, RegistryAssumption DEF New, Fine

\* What is saved of a run is enough to go on with it.
LEMMA SavedFine ==
  ASSUME NEW rs, NEW r \in DOMAIN rs, Fine(rs[r])
  PROVE  /\ FineSaved(Saved(rs)[r])
         /\ Saved(rs)[r].source = rs[r].source /\ Saved(rs)[r].events = rs[r].events
<1> DEFINE d == Saved(rs)[r]
<1>1. d = [term |-> rs[r].term, state |-> rs[r].state, events |-> rs[r].events,
           source |-> rs[r].source, host |-> rs[r].host] BY DEF Saved
<1>2. rs[r] \in RunRec BY DEF Fine
<1>3. d \in SavedRec BY <1>1, <1>2 DEF RunRec, SavedRec
<1>4. rs[r].rev \in Nat /\ Ordered(d.events, d.source, d.host, rs[r].rev) BY <1>1, <1>2 DEF Fine, RunRec
<1>5. QED BY <1>1, <1>3, <1>4 DEF FineSaved

\* A run that comes back begins a life of which there is no event yet.
LEMMA RestoredFine ==
  ASSUME NEW d, FineSaved(d)
  PROVE  /\ Fine(Restored(d)) /\ Restored(d).token = NoToken
         /\ Restored(d).source = d.source
         /\ \A i \in DOMAIN Restored(d).events : Restored(d).events[i].rev # Restored(d).rev
<1>1. /\ d.events \in Seq(EventSet) /\ d.source \in Nat /\ d.host \in Nat
      /\ d.term \in Terminal \cup {External} /\ d.state \in {"running", "stale", "exited"}
  BY DEF FineSaved, SavedRec
<1>2. PICK rev \in Nat : Ordered(d.events, d.source, d.host, rev) BY DEF FineSaved
<1> DEFINE top == Highest(d.events, "rev") + 1
           kept == Retained(d.events)
<1>3. top \in Nat \ {0} /\ \A i \in 1..Len(d.events) : d.events[i].rev < top
  <2>1. Highest(d.events, "rev") \in Nat /\ \A i \in 1..Len(d.events) : d.events[i].rev <= Highest(d.events, "rev")
    BY <1>1, <1>2, HighestRev
  <2>2. \A i \in 1..Len(d.events) : d.events[i].rev \in Nat BY <1>1, EventNumbers
  <2>3. QED BY <2>1, <2>2
<1>4. Restored(d) = [term |-> d.term, linked |-> FALSE, token |-> NoToken, late |-> FALSE,
        state |-> IF d.term # External /\ d.state # "exited" THEN "stale" ELSE d.state,
        rev |-> top, events |-> kept, host |-> d.host, source |-> d.source]
  BY DEF Restored
<1> HIDE DEF top
<1>5. Ordered(d.events, d.source, d.host, top)
  <2>1. \A i \in 1..Len(d.events) : d.events[i].rev \in Nat /\ top \in Nat BY <1>1, <1>3, EventNumbers
  <2>2. \A i \in 1..Len(d.events) : d.events[i].rev <= top BY <1>3, <2>1
  <2>3. QED BY <1>2, <2>2 DEF Ordered
<1> DEFINE gone == Len(d.events) - Len(kept)
<1>6. /\ kept \in Seq(EventSet) /\ Len(kept) <= RetainLast /\ gone \in Nat
      /\ \A i \in 1..Len(kept) : i + gone \in 1..Len(d.events) /\ kept[i] = d.events[i + gone]
  <2>1. /\ kept \in Seq(EventSet) /\ Len(kept) <= RetainLast /\ Len(kept) <= Len(d.events)
        /\ \A i \in 1..Len(kept) : kept[i] = d.events[i + gone]
    BY <1>1, RetainedLast
  <2>2. Len(kept) \in Nat /\ Len(d.events) \in Nat BY <1>1, <2>1
  <2>3. \A m, n \in Nat : m <= n => n - m \in Nat /\ \A i \in 1..m : i + (n - m) \in 1..n OBVIOUS
  <2> HIDE DEF kept
  <2>5. gone \in Nat /\ \A i \in 1..Len(kept) : i + gone \in 1..Len(d.events) BY <2>1, <2>2, <2>3
  <2>6. QED BY <2>1, <2>5
<1> HIDE DEF kept, gone
<1>7. Ordered(kept, d.source, d.host, top)
  <2>1. top \in Nat /\ d.source <= d.source /\ d.host <= d.host /\ top <= top BY <1>1, <1>3
  <2>2. QED BY <1>1, <1>5, <1>6, <2>1, OrderedPart
<1>8. Restored(d) \in RunRec BY <1>1, <1>3, <1>4, <1>6 DEF RunRec, NoToken
<1>9. \A i \in 1..Len(kept) : kept[i].rev # top
  <2>1. \A i \in 1..Len(d.events) : d.events[i].rev \in Nat /\ top \in Nat BY <1>1, <1>3, EventNumbers
  <2>2. \A i \in 1..Len(d.events) : d.events[i].rev # top BY <1>3, <2>1
  <2>3. QED BY <1>6, <2>2
<1>10. QED BY <1>4, <1>6, <1>7, <1>8, <1>9 DEF Fine

-----------------------------------------------------------------------------
(* Runs that keep their events *)

Alike(rs, qs) ==
  /\ DOMAIN qs \subseteq DOMAIN rs
  /\ \A r \in DOMAIN qs :
       /\ qs[r] \in RunRec /\ qs[r].events = rs[r].events
       /\ qs[r].source = rs[r].source /\ qs[r].host = rs[r].host /\ qs[r].rev >= rs[r].rev

\* Runs that keep their events are in order, and no further from the history.
LEMMA AlikeOk ==
  ASSUME NEW rs, NEW qs, NEW m \in Nat, RunsOk(rs, m), Alike(rs, qs)
  PROVE  /\ RunsOk(qs, m)
         /\ \A d : (Behind(d, rs) => Behind(d, qs)) /\ (Holds(d, rs) => Holds(d, qs))
<1>1. \A r \in DOMAIN qs : Fine(qs[r]) BY FineStays DEF RunsOk, Alike
<1>2. Cardinality(DOMAIN qs) <= MaxRecords
  <2>1. IsFiniteSet(DOMAIN rs)
    <3>1. IsFiniteSet(1..m) BY FS_Interval
    <3>2. QED BY <3>1, FS_Subset DEF RunsOk
  <2>2. Cardinality(DOMAIN qs) <= Cardinality(DOMAIN rs) /\ IsFiniteSet(DOMAIN qs) BY <2>1, FS_Subset DEF Alike
  <2>3. Cardinality(DOMAIN qs) \in Nat /\ Cardinality(DOMAIN rs) \in Nat BY <2>1, <2>2, FS_CardinalityType
  <2>4. QED BY <2>2, <2>3, RegistryAssumption DEF RunsOk
<1>3. \A d : (Behind(d, rs) => Behind(d, qs)) /\ (Holds(d, rs) => Holds(d, qs))
  BY DEF Alike, Behind, Holds
<1>4. QED BY <1>1, <1>2, <1>3 DEF RunsOk, Alike

\* Writing the history, or failing to, leaves it no further behind.
LEMMA PersistOk ==
  ASSUME NEW rs, NEW m \in Nat, RunsOk(rs, m), DiskOk(disk, m), Behind(disk, rs), Persist(rs)
  PROVE  /\ DiskOk(disk', m) /\ Behind(disk', rs)
         /\ ~dirty' /\ writable' /\ ~disk'.newer => Holds(disk', rs)
         /\ disk.newer => disk'.newer
<1> DEFINE saved == [newer |-> FALSE, recs |-> Saved(rs)]
           none == [newer |-> FALSE, recs |-> <<>>]
<1>1. DiskOk(saved, m) /\ Behind(saved, rs) /\ Holds(saved, rs)
  <2>1. DOMAIN Saved(rs) = DOMAIN rs BY DEF Saved
  <2>2. \A r \in DOMAIN rs : /\ FineSaved(Saved(rs)[r]) /\ rs[r].source \in Nat
                             /\ Saved(rs)[r].source = rs[r].source /\ Saved(rs)[r].events = rs[r].events
    BY SavedFine DEF RunsOk, Fine, RunRec
  <2>3. QED BY <2>1, <2>2 DEF DiskOk, Behind, Holds, RunsOk
<1>2. DiskOk(none, m) /\ Behind(none, rs)
  <2>1. DOMAIN none.recs = {} /\ none.newer = FALSE OBVIOUS
  <2>2. Cardinality({}) = 0 BY FS_EmptySet
  <2>3. QED BY <2>1, <2>2, RegistryAssumption DEF DiskOk, Behind
<1> HIDE DEF none
<1>3. CASE ~writable /\ UNCHANGED history BY <1>3 DEF history
<1>4. CASE /\ disk.newer /\ ~writable' /\ UNCHANGED <<disk, faults>> BY <1>4
<1>5. CASE ~disk.newer /\ Written(rs) BY <1>1, <1>5 DEF Written
<1>6. CASE ~disk.newer /\ WriteFails(rs) BY <1>1, <1>2, <1>6 DEF WriteFails, none
<1>7. QED BY <1>3, <1>4, <1>5, <1>6 DEF Persist

\* An action that keeps the events of the runs it leaves, and writes the
\* history or does not.
LEMMA AlikeStep ==
  ASSUME Inv, Alike(runs, runs'), made' = made, UNCHANGED history \/ Persist(runs')
  PROVE  RunsInv' /\ HistoryInv' /\ (disk.newer => disk'.newer)
<1>1. made \in Nat /\ RunsOk(runs, made) BY RegistryAssumption DEF Inv, RunsInv
<1>2. DiskOk(disk, made) /\ Behind(disk, runs) BY DEF Inv, HistoryInv
<1>3. RunsOk(runs', made) /\ Behind(disk, runs') BY <1>1, <1>2, AlikeOk
<1>4. RunsInv' BY <1>3 DEF Inv, RunsInv
<1>5. CASE UNCHANGED history
  <2>1. Holds(disk, runs) => Holds(disk, runs') BY <1>1, AlikeOk
  <2>2. QED BY <1>2, <1>3, <1>4, <1>5, <2>1 DEF Inv, HistoryInv, history
<1>6. CASE Persist(runs')
  <2>1. /\ DiskOk(disk', made) /\ Behind(disk', runs')
        /\ ~dirty' /\ writable' /\ ~disk'.newer => Holds(disk', runs')
        /\ disk.newer => disk'.newer
    BY <1>1, <1>2, <1>3, <1>6, PersistOk
  <2>2. QED BY <1>4, <2>1 DEF HistoryInv
<1>7. QED BY <1>5, <1>6

-----------------------------------------------------------------------------
(* What a step may do *)

AuthorityStep ==
  \A r \in DOMAIN runs \cap DOMAIN runs' :
    runs'[r].host > runs[r].host => Active(r) /\ Authorised(call) = {r}
EvidenceStep ==
  \A r \in DOMAIN runs' :
    r \notin DOMAIN runs \/ (Active(r) <=> runs'[r].state # "running")
      => \A i \in DOMAIN runs'[r].events : runs'[r].events[i].rev # runs'[r].rev
ReplayStep ==
  \A r \in DOMAIN runs \cap DOMAIN disk.recs :
    r \in DOMAIN runs' /\ runs'[r].host > runs[r].host => runs'[r].source > disk.recs[r].source
SavesStep ==
  phase = "closed" /\ phase' = "joined" /\ ~failed' /\ writable'
    => disk'.newer \/ \A r \in DOMAIN runs' :
         /\ r \in DOMAIN disk'.recs
         /\ disk'.recs[r].source = runs'[r].source /\ disk'.recs[r].events = runs'[r].events
NewerStep == disk.newer => disk'.newer

Right == Inv' /\ AuthorityStep /\ EvidenceStep /\ ReplayStep /\ SavesStep /\ NewerStep

\* A step without an event.
NoEvent == \A r \in DOMAIN runs \cap DOMAIN runs' : runs'[r].host = runs[r].host

\* Without an event there is no authority to show and nothing to replay.
LEMMA NoEventRight ==
  ASSUME Inv, NoEvent PROVE AuthorityStep /\ ReplayStep
<1>1. \A r \in DOMAIN runs : runs[r].host \in Nat BY DEF Inv, RunsInv, RunsOk, Fine, RunRec
<1>2. \A r \in DOMAIN runs \cap DOMAIN runs' : ~(runs'[r].host > runs[r].host) BY <1>1 DEF NoEvent
<1>3. QED BY <1>2 DEF AuthorityStep, ReplayStep

\* No event belongs to a life that is about to begin.
LEMMA NewLife ==
  ASSUME NEW x, Fine(x), NEW y \in RunRec, y.events = x.events, y.rev = x.rev + 1
  PROVE  \A i \in DOMAIN y.events : y.events[i].rev # y.rev
<1>1. x.events \in Seq(EventSet) /\ x.rev \in Nat /\ DOMAIN x.events = 1..Len(x.events)
  BY DEF Fine, RunRec
<1>2. \A i \in 1..Len(x.events) : x.events[i].rev <= x.rev BY DEF Fine, Ordered
<1>3. \A i \in 1..Len(x.events) : x.events[i].rev \in Nat BY <1>1, EventNumbers
<1>4. \A i \in 1..Len(x.events) : x.events[i].rev # x.rev + 1 BY <1>1, <1>2, <1>3
<1>5. QED BY <1>1, <1>4

\* A step that leaves runs alive or not, and adds none.
LEMMA SameLives ==
  ASSUME DOMAIN runs' \subseteq DOMAIN runs, \A r \in DOMAIN runs' : runs'[r].state = runs[r].state
  PROVE  EvidenceStep
<1>1. \A r \in DOMAIN runs' : Active(r) <=> runs'[r].state = "running" BY DEF Active
<1>2. QED BY <1>1, Zenon DEF EvidenceStep

\* What is left to show of a step that adds no run and no event.
LEMMA AlikeRight ==
  ASSUME Inv, Alike(runs, runs'), made' = made, UNCHANGED history \/ Persist(runs'),
         CallInv', TokensInv', PhaseInv', EvidenceStep, phase' = phase \/ phase # "closed"
  PROVE  Right
<1>1. RunsInv' /\ HistoryInv' /\ NewerStep BY AlikeStep DEF NewerStep
<1>2. NoEvent BY DEF Alike, NoEvent
<1>3. AuthorityStep /\ ReplayStep BY <1>2, NoEventRight
<1>4. SavesStep BY DEF SavesStep
<1>5. QED BY <1>1, <1>3, <1>4 DEF Right, Inv

\* What is known of the record of a run.
LEMMA RecordOf ==
  ASSUME Inv, NEW r \in DOMAIN runs
  PROVE  Fine(runs[r]) /\ runs[r] \in RunRec /\ runs[r].rev \in Nat /\ r \in Nat
BY RegistryAssumption DEF Inv, RunsInv, RunsOk, Fine, RunRec

-----------------------------------------------------------------------------
(* The runs *)

\* A run that was stale begins a life without evidence; the others go on.
LEMMA HeartbeatRight ==
  ASSUME Inv, NEW r \in Run, Heartbeat(r) PROVE Right
<1>1. r \in DOMAIN runs /\ runs[r] \in RunRec /\ Fine(runs[r]) /\ ~Launched(r) BY RecordOf DEF Heartbeat
<1>2. PICK rev \in {runs[r].rev, runs[r].rev + 1} :
        /\ runs' = [runs EXCEPT ![r].late = FALSE, ![r].state = "running", ![r].rev = rev]
        /\ rev = IF Active(r) THEN runs[r].rev ELSE runs[r].rev + 1
  BY Zenon DEF Heartbeat
<1> DEFINE y == [runs[r] EXCEPT !.late = FALSE, !.state = "running", !.rev = rev]
<1>3. DOMAIN runs' = DOMAIN runs /\ runs'[r] = y /\ \A x \in DOMAIN runs : x # r => runs'[x] = runs[x]
  BY <1>1, <1>2
<1>4. /\ y \in RunRec /\ y.events = runs[r].events /\ y.source = runs[r].source
      /\ y.host = runs[r].host /\ y.rev = rev /\ y.state = "running" /\ y.term = runs[r].term
      /\ y.token = runs[r].token /\ rev >= runs[r].rev
  <2>1. rev \in Nat \ {0} /\ rev >= runs[r].rev BY <1>1, <1>2 DEF RunRec
  <2>2. QED BY <1>1, <2>1 DEF RunRec
<1> HIDE DEF y
<1>5. Alike(runs, runs') BY <1>3, <1>4, RecordOf DEF Alike
<1>6. EvidenceStep
  <2>1. \A x \in DOMAIN runs : x # r => (Active(x) <=> runs'[x].state = "running") BY <1>3 DEF Active
  <2>2. CASE Active(r)
    <3>1. \A x \in DOMAIN runs : runs'[x].state = runs[x].state BY <1>3, <1>4, <2>2 DEF Active
    <3>2. QED BY <1>3, <3>1, SameLives
  <2>3. CASE ~Active(r)
    <3>1. \A i \in DOMAIN y.events : y.events[i].rev # y.rev BY <1>1, <1>2, <1>4, <2>3, NewLife
    <3>2. QED BY <1>3, <2>1, <3>1, Zenon DEF EvidenceStep
  <2>4. QED BY <2>2, <2>3
<1>7. TokensInv'
  <2>1. UNCHANGED <<issued, pending, bound, waiting, ready>> BY DEF Heartbeat, tokens
  <2>2. \A x \in DOMAIN runs : runs'[x].token = runs[x].token /\ runs'[x].term = runs[x].term
    BY <1>3, <1>4
  <2>3. \A x \in DOMAIN runs : Launched(x) => runs'[x].state = runs[x].state BY <1>1, <1>3
  <2>4. QED BY <1>3, <2>1, <2>2, <2>3 DEF Inv, TokensInv, TokenAuthority, NoLostWakeup, Launched, Active
<1>8. QED BY <1>3, <1>5, <1>6, <1>7, AlikeRight
      DEF Heartbeat, Inv, CallInv, PhaseInv, tokens, flusher

\* A lease that grows late changes nothing yet.
LEMMA GrowLateRight ==
  ASSUME Inv, NEW r \in Run, GrowLate(r) PROVE Right
<1>1. r \in DOMAIN runs /\ runs[r] \in RunRec BY RecordOf DEF GrowLate
<1> DEFINE y == [runs[r] EXCEPT !.late = TRUE]
<1>2. DOMAIN runs' = DOMAIN runs /\ runs'[r] = y /\ \A x \in DOMAIN runs : x # r => runs'[x] = runs[x]
  BY <1>1 DEF GrowLate
<1>3. /\ y \in RunRec /\ y.events = runs[r].events /\ y.source = runs[r].source
      /\ y.host = runs[r].host /\ y.rev = runs[r].rev /\ y.state = runs[r].state
      /\ y.term = runs[r].term /\ y.token = runs[r].token
  BY <1>1 DEF RunRec
<1> HIDE DEF y
<1>4. Alike(runs, runs') BY <1>2, <1>3, RecordOf DEF Alike
<1>5. \A x \in DOMAIN runs : /\ runs'[x].state = runs[x].state /\ runs'[x].term = runs[x].term
                             /\ runs'[x].token = runs[x].token
  BY <1>2, <1>3
<1>6. EvidenceStep BY <1>2, <1>5, SameLives
<1>7. UNCHANGED <<issued, pending, bound, waiting, ready, call, phase, flush, dirty, writable, failed, disk>>
  BY DEF GrowLate, tokens, flusher, history
<1>8. TokensInv' BY <1>2, <1>5, <1>7 DEF Inv, TokensInv, TokenAuthority, NoLostWakeup, Launched, Active
<1>9. QED BY <1>2, <1>4, <1>6, <1>7, <1>8, AlikeRight DEF GrowLate, Inv, CallInv, PhaseInv

\* Runs that have ended begin a life without authority, or go on with it.
LEMMA ExitedRuns ==
  ASSUME Inv, NEW gone \in SUBSET DOMAIN runs, Exited(gone),
         UNCHANGED <<issued, pending, waiting, ready>>
  PROVE  /\ DOMAIN runs' = DOMAIN runs /\ DOMAIN bound' \subseteq DOMAIN bound
         /\ Alike(runs, runs') /\ EvidenceStep /\ TokensInv'
<1> DEFINE y(r) == [runs[r] EXCEPT !.state = "exited", !.rev = @ + 1, !.token = NoToken]
<1>1. /\ DOMAIN runs' = DOMAIN runs
      /\ \A r \in DOMAIN runs : runs'[r] = IF r \in gone THEN y(r) ELSE runs[r]
  BY DEF Exited
<1>2. ASSUME NEW r \in DOMAIN runs
      PROVE  /\ y(r) \in RunRec /\ y(r).events = runs[r].events /\ y(r).source = runs[r].source
             /\ y(r).host = runs[r].host /\ y(r).rev = runs[r].rev + 1 /\ y(r).state = "exited"
             /\ y(r).token = NoToken
  <2>1. runs[r] \in RunRec /\ runs[r].rev + 1 \in Nat \ {0} BY RecordOf DEF RunRec
  <2>2. QED BY <2>1 DEF RunRec
<1> HIDE DEF y
<1>3. Alike(runs, runs')
  <2>1. \A r \in DOMAIN runs : runs[r].rev \in Nat /\ runs[r] \in RunRec BY RecordOf
  <2>2. QED BY <1>1, <1>2, <2>1 DEF Alike
<1>4. EvidenceStep
  <2>1. \A r \in DOMAIN runs : r \in gone => \A i \in DOMAIN y(r).events : y(r).events[i].rev # y(r).rev
    BY <1>2, RecordOf, NewLife
  <2>2. \A r \in DOMAIN runs : r \notin gone => (Active(r) <=> runs'[r].state = "running")
    BY <1>1 DEF Active
  <2>3. QED BY <1>1, <2>1, <2>2 DEF EvidenceStep
<1>5. /\ DOMAIN bound' = {t \in DOMAIN bound : bound[t] \notin gone}
      /\ \A t \in DOMAIN bound' : bound'[t] = bound[t]
  BY DEF Exited, Unbound
<1>6. TokensInv'
  <2>1. \A t \in DOMAIN bound' : t \in DOMAIN bound /\ bound[t] \in DOMAIN runs
    BY <1>5 DEF Inv, TokensInv, TokenAuthority
  <2>2. \A t \in DOMAIN bound' : runs'[bound[t]] = runs[bound[t]] BY <1>1, <1>5, <2>1
  <2>3. \A r \in DOMAIN runs : runs'[r].token # NoToken => r \notin gone /\ runs'[r] = runs[r]
    BY <1>1, <1>2
  <2>4. QED BY <1>1, <1>5, <2>1, <2>2, <2>3
          DEF Inv, TokensInv, TokenAuthority, NoLostWakeup, Launched, Active
<1>7. QED BY <1>1, <1>3, <1>4, <1>5, <1>6

\* An external run is reported to have ended.
LEMMA ExitExternalRight ==
  ASSUME Inv, NEW r \in Run, ExitExternal(r) PROVE Right
<1>1. /\ {r} \in SUBSET DOMAIN runs /\ Exited({r}) /\ UNCHANGED <<issued, pending, waiting, ready>>
  BY DEF ExitExternal
<1>2. /\ DOMAIN runs' = DOMAIN runs /\ DOMAIN bound' \subseteq DOMAIN bound
      /\ Alike(runs, runs') /\ EvidenceStep /\ TokensInv'
  BY <1>1, ExitedRuns
<1>3. /\ made' = made /\ UNCHANGED <<call, phase, flush, pending, waiting>> /\ Persist(runs')
      /\ phase # "off"
  BY DEF ExitExternal, flusher, IsUp
<1>4. QED BY <1>2, <1>3, AlikeRight DEF Inv, CallInv, PhaseInv

\* The runs of a terminal end with it.
LEMMA RecordTerminalExitRight ==
  ASSUME Inv, NEW t \in Terminal, RecordTerminalExit(t) PROVE Right
<1> DEFINE gone == {r \in DOMAIN runs : runs[r].term = t /\ runs[r].state # "exited"}
<1>1. /\ gone \in SUBSET DOMAIN runs /\ Exited(gone) /\ UNCHANGED <<issued, pending, waiting, ready>>
  BY DEF RecordTerminalExit
<1>2. /\ DOMAIN runs' = DOMAIN runs /\ DOMAIN bound' \subseteq DOMAIN bound
      /\ Alike(runs, runs') /\ EvidenceStep /\ TokensInv'
  BY <1>1, ExitedRuns
<1>3. /\ made' = made /\ UNCHANGED <<call, phase, flush, pending, waiting>> /\ Persist(runs')
      /\ phase # "off"
  BY DEF RecordTerminalExit, flusher, IsUp
<1>4. QED BY <1>2, <1>3, AlikeRight DEF Inv, CallInv, PhaseInv

\* Runs that are taken out take the authority of their tokens with them.
LEMMA TakeOutRight ==
  ASSUME Inv, NEW gone, TakeOut(gone) PROVE Right
<1>1. /\ DOMAIN runs' = DOMAIN runs \ gone
      /\ \A r \in DOMAIN runs' : runs'[r] = runs[r]
      /\ DOMAIN bound' = {t \in DOMAIN bound : bound[t] \notin gone}
      /\ \A t \in DOMAIN bound' : bound'[t] = bound[t]
  BY DEF TakeOut, Without, Unbound
<1>2. /\ made' = made /\ UNCHANGED <<issued, pending, waiting, ready, call, phase, flush>>
      /\ Persist(runs') /\ phase # "off"
  BY DEF TakeOut, flusher, IsUp
<1>3. Alike(runs, runs')
  <2>1. \A r \in DOMAIN runs : runs[r].rev \in Nat /\ runs[r] \in RunRec BY RecordOf
  <2>2. QED BY <1>1, <2>1 DEF Alike
<1>4. EvidenceStep BY <1>1, SameLives
<1>5. TokensInv'
  <2>1. \A t \in DOMAIN bound' : bound'[t] = bound[t] /\ bound[t] \in DOMAIN runs'
    BY <1>1 DEF Inv, TokensInv, TokenAuthority
  <2>2. QED BY <1>1, <1>2, <2>1 DEF Inv, TokensInv, TokenAuthority, NoLostWakeup, Launched, Active
<1>6. QED BY <1>1, <1>2, <1>3, <1>4, <1>5, AlikeRight DEF Inv, CallInv, PhaseInv

-----------------------------------------------------------------------------
(* Tokens *)

\* A token that was pending gets the authority of one run that had none.
LEMMA BindTokenRight ==
  ASSUME Inv, NEW t, NEW r, BindToken(t, r) PROVE Right
<1>1. /\ r \in DOMAIN runs /\ runs[r] \in RunRec /\ t \in pending /\ Launched(r) /\ Active(r)
      /\ runs[r].token = NoToken
  BY RecordOf DEF BindToken
<1>2. t \in Token /\ t # NoToken /\ t \notin DOMAIN bound /\ t \in 1..issued
  BY <1>1, RegistryAssumption DEF Inv, TokensInv, TokenAuthority, Token, NoToken
<1> DEFINE y == [runs[r] EXCEPT !.token = t]
<1>3. DOMAIN runs' = DOMAIN runs /\ runs'[r] = y /\ \A x \in DOMAIN runs : x # r => runs'[x] = runs[x]
  BY <1>1 DEF BindToken
<1>4. /\ y \in RunRec /\ y.events = runs[r].events /\ y.source = runs[r].source
      /\ y.host = runs[r].host /\ y.rev = runs[r].rev /\ y.state = runs[r].state
      /\ y.term = runs[r].term /\ y.token = t
  BY <1>1, <1>2 DEF RunRec
<1> HIDE DEF y
<1>5. Alike(runs, runs') BY <1>3, <1>4, RecordOf DEF Alike
<1>6. \A x \in DOMAIN runs : /\ runs'[x].state = runs[x].state /\ runs'[x].term = runs[x].term
                             /\ runs'[x].token = IF x = r THEN t ELSE runs[x].token
  BY <1>3, <1>4
<1>7. EvidenceStep BY <1>3, <1>6, SameLives
<1>8. /\ pending' = pending \ {t} /\ ready' = ready \cup (waiting \cap {t})
      /\ DOMAIN bound' = DOMAIN bound \cup {t} /\ bound'[t] = r
      /\ \A u \in DOMAIN bound : u # t => bound'[u] = bound[u]
      /\ UNCHANGED <<made, issued, waiting, call, phase, flush, history>>
  BY DEF BindToken, flusher
<1>9. TokensInv'
  <2>1. /\ issued' \in 0..MaxToken /\ pending' \subseteq 1..issued' /\ DOMAIN bound' \subseteq 1..issued'
        /\ waiting' \cup ready' \subseteq Token
    BY <1>2, <1>8 DEF Inv, TokensInv
  <2>2. DOMAIN bound' \cap pending' = {} BY <1>8 DEF Inv, TokensInv, TokenAuthority
  <2>3. ASSUME NEW u \in DOMAIN bound'
        PROVE  /\ bound'[u] \in DOMAIN runs' /\ Launched(bound[u])' /\ Active(bound[u])'
               /\ runs'[bound'[u]].token = u
    <3>1. CASE u = t BY <1>1, <1>3, <1>6, <1>8, <3>1 DEF Launched, Active
    <3>2. CASE u # t
      <4>1. u \in DOMAIN bound /\ bound'[u] = bound[u] /\ bound[u] # r
        <5>1. u \in DOMAIN bound /\ bound'[u] = bound[u] BY <1>8, <3>2
        <5>2. u # NoToken BY <5>1, RegistryAssumption DEF Inv, TokensInv, NoToken
        <5>3. QED BY <1>1, <5>1, <5>2 DEF Inv, TokensInv, TokenAuthority
      <4>2. QED BY <1>3, <1>6, <4>1 DEF Inv, TokensInv, TokenAuthority, Launched, Active
    <3>3. QED BY <3>1, <3>2
  <2>4. ASSUME NEW x \in DOMAIN runs', runs'[x].token # NoToken
        PROVE  runs'[x].token \in DOMAIN bound' /\ bound'[runs'[x].token] = x
    <3>1. CASE x = r BY <1>6, <1>8, <1>1, <3>1
    <3>2. CASE x # r
      <4>1. runs[x].token \in DOMAIN bound /\ bound[runs[x].token] = x
        BY <1>3, <1>6, <2>4, <3>2 DEF Inv, TokensInv, TokenAuthority
      <4>2. QED BY <1>2, <1>3, <1>6, <1>8, <3>2, <4>1
    <3>3. QED BY <3>1, <3>2
  <2>5. NoLostWakeup' BY <1>8 DEF Inv, TokensInv, NoLostWakeup
  <2>6. QED BY <2>1, <2>2, <2>3, <2>4, <2>5 DEF TokensInv, TokenAuthority
<1>10. PhaseInv'
  <2>1. phase # "off" BY <1>1 DEF Inv, PhaseInv
  <2>2. QED BY <1>8, <2>1 DEF Inv, PhaseInv
<1>11. QED BY <1>5, <1>7, <1>8, <1>9, <1>10, AlikeRight DEF Inv, CallInv

\* Tokens are revoked, pending ones or bound ones.
LEMMA RevokeRight ==
  ASSUME Inv, NEW gone, Revoke(gone),
         pending' \subseteq pending, ready \subseteq ready', ready' \subseteq ready \cup waiting,
         pending \ pending' \subseteq gone, waiting \cap (pending \ pending') \subseteq ready'
  PROVE  Right
<1> DEFINE y(r) == [runs[r] EXCEPT !.token = NoToken]
<1>1. /\ DOMAIN runs' = DOMAIN runs
      /\ \A r \in DOMAIN runs : runs'[r] = IF runs[r].token \in gone THEN y(r) ELSE runs[r]
      /\ DOMAIN bound' = DOMAIN bound \ gone
      /\ \A t \in DOMAIN bound' : bound'[t] = bound[t]
      /\ UNCHANGED <<made, issued, waiting, call, phase, flush, history>>
  BY DEF Revoke, flusher
<1>2. ASSUME NEW r \in DOMAIN runs
      PROVE  /\ y(r) \in RunRec /\ y(r).events = runs[r].events /\ y(r).source = runs[r].source
             /\ y(r).host = runs[r].host /\ y(r).rev = runs[r].rev /\ y(r).state = runs[r].state
             /\ y(r).token = NoToken /\ y(r).term = runs[r].term
  <2>1. runs[r] \in RunRec BY RecordOf
  <2>2. QED BY <2>1 DEF RunRec
<1> HIDE DEF y
<1>3. Alike(runs, runs')
  <2>1. \A r \in DOMAIN runs : runs[r].rev \in Nat /\ runs[r] \in RunRec BY RecordOf
  <2>2. QED BY <1>1, <1>2, <2>1 DEF Alike
<1>4. \A r \in DOMAIN runs :
        /\ runs'[r].state = runs[r].state /\ runs'[r].term = runs[r].term
        /\ runs'[r].token = IF runs[r].token \in gone THEN NoToken ELSE runs[r].token
  BY <1>1, <1>2
<1>5. EvidenceStep BY <1>1, <1>4, SameLives
<1>6. TokensInv'
  <2>1. /\ issued' \in 0..MaxToken /\ pending' \subseteq 1..issued' /\ DOMAIN bound' \subseteq 1..issued'
        /\ waiting' \cup ready' \subseteq Token /\ DOMAIN bound' \cap pending' = {}
    BY <1>1 DEF Inv, TokensInv, TokenAuthority
  <2>2. \A t \in DOMAIN bound' :
          /\ t \in DOMAIN bound /\ bound[t] \in DOMAIN runs /\ runs[bound[t]].token = t /\ t \notin gone
    BY <1>1 DEF Inv, TokensInv, TokenAuthority
  <2>3. \A t \in DOMAIN bound' :
          /\ bound'[t] \in DOMAIN runs' /\ Launched(bound[t])' /\ Active(bound[t])'
          /\ runs'[bound'[t]].token = t
    BY <1>1, <1>4, <2>2 DEF Inv, TokensInv, TokenAuthority, Launched, Active
  <2>4. \A r \in DOMAIN runs' : runs'[r].token # NoToken =>
          runs'[r].token \in DOMAIN bound' /\ bound'[runs'[r].token] = r
    BY <1>1, <1>4 DEF Inv, TokensInv, TokenAuthority
  <2>5. NoLostWakeup' BY <1>1 DEF Inv, TokensInv, NoLostWakeup
  <2>6. QED BY <2>1, <2>3, <2>4, <2>5 DEF TokensInv, TokenAuthority
<1>7. PhaseInv' BY <1>1 DEF Inv, PhaseInv
<1>8. QED BY <1>1, <1>3, <1>5, <1>6, <1>7, AlikeRight DEF Inv, CallInv

\* A token is revoked, or those of a terminal are.
LEMMA RevokeTokenRight ==
  ASSUME Inv, NEW t, RevokeToken(t) \/ RevokeTerminalTokens(t) PROVE Right
<1>1. CASE RevokeToken(t) BY <1>1, RevokeRight DEF RevokeToken
<1>2. CASE RevokeTerminalTokens(t) BY <1>2, RevokeRight DEF RevokeTerminalTokens
<1>3. QED BY <1>1, <1>2

-----------------------------------------------------------------------------
(* Steps that leave the runs alone *)

\* A step that leaves the runs alone has only its own state to show.
LEMMA QuietRight ==
  ASSUME Inv, UNCHANGED <<runs, made>>, UNCHANGED history \/ Persist(runs'),
         CallInv', TokensInv', PhaseInv', phase' = phase \/ phase # "closed"
  PROVE  Right
<1>1. Alike(runs, runs')
  <2>1. \A r \in DOMAIN runs : runs[r].rev \in Nat /\ runs[r] \in RunRec BY RecordOf
  <2>2. QED BY <2>1 DEF Alike
<1>2. EvidenceStep BY SameLives
<1>3. QED BY <1>1, <1>2, AlikeRight

\* The tokens are right as long as neither they nor the runs change.
LEMMA SameTokens ==
  ASSUME Inv, UNCHANGED <<runs, issued, bound, pending, waiting, ready>> PROVE TokensInv'
BY DEF Inv, TokensInv, TokenAuthority, NoLostWakeup, Launched, Active

\* A token is issued, waited for, or no longer waited for.
LEMMA TokenWaitRight ==
  ASSUME Inv, NEW t \in Token, IssueToken(t) \/ Await(t) \/ Awake(t) PROVE Right
<1>1. /\ UNCHANGED <<runs, made, bound, call, phase, flush, history>>
      /\ CallInv'
  BY DEF IssueToken, Await, Awake, Inv, CallInv, flusher
<1>2. TokensInv'
  <2>1. CASE IssueToken(t)
    <3>1. /\ t = issued + 1 /\ issued' = t /\ pending' = pending \cup {t}
          /\ UNCHANGED <<waiting, ready>> /\ issued \in Nat
      BY <2>1, RegistryAssumption DEF IssueToken, Inv, TokensInv
    <3>2. issued' \in 0..MaxToken /\ 1..issued \subseteq 1..issued' /\ t \notin 1..issued /\ t \in 1..issued'
      BY <3>1, RegistryAssumption DEF Token
    <3>3. QED BY <1>1, <3>1, <3>2 DEF Inv, TokensInv, TokenAuthority, NoLostWakeup, Launched, Active
  <2>2. CASE Await(t)
    BY <1>1, <2>2 DEF Await, Inv, TokensInv, TokenAuthority, NoLostWakeup, Launched, Active
  <2>3. CASE Awake(t)
    BY <1>1, <2>3 DEF Awake, Inv, TokensInv, TokenAuthority, NoLostWakeup, Launched, Active
  <2>4. QED BY <2>1, <2>2, <2>3
<1>3. PhaseInv'
  <2>1. CASE IssueToken(t) BY <1>1, <2>1 DEF IssueToken, Inv, PhaseInv
  <2>2. CASE Await(t) BY <1>1, <2>2 DEF Await, Inv, PhaseInv
  <2>3. CASE Awake(t) BY <1>1, <2>3 DEF Awake, Inv, PhaseInv
  <2>4. QED BY <2>1, <2>2, <2>3
<1>4. QED BY <1>1, <1>2, <1>3, QuietRight

\* A report begins without a trace in the registry.
LEMMA BeginEventRight ==
  ASSUME Inv, NEW by, NEW r, NEW n \in 1..MaxSource, BeginEvent(by, r, n) PROVE Right
<1>1. UNCHANGED <<runs, made, issued, pending, bound, waiting, ready, phase, flush, history>>
  BY DEF BeginEvent, tokens, flusher
<1>2. CallInv' BY RegistryAssumption DEF BeginEvent, CallInv
<1>3. PhaseInv' BY <1>1 DEF Inv, PhaseInv
<1>4. QED BY <1>1, <1>2, <1>3, SameTokens, QuietRight

\* The flusher sleeps, lowers the request and writes what the runs are then.
LEMMA FlusherRight == ASSUME Inv, FlusherStep PROVE Right
<1>1. /\ UNCHANGED <<runs, made, issued, pending, bound, waiting, ready, phase, call>>
      /\ flush' \in {"idle", "debounce", "write"}
  BY DEF FlusherStep, FlusherWakes, FlusherLowers, FlusherWrites, tokens
<1>2. UNCHANGED history \/ Persist(runs)
  BY DEF FlusherStep, FlusherWakes, FlusherLowers, FlusherWrites
<1>3. UNCHANGED history \/ Persist(runs') BY <1>1, <1>2, Zenon
<1>4. PhaseInv' /\ CallInv' BY <1>1 DEF Inv, PhaseInv, CallInv
<1>5. QED BY <1>1, <1>3, <1>4, SameTokens, QuietRight

-----------------------------------------------------------------------------
(* The sweeper and the shutdown *)

\* Runs whose lease is overdue begin a life without evidence.
LEMMA SweepRight == ASSUME Inv, Sweep PROVE Right
<1> DEFINE late(r) == ~Launched(r) /\ Active(r) /\ runs[r].late
           y(r) == [runs[r] EXCEPT !.state = "stale", !.rev = @ + 1]
<1>1. /\ DOMAIN runs' = DOMAIN runs
      /\ \A r \in DOMAIN runs : runs'[r] = IF late(r) THEN y(r) ELSE runs[r]
  BY DEF Sweep, Expired
<1>2. ASSUME NEW r \in DOMAIN runs
      PROVE  /\ y(r) \in RunRec /\ y(r).events = runs[r].events /\ y(r).source = runs[r].source
             /\ y(r).host = runs[r].host /\ y(r).rev = runs[r].rev + 1 /\ y(r).state = "stale"
             /\ y(r).token = runs[r].token /\ y(r).term = runs[r].term
  <2>1. runs[r] \in RunRec /\ runs[r].rev + 1 \in Nat \ {0} BY RecordOf DEF RunRec
  <2>2. QED BY <2>1 DEF RunRec
<1>3. \A r \in DOMAIN runs : late(r) => ~Launched(r) OBVIOUS
<1> HIDE DEF y, late
<1>4. Alike(runs, runs')
  <2>1. \A r \in DOMAIN runs : runs[r].rev \in Nat /\ runs[r] \in RunRec BY RecordOf
  <2>2. QED BY <1>1, <1>2, <2>1 DEF Alike
<1>5. EvidenceStep
  <2>1. \A r \in DOMAIN runs : late(r) => \A i \in DOMAIN y(r).events : y(r).events[i].rev # y(r).rev
    BY <1>2, RecordOf, NewLife
  <2>2. \A r \in DOMAIN runs : ~late(r) => (Active(r) <=> runs'[r].state = "running")
    BY <1>1 DEF Active
  <2>3. QED BY <1>1, <2>1, <2>2 DEF EvidenceStep
<1>6. /\ UNCHANGED <<made, issued, bound, pending, waiting, ready, call, phase, flush>>
      /\ UNCHANGED history \/ Persist(runs')
  BY DEF Sweep, tokens, flusher
<1>7. TokensInv'
  <2>1. \A r \in DOMAIN runs : runs'[r].token = runs[r].token /\ runs'[r].term = runs[r].term
    BY <1>1, <1>2
  <2>2. \A r \in DOMAIN runs : Launched(r) => runs'[r].state = runs[r].state BY <1>1, <1>3
  <2>3. QED BY <1>1, <1>6, <2>1, <2>2 DEF Inv, TokensInv, TokenAuthority, NoLostWakeup, Launched, Active
<1>8. QED BY <1>1, <1>4, <1>5, <1>6, <1>7, AlikeRight DEF Inv, CallInv, PhaseInv

\* The pending tokens are cleared, and whoever waits for one is told.
LEMMA BeginShutdownRight == ASSUME Inv, BeginShutdown PROVE Right
<1>1. /\ UNCHANGED <<runs, made, issued, bound, waiting, call, flush>>
      /\ phase = "up" /\ phase' = "closed" /\ Persist(runs)
      /\ pending' = {} /\ ready' = ready \cup (waiting \cap pending)
  BY DEF BeginShutdown, flusher
<1>2. Persist(runs') BY <1>1, Zenon
<1>3. TokensInv'
  BY <1>1 DEF Inv, TokensInv, TokenAuthority, NoLostWakeup, Launched, Active
<1>4. CallInv' /\ PhaseInv' BY <1>1 DEF Inv, CallInv, PhaseInv
<1>5. QED BY <1>1, <1>2, <1>3, <1>4, QuietRight

\* The last chance to write: what is not written by then was refused.
LEMMA StopFlusherRight == ASSUME Inv, StopFlusher PROVE Right
<1>1. /\ UNCHANGED <<runs, made, issued, bound, pending, waiting, ready, call>>
      /\ phase = "closed" /\ phase' = "joined" /\ flush' = "stopped"
      /\ IF dirty THEN Persist(runs) ELSE UNCHANGED history
  BY DEF StopFlusher, tokens
<1>2. UNCHANGED history \/ Persist(runs') BY <1>1, Zenon
<1>3. TokensInv' BY <1>1, SameTokens
<1>4. CallInv' /\ PhaseInv' BY <1>1 DEF Inv, CallInv, PhaseInv
<1>5. Alike(runs, runs')
  <2>1. \A r \in DOMAIN runs : runs[r].rev \in Nat /\ runs[r] \in RunRec BY RecordOf
  <2>2. QED BY <1>1, <2>1 DEF Alike
<1>6. RunsInv' /\ HistoryInv' /\ NewerStep BY <1>1, <1>2, <1>5, AlikeStep DEF NewerStep
<1>7. AuthorityStep /\ ReplayStep /\ EvidenceStep
  <2>1. NoEvent BY <1>1 DEF NoEvent
  <2>2. QED BY <1>1, <2>1, NoEventRight, SameLives
<1>8. SavesStep
  <2>1. SUFFICES ASSUME ~failed', writable', ~disk'.newer PROVE Holds(disk', runs') BY DEF SavesStep, Holds
  <2>2. ~dirty'
    <3>1. CASE dirty
      <4>1. Persist(runs) BY <1>1, <3>1
      <4>2. QED BY <2>1, <4>1, Zenon DEF Persist, Written, WriteFails, history
    <3>2. CASE ~dirty BY <1>1, <3>2 DEF history
    <3>3. QED BY <3>1, <3>2
  <2>3. QED BY <1>6, <2>1, <2>2 DEF HistoryInv
<1>9. QED BY <1>3, <1>4, <1>6, <1>7, <1>8 DEF Right, Inv

\* Nothing is written after the flusher.
LEMMA JoinSweeperRight == ASSUME Inv, JoinSweeper PROVE Right
<1>1. UNCHANGED <<runs, made, issued, bound, pending, waiting, ready, call, flush, history>>
  BY DEF JoinSweeper, tokens, flusher
<1>2. CallInv' /\ PhaseInv' BY <1>1 DEF JoinSweeper, Inv, CallInv, PhaseInv
<1>3. QED BY <1>1, <1>2, SameTokens, QuietRight DEF JoinSweeper

\* Whatever the phase, nothing of the registry is kept but the history.
LEMMA ForgetRight ==
  ASSUME Inv, Forget PROVE Right
<1>1. /\ DOMAIN runs' = {} /\ DOMAIN bound' = {} /\ pending' = {} /\ waiting' = {} /\ ready' = {}
      /\ phase' = "off" /\ call' = NoCall /\ flush' = "idle"
      /\ UNCHANGED <<made, issued, disk>>
  BY DEF Forget
<1>2. RunsInv'
  <2>1. Cardinality({}) = 0 BY FS_EmptySet
  <2>2. QED BY <1>1, <2>1, RegistryAssumption DEF Inv, RunsInv, RunsOk
<1>3. HistoryInv' BY <1>1 DEF Inv, HistoryInv, Behind, Holds
<1>4. CallInv' BY <1>1 DEF CallInv
<1>5. TokensInv' BY <1>1 DEF Inv, TokensInv, TokenAuthority, NoLostWakeup
<1>6. PhaseInv' BY <1>1 DEF PhaseInv
<1>7. /\ AuthorityStep /\ EvidenceStep /\ ReplayStep /\ SavesStep /\ NewerStep
  BY <1>1 DEF AuthorityStep, EvidenceStep, ReplayStep, SavesStep, NewerStep
<1>8. QED BY <1>2, <1>3, <1>4, <1>5, <1>6, <1>7 DEF Right, Inv

\* A newer history says nothing about the runs, and is not overwritten.
LEMMA TakeOverRight == ASSUME Inv, TakeOver PROVE Right
<1>1. /\ UNCHANGED <<runs, made, issued, bound, pending, waiting, ready, call, phase, flush>>
      /\ disk'.newer = TRUE /\ disk'.newer \in BOOLEAN /\ DOMAIN disk'.recs = {}
  BY DEF TakeOver, tokens, flusher
<1>2. HistoryInv'
  <2>1. Cardinality({}) = 0 BY FS_EmptySet
  <2>2. QED BY <1>1, <2>1, RegistryAssumption DEF HistoryInv, DiskOk, Behind
<1>3. RunsInv' /\ CallInv' /\ PhaseInv' /\ TokensInv'
  BY <1>1, SameTokens DEF Inv, RunsInv, CallInv, PhaseInv
<1>4. AuthorityStep /\ ReplayStep /\ EvidenceStep
  <2>1. NoEvent BY <1>1 DEF NoEvent
  <2>2. QED BY <1>1, <2>1, NoEventRight, SameLives
<1>5. SavesStep /\ NewerStep BY <1>1 DEF SavesStep, NewerStep
<1>6. QED BY <1>2, <1>3, <1>4, <1>5 DEF Right, Inv

\* What comes back with the history.
LEMMA StartRight == ASSUME Inv, Start PROVE Right
<1>1. /\ phase = "off" /\ phase' = "up" /\ DOMAIN runs = {} /\ DOMAIN bound = {} /\ pending = {} /\ waiting = {}
      /\ UNCHANGED <<made, issued, bound, pending, waiting, ready, call, flush, disk>>
      /\ \/ /\ runs' = [r \in DOMAIN disk.recs |-> Restored(disk.recs[r])]
            /\ dirty' = (~disk.newer /\ disk.recs # <<>>)
         \/ runs' = <<>>
  BY DEF Start, tokens, flusher, Inv, PhaseInv
<1>2. ASSUME NEW r \in DOMAIN runs'
      PROVE  /\ r \in DOMAIN disk.recs /\ Fine(runs'[r]) /\ runs'[r].token = NoToken
             /\ runs'[r].source = disk.recs[r].source /\ runs'[r].source \in Nat
             /\ \A i \in DOMAIN runs'[r].events : runs'[r].events[i].rev # runs'[r].rev
  <2>1. r \in DOMAIN disk.recs /\ runs'[r] = Restored(disk.recs[r]) BY <1>1
  <2>2. FineSaved(disk.recs[r]) /\ disk.recs[r].source \in Nat
    BY <2>1 DEF Inv, HistoryInv, DiskOk, FineSaved, SavedRec
  <2>3. QED BY <2>1, <2>2, RestoredFine
<1>3. DOMAIN runs' = DOMAIN disk.recs \/ DOMAIN runs' = {} BY <1>1
<1>4. RunsInv'
  <2>1. Cardinality({}) = 0 BY FS_EmptySet
  <2>2. QED BY <1>1, <1>2, <1>3, <2>1, RegistryAssumption DEF Inv, RunsInv, RunsOk, HistoryInv, DiskOk
<1>5. HistoryInv'
  <2>1. DiskOk(disk', made') /\ Behind(disk', runs')
    <3>1. \A r \in DOMAIN runs' : disk'.recs[r].source <= runs'[r].source BY <1>1, <1>2
    <3>2. QED BY <1>1, <3>1 DEF Inv, HistoryInv, Behind
  <2>2. ASSUME ~dirty', ~disk'.newer PROVE DOMAIN runs' = {}
    <3>1. CASE runs' = <<>> BY <3>1
    <3>2. CASE /\ runs' = [r \in DOMAIN disk.recs |-> Restored(disk.recs[r])]
               /\ dirty' = (~disk.newer /\ disk.recs # <<>>)
      <4>1. disk' = disk BY <1>1
      <4>2. ~disk.newer BY <2>2, <4>1, Zenon
      <4>3. disk.recs = <<>> BY <2>2, <3>2, <4>2, Zenon
      <4>4. QED BY <3>2, <4>3
    <3>3. QED BY <1>1, <3>1, <3>2
  <2>3. QED BY <2>1, <2>2 DEF HistoryInv, Holds
<1>6. CallInv' /\ PhaseInv' BY <1>1 DEF Inv, CallInv, PhaseInv
<1>7. TokensInv' BY <1>1, <1>2 DEF Inv, TokensInv, TokenAuthority, NoLostWakeup
<1>8. AuthorityStep /\ EvidenceStep /\ ReplayStep /\ SavesStep /\ NewerStep
  BY <1>1, <1>2 DEF AuthorityStep, EvidenceStep, ReplayStep, SavesStep, NewerStep
<1>9. QED BY <1>4, <1>5, <1>6, <1>7, <1>8 DEF Right, Inv
-----------------------------------------------------------------------------
(* New runs and events *)

\* A run that is new has nothing to be wrong about; it is not in the history.
LEMMA RegisterRight ==
  ASSUME Inv, NEW r \in Run, NEW t \in Terminal \cup {External}, NEW linked \in BOOLEAN,
         Register(r, t, linked)
  PROVE  Right
<1>1. /\ r = made + 1 /\ r \in 0..MaxRun /\ made' = r /\ made \in Nat /\ r \in Nat
      /\ phase = "up" /\ Persist(runs')
      /\ UNCHANGED <<issued, pending, waiting, ready, call, phase, flush>>
  BY RegistryAssumption DEF Register, flusher, Run, Inv, RunsInv
<1>2. PICK gone \in {{}} \cup {{o} : o \in {o \in DOMAIN runs : ~Active(o)}} :
        /\ gone = {} <=> Cardinality(DOMAIN runs) < MaxRecords
        /\ runs' = [o \in (DOMAIN runs \ gone) \cup {r} |-> IF o = r THEN New(t, linked) ELSE runs[o]]
        /\ bound' = Unbound(gone)
  BY DEF Register
<1> DEFINE kept == DOMAIN runs \ gone
<1>3. DOMAIN runs \subseteq 1..made /\ r \notin DOMAIN runs /\ r \notin 1..made /\ 1..made \subseteq 1..r
  BY <1>1 DEF Inv, RunsInv, RunsOk
<1>4. /\ DOMAIN runs' = kept \cup {r} /\ runs'[r] = New(t, linked)
      /\ \A o \in kept : runs'[o] = runs[o]
  BY <1>2, <1>3
<1>5. Cardinality(kept \cup {r}) <= MaxRecords
  <2>1. IsFiniteSet(DOMAIN runs) /\ Cardinality(DOMAIN runs) <= MaxRecords
    <3>1. 1 \in Int /\ made \in Int BY <1>1
    <3>2. IsFiniteSet(1..made) BY <3>1, FS_Interval
    <3>3. QED BY <1>3, <3>2, FS_Subset DEF Inv, RunsInv, RunsOk
  <2>2. IsFiniteSet(kept) /\ Cardinality(kept) \in Nat /\ Cardinality(DOMAIN runs) \in Nat
    BY <2>1, FS_Subset, FS_CardinalityType
  <2>3. Cardinality(kept \cup {r}) = Cardinality(kept) + 1 BY <1>3, <2>2, FS_AddElement
  <2>4. CASE gone = {}
    <3>1. kept = DOMAIN runs BY <2>4
    <3>2. Cardinality(DOMAIN runs) < MaxRecords BY <1>2, <2>4
    <3>3. QED BY <2>2, <2>3, <3>1, <3>2, RegistryAssumption
  <2>5. CASE gone # {}
    <3>1. PICK o \in DOMAIN runs : gone = {o} BY <1>2, <2>5
    <3>2. Cardinality(kept) = Cardinality(DOMAIN runs) - 1 BY <2>1, <3>1, FS_RemoveElement
    <3>3. QED BY <2>1, <2>2, <2>3, <3>2, RegistryAssumption
  <2>6. QED BY <2>4, <2>5
<1>6. New(t, linked).events = <<>> /\ New(t, linked).token = NoToken BY DEF New
<1>7. RunsOk(runs', r)
  <2>1. \A o \in DOMAIN runs' : Fine(runs'[o]) BY <1>4, NewFine DEF Inv, RunsInv, RunsOk
  <2>2. DOMAIN runs' \subseteq 1..r BY <1>1, <1>3, <1>4
  <2>3. QED BY <1>4, <1>5, <2>1, <2>2 DEF RunsOk
<1>8. DiskOk(disk, r) /\ Behind(disk, runs')
  <2>1. DiskOk(disk, made) /\ Behind(disk, runs) BY DEF Inv, HistoryInv
  <2>2. DOMAIN disk.recs \subseteq 1..made /\ r \notin DOMAIN disk.recs BY <1>3, <2>1 DEF DiskOk
  <2>3. QED BY <1>3, <1>4, <2>1, <2>2 DEF DiskOk, Behind
<1>9. RunsInv' /\ HistoryInv' /\ NewerStep
  <2>1. /\ DiskOk(disk', r) /\ Behind(disk', runs')
        /\ ~dirty' /\ writable' /\ ~disk'.newer => Holds(disk', runs')
        /\ disk.newer => disk'.newer
    BY <1>1, <1>7, <1>8, PersistOk
  <2>2. QED BY <1>1, <1>7, <2>1 DEF RunsInv, HistoryInv, NewerStep
<1>10. AuthorityStep /\ ReplayStep /\ SavesStep
  <2>1. NoEvent BY <1>3, <1>4 DEF NoEvent
  <2>2. QED BY <1>1, <2>1, NoEventRight DEF SavesStep
<1>11. EvidenceStep
  <2>1. \A i \in DOMAIN runs'[r].events : FALSE BY <1>4, <1>6
  <2>2. \A o \in kept : Active(o) <=> runs'[o].state = "running" BY <1>4 DEF Active
  <2>3. QED BY <1>4, <2>1, <2>2, Zenon DEF EvidenceStep
<1>12. TokensInv'
  <2>1. /\ DOMAIN bound' = {u \in DOMAIN bound : bound[u] \notin gone}
        /\ \A u \in DOMAIN bound' : bound'[u] = bound[u] /\ bound[u] \in kept
    BY <1>2 DEF Unbound, Inv, TokensInv, TokenAuthority
  <2>2. \A o \in DOMAIN runs' : runs'[o].token # NoToken => o \in kept /\ runs'[o] = runs[o]
    BY <1>4, <1>6
  <2>3. QED BY <1>1, <1>4, <2>1, <2>2 DEF Inv, TokensInv, TokenAuthority, NoLostWakeup, Launched, Active
<1>13. CallInv' /\ PhaseInv' BY <1>1 DEF Inv, CallInv, PhaseInv
<1>14. QED BY <1>9, <1>10, <1>11, <1>12, <1>13 DEF Right, Inv

\* A step that changes the events of one run and asks for a write.
LEMMA ScheduleRight ==
  ASSUME Inv, NEW r \in DOMAIN runs, NEW y, Fine(y),
         DOMAIN runs' = DOMAIN runs, runs'[r] = y, \A o \in DOMAIN runs : o # r => runs'[o] = runs[o],
         y.source >= runs[r].source,
         y.state = runs[r].state, y.term = runs[r].term, y.token = runs[r].token,
         SchedulePersist, UNCHANGED <<made, tokens, phase>>, CallInv'
  PROVE  Inv' /\ EvidenceStep /\ SavesStep /\ NewerStep
<1>1. /\ UNCHANGED <<issued, pending, bound, waiting, ready, flush, disk>>
      /\ ~dirty' => ~writable' /\ UNCHANGED dirty
  BY DEF tokens, SchedulePersist
<1>2. RunsInv' BY DEF Inv, RunsInv, RunsOk
<1>3. HistoryInv'
  <2>1. Behind(disk, runs')
    <3>1. ASSUME NEW o \in DOMAIN runs \cap DOMAIN disk.recs PROVE disk.recs[o].source <= runs'[o].source
      <4>1. disk.recs[o].source <= runs[o].source BY DEF Inv, HistoryInv, Behind
      <4>2. disk.recs[o].source \in Nat BY DEF Inv, HistoryInv, DiskOk, FineSaved, SavedRec
      <4>3. runs[o].source \in Nat /\ y.source \in Nat BY RecordOf DEF Fine, RunRec
      <4>4. QED BY <4>1, <4>2, <4>3
    <3>2. QED BY <3>1 DEF Behind
  <2>2. ~(~dirty' /\ writable') BY <1>1
  <2>3. QED BY <1>1, <2>1, <2>2 DEF Inv, HistoryInv
<1>4. \A o \in DOMAIN runs : /\ runs'[o].state = runs[o].state /\ runs'[o].term = runs[o].term
                             /\ runs'[o].token = runs[o].token
  OBVIOUS
<1>5. TokensInv' BY <1>1, <1>4 DEF Inv, TokensInv, TokenAuthority, NoLostWakeup, Launched, Active
<1>6. PhaseInv' BY <1>1 DEF Inv, PhaseInv
<1>7. EvidenceStep BY <1>4, SameLives
<1>8. SavesStep /\ NewerStep
  <2>1. \A p, q : p = "closed" /\ q = p => q # "joined" OBVIOUS
  <2>2. QED BY <1>1, <2>1 DEF SavesStep, NewerStep
<1>9. QED BY <1>2, <1>3, <1>5, <1>6, <1>7, <1>8 DEF Inv

\* An event is added to the run that has the authority now, numbered above all
\* that came before.
LEMMA CommitEventRight == ASSUME Inv, CommitEvent PROVE Right
<1>1. /\ call # NoCall /\ call' = NoCall /\ phase # "off"
      /\ UNCHANGED <<made, issued, pending, bound, waiting, ready, phase>>
  BY DEF CommitEvent, IsUp, tokens
<1>2. CallInv' BY <1>1 DEF CallInv
<1>3. CASE UNCHANGED <<runs, flusher, history>>
  <2>1. PhaseInv' BY <1>1, <1>3 DEF Inv, PhaseInv, flusher
  <2>2. QED BY <1>1, <1>2, <1>3, <2>1, SameTokens, QuietRight
<1>4. CASE \E r \in Authorised(call) : Accept(r) /\ call.source > runs[r].source
  <2>1. PICK r \in Authorised(call) : Accept(r) /\ call.source > runs[r].source BY <1>4
  <2>2. r \in DOMAIN runs /\ Active(r) /\ Authorised(call) = {r} BY <2>1 DEF Authorised
  <2>3. call.source \in Nat BY <1>1 DEF Inv, CallInv
  <2>4. /\ runs[r] \in RunRec /\ runs[r].events \in Seq(EventSet) /\ runs[r].source \in Nat
        /\ runs[r].host \in Nat /\ runs[r].rev \in Nat
        /\ Ordered(runs[r].events, runs[r].source, runs[r].host, runs[r].rev)
    BY <2>2, RecordOf DEF Fine, RunRec
  <2> DEFINE e == Event(r)
             added == Append(runs[r].events, e)
             kept == Retained(added)
             y == [runs[r] EXCEPT !.events = kept, !.host = @ + 1, !.source = call.source]
  <2>5. /\ e \in EventSet /\ e.source = call.source /\ e.host = runs[r].host + 1 /\ e.rev = runs[r].rev
        /\ e.source > runs[r].source /\ e.host > runs[r].host
    BY <2>1, <2>3, <2>4 DEF Event, EventSet
  <2>6. /\ runs' = [runs EXCEPT ![r].events = Retained(Append(@, Event(r))),
                                ![r].host = @ + 1, ![r].source = call.source]
        /\ SchedulePersist
    <3>1. ~(call.source <= runs[r].source) BY <2>1, <2>3, <2>4
    <3>2. QED BY <2>1, <3>1 DEF Accept
  <2>7. DOMAIN runs' = DOMAIN runs /\ runs'[r] = y /\ \A o \in DOMAIN runs : o # r => runs'[o] = runs[o]
    BY <2>2, <2>6
  <2> HIDE DEF e
  <2>8. added \in Seq(EventSet) /\ Ordered(added, e.source, e.host, runs[r].rev)
    BY <2>4, <2>5, OrderedAppend
  <2> HIDE DEF added
  <2>9. /\ kept \in Seq(EventSet) /\ Len(kept) <= RetainLast /\ Len(kept) <= Len(added)
        /\ \A i \in 1..Len(kept) : kept[i] = added[i + (Len(added) - Len(kept))]
    BY <2>8, RetainedLast
  <2> HIDE DEF kept
  <2>10. Ordered(kept, e.source, e.host, runs[r].rev)
    <3> DEFINE gone == Len(added) - Len(kept)
    <3>1. Len(kept) \in Nat /\ Len(added) \in Nat BY <2>8, <2>9
    <3>2. \A m, n \in Nat : m <= n => n - m \in Nat /\ \A i \in 1..m : i + (n - m) \in 1..n OBVIOUS
    <3>3. gone \in Nat /\ \A i \in 1..Len(kept) : i + gone \in 1..Len(added) BY <2>9, <3>1, <3>2
    <3>4. \A i \in 1..Len(kept) : kept[i] = added[i + gone] BY <2>9
    <3>5. e.source \in Nat /\ e.host \in Nat /\ runs[r].rev \in Nat BY <2>3, <2>4, <2>5
    <3>6. e.source <= e.source /\ e.host <= e.host /\ runs[r].rev <= runs[r].rev BY <3>5
    <3> HIDE DEF gone
    <3>7. QED BY <2>8, <2>9, <3>3, <3>4, <3>5, <3>6, OrderedPart
  <2>11. /\ y \in RunRec /\ y.events = kept /\ y.source = e.source /\ y.host = e.host
         /\ y.rev = runs[r].rev /\ y.state = runs[r].state /\ y.term = runs[r].term
         /\ y.token = runs[r].token
    <3>1. runs[r].host + 1 \in Nat BY <2>4
    <3>2. QED BY <2>3, <2>4, <2>5, <2>9, <3>1 DEF RunRec
  <2> HIDE DEF y
  <2>12. Fine(y) BY <2>9, <2>10, <2>11 DEF Fine
  <2>13. y.source >= runs[r].source /\ y.source > runs[r].source
    BY <2>3, <2>4, <2>5, <2>11
  <2>14. UNCHANGED <<made, tokens, phase>> BY DEF CommitEvent
  <2>15. Inv' /\ EvidenceStep /\ SavesStep /\ NewerStep
    BY <1>2, <2>2, <2>6, <2>7, <2>11, <2>12, <2>13, <2>14, ScheduleRight
  <2>16. \A o \in DOMAIN runs : runs'[o].host > runs[o].host => o = r
    <3>1. \A o \in DOMAIN runs : runs[o].host \in Nat BY RecordOf DEF RunRec
    <3>2. QED BY <2>7, <3>1
  <2>17. AuthorityStep BY <2>2, <2>16 DEF AuthorityStep
  <2>18. ReplayStep
    <3>1. r \in DOMAIN disk.recs => y.source > disk.recs[r].source
      <4>1. r \in DOMAIN disk.recs => disk.recs[r].source \in Nat /\ disk.recs[r].source <= runs[r].source
        BY <2>2 DEF Inv, HistoryInv, Behind, DiskOk, FineSaved, SavedRec
      <4>2. y.source \in Nat BY <2>11 DEF RunRec
      <4>3. QED BY <2>4, <2>13, <4>1, <4>2
    <3>2. QED BY <2>7, <2>16, <3>1 DEF ReplayStep
  <2>19. QED BY <2>15, <2>17, <2>18 DEF Right
<1>5. UNCHANGED <<runs, flusher, history>>
      \/ \E r \in Authorised(call) : Accept(r) /\ call.source > runs[r].source
  <2>1. CASE Authorised(call) = {} BY <2>1 DEF CommitEvent
  <2>2. CASE Authorised(call) # {}
    <3>1. PICK r \in Authorised(call) : Accept(r) BY <2>2 DEF CommitEvent
    <3>2. r \in DOMAIN runs BY DEF Authorised
    <3>3. call.source \in Nat /\ runs[r].source \in Nat BY <1>1, <3>2, RecordOf DEF Inv, CallInv, RunRec
    <3>4. CASE call.source <= runs[r].source BY <3>1, <3>4 DEF Accept
    <3>5. CASE call.source > runs[r].source BY <3>1, <3>5
    <3>6. QED BY <3>3, <3>4, <3>5
  <2>3. QED BY <2>1, <2>2
<1>6. QED BY <1>3, <1>4, <1>5

\* The oldest event is dropped.
LEMMA EventSnapshotRight == ASSUME Inv, NEW r, EventSnapshot(r) PROVE Right
<1>1. /\ r \in DOMAIN runs /\ runs[r].events # <<>> /\ SchedulePersist
      /\ UNCHANGED <<made, tokens, phase>> /\ CallInv'
  BY DEF EventSnapshot, Inv, CallInv
<1>2. /\ runs[r] \in RunRec /\ runs[r].events \in Seq(EventSet) /\ runs[r].source \in Nat
      /\ runs[r].host \in Nat /\ runs[r].rev \in Nat /\ Len(runs[r].events) <= RetainLast
      /\ Ordered(runs[r].events, runs[r].source, runs[r].host, runs[r].rev)
  BY <1>1, RecordOf DEF Fine, RunRec
<1> DEFINE kept == Tail(runs[r].events)
           y == [runs[r] EXCEPT !.events = kept]
<1>3. DOMAIN runs' = DOMAIN runs /\ runs'[r] = y /\ \A o \in DOMAIN runs : o # r => runs'[o] = runs[o]
  BY <1>1 DEF EventSnapshot
<1>4. /\ kept \in Seq(EventSet) /\ Len(kept) = Len(runs[r].events) - 1
      /\ \A i \in 1..Len(kept) : i + 1 \in 1..Len(runs[r].events) /\ kept[i] = runs[r].events[i + 1]
  BY <1>1, <1>2
<1> HIDE DEF kept
<1>5. Ordered(kept, runs[r].source, runs[r].host, runs[r].rev)
  <2>1. /\ runs[r].source <= runs[r].source /\ runs[r].host <= runs[r].host
        /\ runs[r].rev <= runs[r].rev /\ 1 \in Nat
    BY <1>2
  <2>2. QED BY <1>2, <1>4, <2>1, OrderedPart
<1>6. Len(kept) <= RetainLast
  <2>1. Len(runs[r].events) \in Nat /\ RetainLast \in Nat BY <1>2, RegistryAssumption
  <2>2. QED BY <1>2, <1>4, <2>1
<1>7. /\ y \in RunRec /\ y.events = kept /\ y.source = runs[r].source /\ y.host = runs[r].host
      /\ y.rev = runs[r].rev /\ y.state = runs[r].state /\ y.term = runs[r].term
      /\ y.token = runs[r].token /\ y.source >= runs[r].source
  <2>1. runs[r].source >= runs[r].source BY <1>2
  <2>2. runs[r] \in RunRec /\ kept \in Seq(EventSet) BY <1>2, <1>4
  <2>3. y \in RunRec BY <2>2 DEF RunRec
  <2>4. QED BY <2>1, <2>2, <2>3 DEF RunRec
<1> HIDE DEF y
<1>8. Fine(y) BY <1>5, <1>6, <1>7 DEF Fine
<1>9. Inv' /\ EvidenceStep /\ SavesStep /\ NewerStep BY <1>1, <1>3, <1>7, <1>8, ScheduleRight
<1>10. NoEvent BY <1>3, <1>7 DEF NoEvent
<1>11. QED BY <1>9, <1>10, NoEventRight DEF Right

-----------------------------------------------------------------------------
(* The theorems *)

\* A registry that never started.
LEMMA InitInv == Init => Inv
<1> SUFFICES ASSUME Init PROVE Inv OBVIOUS
<1>1. /\ DOMAIN runs = {} /\ DOMAIN bound = {} /\ pending = {} /\ waiting = {} /\ ready = {}
      /\ dirty = FALSE /\ made = 0 /\ issued = 0 /\ call = NoCall /\ phase = "off" /\ flush = "idle"
      /\ disk.newer = FALSE /\ DOMAIN disk.recs = {}
  BY DEF Init
<1>2. Cardinality({}) = 0 BY FS_EmptySet
<1>3. RunsInv /\ HistoryInv
  <2>1. RunsOk(runs, 0) BY <1>1, <1>2, RegistryAssumption DEF RunsOk
  <2>2. DiskOk(disk, 0)
    <3>1. disk.newer \in BOOLEAN BY <1>1, Zenon
    <3>2. QED BY <1>1, <1>2, <3>1, RegistryAssumption DEF DiskOk
  <2>3. QED BY <1>1, <2>1, <2>2, RegistryAssumption DEF RunsInv, HistoryInv, Behind, Holds
<1>4. CallInv /\ TokensInv /\ PhaseInv
  BY <1>1, RegistryAssumption DEF CallInv, TokensInv, TokenAuthority, NoLostWakeup, PhaseInv
<1>5. QED BY <1>3, <1>4 DEF Inv

\* Every step keeps the invariant and is one that a registry may take.
LEMMA NextRight == ASSUME Inv, [Next]_vars PROVE Right
<1>1. ASSUME NEW r \in Run, RunStep(r) PROVE Right
  <2>1. CASE \E t \in Terminal \cup {External}, linked \in BOOLEAN : Register(r, t, linked)
    BY <2>1, RegisterRight
  <2>2. CASE \E t \in Terminal \cup {External}, linked \in BOOLEAN : RollbackLaunched(r, t, linked)
    BY <2>2, TakeOutRight DEF RollbackLaunched
  <2>3. CASE Heartbeat(r) BY <2>3, HeartbeatRight
  <2>4. CASE GrowLate(r) BY <2>4, GrowLateRight
  <2>5. CASE ExitExternal(r) BY <2>5, ExitExternalRight
  <2>6. CASE EventSnapshot(r) BY <2>6, EventSnapshotRight
  <2>7. CASE \E t \in Token : BindToken(t, r) BY <2>7, BindTokenRight
  <2>8. CASE \E by \in Token \cup {External}, n \in 1..MaxSource : BeginEvent(by, r, n)
    BY <2>8, BeginEventRight
  <2>9. QED BY <1>1, <2>1, <2>2, <2>3, <2>4, <2>5, <2>6, <2>7, <2>8 DEF RunStep
<1>2. ASSUME NEW t \in Terminal, TerminalStep(t) PROVE Right
  BY <1>2, TakeOutRight, RecordTerminalExitRight, RevokeTokenRight DEF TerminalStep, RollbackLinkedTerminal
<1>3. ASSUME NEW t \in Token, TokenStep(t) PROVE Right
  BY <1>3, TokenWaitRight, RevokeTokenRight DEF TokenStep
<1>4. ASSUME ShutdownStep PROVE Right
  BY <1>4, BeginShutdownRight, StopFlusherRight, JoinSweeperRight DEF ShutdownStep
<1>5. ASSUME Quit \/ Crash PROVE Right BY <1>5, ForgetRight DEF Quit, Crash
<1>6. CASE UNCHANGED vars
  <2>1. UNCHANGED <<runs, made, issued, pending, bound, waiting, ready, call, phase, flush, history>>
    BY <1>6 DEF vars, tokens, flusher
  <2>2. CallInv' /\ PhaseInv' BY <2>1 DEF Inv, CallInv, PhaseInv
  <2>3. QED BY <2>1, <2>2, SameTokens, QuietRight
<1>7. QED
  BY <1>1, <1>2, <1>3, <1>4, <1>5, <1>6, CommitEventRight, FlusherRight, SweepRight, TakeOverRight, StartRight
  DEF Next

\* The invariant is stronger than the safety.
LEMMA InvSafe == Inv => RegistrySafe
<1> SUFFICES ASSUME Inv PROVE RegistrySafe OBVIOUS
<1>1. TypeOK
  <2>1. \A r \in DOMAIN runs :
          /\ runs[r].term \in Terminal \cup {External} /\ runs[r].state \in {"running", "stale", "exited"}
          /\ runs[r].token \in Token \cup {NoToken} /\ runs[r].rev \in Nat \ {0}
          /\ Len(runs[r].events) <= RetainLast
    BY DEF Inv, RunsInv, RunsOk, Fine, RunRec
  <2>2. DOMAIN bound \subseteq Token
    <3>1. issued \in Nat /\ MaxToken \in Nat /\ issued <= MaxToken BY RegistryAssumption DEF Inv, TokensInv
    <3>2. QED BY <3>1 DEF Inv, TokensInv, Token
  <2>3. QED BY <2>1, <2>2 DEF TypeOK, Inv, RunsInv, RunsOk, TokensInv, PhaseInv
<1>2. EventsOrdered BY DEF EventsOrdered, Inv, RunsInv, RunsOk, Fine
<1>3. QED BY <1>1, <1>2 DEF RegistrySafe, Inv, TokensInv

\* A token has the authority of one running run at most, whoever waits for one
\* is told what became of it, and the events of a run stay in order, whatever
\* the threads, the failed writes and the crashes do.
THEOREM RegistryIsSafe == Spec => []RegistrySafe
<1>1. Inv /\ [Next]_vars => Inv' BY NextRight DEF Right
<1>2. QED BY <1>1, InitInv, InvSafe, PTL DEF Spec

\* No step of a registry adds an event without authority, keeps evidence of
\* another life, accepts again what the history holds, is the stop of a
\* flusher with something unwritten, or overwrites a newer history.
THEOREM RegistryIsHonest == Spec => RegistryHonest
<1>1. Inv /\ [Next]_vars => Inv' BY NextRight DEF Right
<1>2. Inv /\ [Next]_vars => [AuthorityStep]_vars BY NextRight DEF Right
<1>3. Inv /\ [Next]_vars => [EvidenceStep]_vars BY NextRight DEF Right
<1>4. Inv /\ [Next]_vars => [ReplayStep]_vars BY NextRight DEF Right
<1>5. Inv /\ [Next]_vars => [SavesStep]_vars BY NextRight DEF Right
<1>6. Inv /\ [Next]_vars => [NewerStep]_disk BY NextRight DEF Right
<1>7. Spec => [][AuthorityStep]_vars BY <1>1, <1>2, InitInv, PTL DEF Spec
<1>8. Spec => [][EvidenceStep]_vars BY <1>1, <1>3, InitInv, PTL DEF Spec
<1>9. Spec => [][ReplayStep]_vars BY <1>1, <1>4, InitInv, PTL DEF Spec
<1>10. Spec => [][SavesStep]_vars BY <1>1, <1>5, InitInv, PTL DEF Spec
<1>11. Spec => [][NewerStep]_disk BY <1>1, <1>6, InitInv, PTL DEF Spec
<1>12. EventAuthority <=> [][AuthorityStep]_vars BY DEF EventAuthority, AuthorityStep
<1>13. StaleEvidence <=> [][EvidenceStep]_vars BY DEF StaleEvidence, EvidenceStep
<1>14. NoReplay <=> [][ReplayStep]_vars BY DEF NoReplay, ReplayStep
<1>15. ShutdownSaves <=> [][SavesStep]_vars BY DEF ShutdownSaves, SavesStep
<1>16. NewerKept <=> [][NewerStep]_disk BY DEF NewerKept, NewerStep
<1>17. QED BY <1>7, <1>8, <1>9, <1>10, <1>11, <1>12, <1>13, <1>14, <1>15, <1>16 DEF RegistryHonest
=============================================================================
