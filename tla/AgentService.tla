---------------------------- MODULE AgentService ----------------------------
(***************************************************************************)
(* The owner of all that serves agents in one generation of a project: a  *)
(* registry, an HTTP server on a thread of its own, a descriptor file in   *)
(* which tools find that server, and a gate that counts the calls of the   *)
(* desktop.  Generations of one project may overlap: the next one is       *)
(* started before the last one is shut down, and both use one descriptor.  *)
(*                                                                         *)
(* Every change that agents or calls make of the registry is announced by  *)
(* a bump of a revision and a token in a bounded channel; a watcher drains *)
(* the channel and tells the window to look again.                         *)
(*                                                                         *)
(* What a request says is left out, the registry's own rules are in        *)
(* AgentRegistry.  Calls whose announcement the terminal runtime makes     *)
(* itself are left out as well.  Timeouts may strike at any time.          *)
(***************************************************************************)
EXTENDS Integers, FiniteSets

CONSTANTS
  MaxGen,      \* bound: generations of the project, numbered in order
  Slot,        \* the places of the requests served at the same time
  Capacity,    \* INVALIDATION_CAPACITY
  WaitSlots    \* MAX_PENDING_EVENT_WAITS

ASSUME ServiceBounds == MaxGen \in Nat /\ Capacity \in Nat \ {0} /\ WaitSlots \in Nat

VARIABLES
  owner,      \* per generation: at, http, registry, call, failed
  descriptor, \* the generation whose server the descriptor file names, or 0
  requests,   \* slot -> the request served there, or NoRequest
  waits,      \* per generation, threads that wait for a token to be bound
  channel,    \* per generation, the invalidations not yet drained
  untold,     \* per generation, the registry has changed since the window
              \* was last told to look
  watcher     \* per generation, an invalidation is drained and not yet told

servicevars == <<owner, descriptor, requests, waits, channel, untold, watcher>>

Gen == 1..MaxGen
NoRequest == [gen |-> 0, at |-> "none"]

\* at: none, starting, open, then the stages of a shutdown: operations, server,
\* registry, finished; a start that fails ends in failed.
Closing(g) == owner[g].at \in {"operations", "server", "registry", "finished"}
RequestsOf(g) == {q \in Slot : requests[q].gen = g}

Moves(g, to) == owner' = [owner EXCEPT ![g].at = to]
Fails(g, to) == owner' = [owner EXCEPT ![g].at = to, ![g].failed = TRUE]

ServiceInit ==
  /\ owner = [g \in Gen |-> [at |-> "none", http |-> "none", registry |-> "none", call |-> "none", failed |-> FALSE]]
  /\ descriptor = 0
  /\ requests = [q \in Slot |-> NoRequest]
  /\ waits = [g \in Gen |-> 0] /\ channel = [g \in Gen |-> 0]
  /\ untold = [g \in Gen |-> FALSE] /\ watcher = [g \in Gen |-> FALSE]

-----------------------------------------------------------------------------
(* StartServer *)

\* The registry and the server come first, the descriptor last.
StartServer(g) ==
  /\ owner[g].at = "none" /\ \A h \in 1..(g - 1) : owner[h].at \notin {"none", "starting"}
  /\ owner' = [owner EXCEPT ![g].at = "starting", ![g].http = "up", ![g].registry = "open"]
  /\ UNCHANGED <<descriptor, requests, waits, channel, untold, watcher>>

Publish(g) ==
  /\ owner[g].at = "starting"
  /\ descriptor' = g /\ Moves(g, "open")
  /\ UNCHANGED <<requests, waits, channel, untold, watcher>>

\* The server is told to stop and joined; the file is as it was, or gone, or
\* it stays when only the directory could not be synchronised.
PublishFails(g) ==
  /\ owner[g].at = "starting"
  /\ descriptor' \in {descriptor, 0, g}
  /\ owner' = [owner EXCEPT ![g].at = "failed", ![g].http = "joined", ![g].registry = "closed"]
  /\ UNCHANGED <<requests, waits, channel, untold, watcher>>

-----------------------------------------------------------------------------
(* Changes of the registry and their announcement *)

\* Nobody drains a channel or tells a window once the generation closes: what
\* is announced then is not counted.
Sent(g) == channel' = [channel EXCEPT ![g] = IF @ < Capacity /\ ~Closing(g) THEN @ + 1 ELSE @]
Changes(g) == untold' = [untold EXCEPT ![g] = ~Closing(g)]

\* A call of the desktop passes the gate of its generation.
BeginCall(g) ==
  /\ owner[g].at = "open" /\ owner[g].call = "none"
  /\ owner' = [owner EXCEPT ![g].call = "begun"]
  /\ UNCHANGED <<descriptor, requests, waits, channel, untold, watcher>>

CallChanges(g) ==
  /\ owner[g].call = "begun" /\ owner[g].registry = "open"
  /\ owner' = [owner EXCEPT ![g].call = "send"]
  /\ Changes(g)
  /\ UNCHANGED <<descriptor, requests, waits, channel, watcher>>

CallSends(g) ==
  /\ owner[g].call = "send"
  /\ owner' = [owner EXCEPT ![g].call = "end"]
  /\ Sent(g)
  /\ UNCHANGED <<descriptor, requests, waits, untold, watcher>>

EndCall(g) ==
  /\ owner[g].call \in {"begun", "end"}
  /\ owner' = [owner EXCEPT ![g].call = "none"]
  /\ UNCHANGED <<descriptor, requests, waits, channel, untold, watcher>>

\* The watcher drains with a call of its own, so the gate must be open.
Drain(g) ==
  /\ owner[g].at = "open" /\ channel[g] > 0 /\ ~watcher[g]
  /\ channel' = [channel EXCEPT ![g] = 0]
  /\ watcher' = [watcher EXCEPT ![g] = TRUE]
  /\ UNCHANGED <<owner, descriptor, requests, waits, untold>>

Tell(g) ==
  /\ watcher[g]
  /\ watcher' = [watcher EXCEPT ![g] = FALSE]
  /\ untold' = [untold EXCEPT ![g] = FALSE]
  /\ UNCHANGED <<owner, descriptor, requests, waits, channel>>

-----------------------------------------------------------------------------
(* Requests *)

Goes(q, to) == requests' = [requests EXCEPT ![q].at = to]
EndRequest(q) == requests' = [requests EXCEPT ![q] = NoRequest]

\* Nobody knows the server before its descriptor names it.
\* The request's token is bound, or a thread shall wait until it is, or there
\* are too many that wait.
Accept(q, g) ==
  /\ owner[g].http = "up" /\ owner[g].at # "starting" /\ requests[q] = NoRequest
  /\ \E at \in {"body", "bind"} : requests' = [requests EXCEPT ![q] = [gen |-> g, at |-> at]]
  /\ UNCHANGED <<owner, descriptor, waits, channel, untold, watcher>>

\* The place is the thread's, which nobody can stop once it waits.
WaitForToken(q) ==
  /\ requests[q].at = "bind"
  /\ LET g == requests[q].gen IN
     IF waits[g] < WaitSlots
     THEN Goes(q, "wait") /\ waits' = [waits EXCEPT ![g] = @ + 1]
     ELSE EndRequest(q) /\ UNCHANGED waits
  /\ UNCHANGED <<owner, descriptor, channel, untold, watcher>>

\* The token is bound, or it is not within two seconds, or it is revoked.
WaitEnds(q) ==
  /\ requests[q].at = "wait"
  /\ waits' = [waits EXCEPT ![requests[q].gen] = @ - 1]
  /\ Goes(q, "body") \/ EndRequest(q)
  /\ UNCHANGED <<owner, descriptor, channel, untold, watcher>>

OrphanEnds(g) ==
  /\ waits[g] > Cardinality({q \in RequestsOf(g) : requests[q].at = "wait"})
  /\ waits' = [waits EXCEPT ![g] = @ - 1]
  /\ UNCHANGED <<owner, descriptor, requests, channel, untold, watcher>>

\* The body is read; the registry looks at the authority once more and takes
\* the event, or refuses it.
Commit(q) ==
  /\ requests[q].at = "body"
  /\ LET g == requests[q].gen IN
     \/ owner[g].registry = "open" /\ Changes(g) /\ Goes(q, "send")
     \/ EndRequest(q) /\ UNCHANGED untold
  /\ UNCHANGED <<owner, descriptor, waits, channel, watcher>>

Send(q) ==
  /\ requests[q].at = "send"
  /\ Sent(requests[q].gen) /\ EndRequest(q)
  /\ UNCHANGED <<owner, descriptor, waits, untold, watcher>>

\* A request can only be given up where the server waits for it: for its body,
\* at most five seconds, or for its token.
Waiting(q) == requests[q].at \in {"body", "wait"}

\* The client hangs up, or is idle, or takes too long.
Dropped(q) ==
  /\ Waiting(q)
  /\ EndRequest(q)
  /\ UNCHANGED <<owner, descriptor, waits, channel, untold, watcher>>

\* The listener fails: the thread leaves at once and drops its connections.
AcceptFails(g) ==
  /\ owner[g].at = "open" /\ owner[g].http = "up"
  /\ \A q \in RequestsOf(g) : requests[q].at # "send"
  /\ owner' = [owner EXCEPT ![g].http = "stopping"]
  /\ requests' = [q \in Slot |-> IF q \in RequestsOf(g) THEN NoRequest ELSE requests[q]]
  /\ UNCHANGED <<descriptor, waits, channel, untold, watcher>>

\* The thread ends once its connections are served or aborted and the
\* threads that wait for tokens are gone.
ServerEnds(g) ==
  /\ owner[g].http = "stopping" /\ waits[g] = 0 /\ RequestsOf(g) = {}
  /\ owner' = [owner EXCEPT ![g].http = "ended"]
  /\ UNCHANGED <<descriptor, requests, waits, channel, untold, watcher>>

-----------------------------------------------------------------------------
(* Shutdown *)

\* Later callers of shutdown wait for the first one and get its answer.  The
\* watcher has been stopped.
Shutdown(g) ==
  /\ owner[g].at = "open"
  /\ Moves(g, "operations")
  /\ channel' = [channel EXCEPT ![g] = 0]
  /\ untold' = [untold EXCEPT ![g] = FALSE] /\ watcher' = [watcher EXCEPT ![g] = FALSE]
  /\ UNCHANGED <<descriptor, requests, waits>>

\* All calls have ended, or the time is up; then the server is told.
CallsEnded(g) ==
  /\ owner[g].at = "operations"
  /\ owner' = [owner EXCEPT ![g].at = "server",
       ![g].failed = @ \/ owner[g].call # "none",
       ![g].http = IF @ = "up" THEN "stopping" ELSE @]
  /\ UNCHANGED <<descriptor, requests, waits, channel, untold, watcher>>

\* Faulty variant: removes the descriptor whatever it names.
RemovedAny(g) == 0
\* Only the descriptor with this generation and this token is removed.
Removed(g) == IF descriptor = g THEN 0 ELSE descriptor

\* The thread has ended and is joined; only then does the descriptor go.  A
\* cleanup that fails and changes nothing else is left out.
ServerJoined(g) ==
  /\ owner[g].at = "server" /\ owner[g].http = "ended"
  /\ descriptor' = Removed(g)
  /\ owner' = [owner EXCEPT ![g].at = "registry", ![g].http = "joined"]
  /\ UNCHANGED <<requests, waits, channel, untold, watcher>>

ServerTimesOut(g) ==
  /\ owner[g].at = "server" /\ owner[g].http # "ended"
  /\ Fails(g, "registry")
  /\ UNCHANGED <<descriptor, requests, waits, channel, untold, watcher>>

\* The registry admits nothing from now on; its last save is in AgentRegistry.
RegistryCloses(g) ==
  /\ owner[g].at = "registry"
  /\ owner' = [owner EXCEPT ![g].at = "finished", ![g].registry = "closed"]
  /\ UNCHANGED <<descriptor, requests, waits, channel, untold, watcher>>

\* A thread that outlasted the shutdown is joined when its owner is dropped.
DropOwner(g) ==
  /\ owner[g].at = "finished" /\ owner[g].call = "none" /\ owner[g].http = "ended"
  /\ owner' = [owner EXCEPT ![g].http = "joined"]
  /\ descriptor' = Removed(g)
  /\ UNCHANGED <<requests, waits, channel, untold, watcher>>

-----------------------------------------------------------------------------
OwnerNext(g) ==
  \/ StartServer(g) \/ Publish(g) \/ PublishFails(g)
  \/ BeginCall(g) \/ CallChanges(g) \/ CallSends(g) \/ EndCall(g)
  \/ Drain(g) \/ Tell(g)
  \/ OrphanEnds(g) \/ AcceptFails(g) \/ ServerEnds(g)
  \/ Shutdown(g) \/ CallsEnded(g) \/ ServerJoined(g) \/ ServerTimesOut(g)
  \/ RegistryCloses(g) \/ DropOwner(g)

RequestNext(q) ==
  \/ \E g \in Gen : Accept(q, g)
  \/ WaitForToken(q) \/ WaitEnds(q) \/ Commit(q) \/ Send(q) \/ Dropped(q)

ServiceNext == (\E g \in Gen : OwnerNext(g)) \/ (\E q \in Slot : RequestNext(q))

ServiceSpec == ServiceInit /\ [][ServiceNext]_servicevars
-----------------------------------------------------------------------------
(* Properties *)

\* Tools find the server of the generation that published last for as long as
\* it runs, whatever older generations still clean up; and once a server is
\* known to be gone its descriptor is gone too.
DescriptorRight ==
  \A g \in Gen :
    /\ Closing(g) /\ owner[g].http = "joined" => descriptor # g
    /\ owner[g].at # "starting" /\ owner[g].http \in {"up", "stopping", "ended"}
       /\ (\A h \in (g + 1)..MaxGen : owner[h].at \in {"none", "starting"})
       => descriptor = g

\* A change of the registry that the window was not told of is being announced,
\* or waits in the channel, or is about to be told; a full channel loses none.
ChangeTold ==
  \A g \in Gen : untold[g] /\ ~Closing(g) =>
    \/ channel[g] > 0 \/ watcher[g] \/ owner[g].call = "send"
    \/ \E q \in RequestsOf(g) : requests[q].at = "send"

\* However often clients hang up and come back, there are no more threads that
\* wait for a token than there are places.
PlacesKept == \A g \in Gen : waits[g] <= WaitSlots

\* A shutdown that reports no failure leaves no call, request, thread or
\* descriptor behind.
NothingLeft ==
  \A g \in Gen : owner[g].at = "finished" /\ ~owner[g].failed =>
    /\ owner[g].call = "none" /\ RequestsOf(g) = {} /\ waits[g] = 0
    /\ owner[g].http = "joined" /\ owner[g].registry = "closed" /\ descriptor # g

\* The services of agents at large: the descriptor names the newest server, changes are
\* told, waiters are bounded, and a shutdown without a failure leaves nothing.
ServiceSafe == DescriptorRight /\ ChangeTold /\ PlacesKept /\ NothingLeft
=============================================================================
