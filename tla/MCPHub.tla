------------------------------- MODULE MCPHub -------------------------------
(***************************************************************************)
(* The MCP hub (core/mcp/hub_server.py, class MCPHub): a registry of       *)
(* modules connected over WebSocket, a capability index and a routing      *)
(* cache over it, and the handlers that route messages between modules.    *)
(*                                                                         *)
(* The hub is one asyncio event loop: code between two awaits that really  *)
(* suspend is atomic.  The only suspensions inside a handler are a         *)
(* WebSocket send and the receive of the next message, so a handler is an  *)
(* action up to its first send, and a send is a state in which every other *)
(* coroutine may run.                                                      *)
(*                                                                         *)
(* Conns is a set of connections, each used once; a connection is also the *)
(* ModuleConnection object registered for it.  A suspended send holds that *)
(* object itself, so its current_load is kept per connection; its          *)
(* capabilities, status and last_heartbeat are only ever reached through   *)
(* self.modules[id], so they are kept per id.  Message contents, metrics,  *)
(* priorities and the unused message_queue are left out.                   *)
(***************************************************************************)
EXTENDS Naturals, FiniteSets

CONSTANTS
  ModuleIds,     \* module identifiers a peer may authenticate with
  Conns,         \* WebSocket connections over the life of the hub
  Capabilities,  \* actions a module can announce
  StreamIds,     \* identifiers of streams
  NoModule,
  NoConn

ASSUME HubAssumption ==
  /\ IsFiniteSet(ModuleIds)
  /\ IsFiniteSet(Conns)
  /\ NoModule \notin ModuleIds
  /\ NoConn \notin Conns

VARIABLES
  \* per connection
  phase,    \* where its handler is
  open,     \* is the socket still up?
  mid,      \* local variable module_id of the handler
  send,     \* the send the handler is suspended in, Idle if none
  load,     \* current_load of its ModuleConnection object
  contested, \* history: ids presented while a handler held them
  \* per module id: self.modules[id] and fields of that object, blank if none
  modules, caps, status, age,
  \* capabilities_index, routing_cache, websocket_connections, stream_managers
  index, cache, wsconns, streams

connVars == <<phase, open, mid, contested>>
vars == <<phase, open, mid, contested, send, load, modules, caps, status, age,
          index, cache, wsconns, streams>>

Phases == {"auth", "acking", "serving", "closed"}

\* age abstracts utcnow() - last_heartbeat: "late" is beyond heartbeat_timeout
\* (60 s), "stale" beyond the 30 minutes of the cleanup task.
Ages == {"fresh", "late", "stale"}

\* `to` is the object whose current_load the send holds.  A broadcast also
\* keeps what is left of its iteration over self.modules: the ids to visit and
\* the size of the dictionary when the loop began.
Sends == [kind : {"none", "message", "reply", "error", "broadcast"},
          to   : Conns \cup {NoConn},
          rest : SUBSET ModuleIds,
          size : Nat]

Idle == [kind |-> "none", to |-> NoConn, rest |-> {}, size |-> 0]

Sending(kind, d) == [Idle EXCEPT !.kind = kind, !.to = d]

TypeOK ==
  /\ phase \in [Conns -> Phases]
  /\ open \in [Conns -> BOOLEAN]
  /\ mid \in [Conns -> ModuleIds \cup {NoModule}]
  /\ send \in [Conns -> Sends]
  /\ load \in [Conns -> Nat]
  /\ contested \in SUBSET ModuleIds
  /\ modules \in [ModuleIds -> Conns \cup {NoConn}]
  /\ caps \in [ModuleIds -> SUBSET Capabilities]
  /\ status \in [ModuleIds -> {"online", "offline"}]
  /\ age \in [ModuleIds -> Ages]
  /\ index \in [Capabilities -> SUBSET ModuleIds]
  /\ cache \in [Capabilities -> ModuleIds \cup {NoModule}]
  /\ wsconns \in SUBSET Conns
  /\ streams \in [StreamIds -> ModuleIds \cup {NoModule}]

Init ==
  /\ phase = [c \in Conns |-> "auth"]
  /\ open = [c \in Conns |-> TRUE]
  /\ mid = [c \in Conns |-> NoModule]
  /\ send = [c \in Conns |-> Idle]
  /\ load = [c \in Conns |-> 0]
  /\ contested = {}
  /\ modules = [m \in ModuleIds |-> NoConn]
  /\ caps = [m \in ModuleIds |-> {}]
  /\ status = [m \in ModuleIds |-> "online"]
  /\ age = [m \in ModuleIds |-> "fresh"]
  /\ index = [a \in Capabilities |-> {}]
  /\ cache = [a \in Capabilities |-> NoModule]
  /\ wsconns = {}
  /\ streams = [s \in StreamIds |-> NoModule]

-----------------------------------------------------------------------------
(* The registry.                                                           *)

\* The keys of self.modules.
Registered == {m \in ModuleIds : modules[m] # NoConn}

IsRegistered(c) == \E m \in ModuleIds : modules[m] = c

\* A dictionary iteration never yields a key that was deleted, and yields a key
\* inserted behind it.
RestWithout(S) ==
  [c \in Conns |-> [send[c] EXCEPT !.rest = @ \ S]]

RestWith(m) ==
  [c \in Conns |->
     IF send[c].kind = "broadcast" /\ m # mid[c]
     THEN [send[c] EXCEPT !.rest = @ \cup {m}]
     ELSE send[c]]

\* Mutant: the index is not purged.
IndexKept(S) == index

IndexWithout(S) ==
  [a \in Capabilities |-> {m \in index[a] : m \notin S \/ a \notin caps[m]}]

\* Mutant: the routing cache is not purged.
CacheKept(S) == cache

CacheWithout(S) ==
  [a \in Capabilities |-> IF cache[a] \in S THEN NoModule ELSE cache[a]]

\* Unregister every module of S, all of them registered.
Unregister(S) ==
  /\ modules' = [m \in ModuleIds |-> IF m \in S THEN NoConn ELSE modules[m]]
  /\ caps' = [m \in ModuleIds |-> IF m \in S THEN {} ELSE caps[m]]
  /\ status' = [m \in ModuleIds |-> IF m \in S THEN "online" ELSE status[m]]
  /\ age' = [m \in ModuleIds |-> IF m \in S THEN "fresh" ELSE age[m]]
  /\ index' = IndexWithout(S)
  /\ cache' = CacheWithout(S)
  /\ send' = RestWithout(S)

-----------------------------------------------------------------------------
(* Sends.  `ld` is the load after the handler has released what it held.   *)

\* Mutant: the load is only given back to an object that is still registered.
ReleasedIfRegistered(c) ==
  IF IsRegistered(send[c].to) THEN [load EXCEPT ![send[c].to] = @ - 1] ELSE load

\* The finally clause of a send: the object that was written to, whether or
\* not it is still registered, gets its load back.
Released(c) == [load EXCEPT ![send[c].to] = @ - 1]

\* Mutant: the send is not counted.
StartUncounted(c, s, ld) ==
  /\ send' = [send EXCEPT ![c] = s]
  /\ load' = ld

Start(c, s, ld) ==
  /\ send' = [send EXCEPT ![c] = s]
  /\ load' = [ld EXCEPT ![s.to] = @ + 1]

Rest(c, ld) ==
  /\ send' = [send EXCEPT ![c] = Idle]
  /\ load' = ld

\* Mutant: an error goes back to the module whose send failed.
ToFailed(c, kind, ld) ==
  IF send[c] # Idle THEN Start(c, Sending(kind, send[c].to), ld)
  ELSE IF mid[c] \in Registered THEN Start(c, Sending(kind, modules[mid[c]]), ld)
  ELSE Rest(c, ld)

\* A send to whatever is registered under the id of c's handler; a ValueError
\* that nobody hears of when nothing is.
ToSource(c, kind, ld) ==
  IF mid[c] \in Registered
  THEN Start(c, Sending(kind, modules[mid[c]]), ld)
  ELSE Rest(c, ld)

\* One turn of the broadcast loop.  The iterator looks at the size of the
\* dictionary first, even when nothing is left to visit.
BroadcastNext(c, rest, size, ld) ==
  IF Cardinality(Registered) # size THEN ToSource(c, "error", ld)
  ELSE IF rest = {} THEN Rest(c, ld)
  ELSE \E m \in rest :
         Start(c, [kind |-> "broadcast", to |-> modules[m],
                   rest |-> rest \ {m}, size |-> size], ld)

-----------------------------------------------------------------------------
(* Connections come and go.                                                *)

\* No module_id, bad JSON, the 10 s timeout, or the peer gone: module_id is
\* unbound, the finally clause raises, and nothing had been registered.
AuthFail(c) ==
  /\ phase[c] = "auth"
  /\ phase' = [phase EXCEPT ![c] = "closed"]
  /\ open' = [open EXCEPT ![c] = FALSE]
  /\ UNCHANGED <<mid, contested, send, load, modules, caps, status, age, index, cache, wsconns, streams>>

\* Nothing keeps a peer from presenting an id that a running handler holds.
Claims(m) ==
  contested' = IF \E d \in Conns : mid[d] = m THEN contested \cup {m} ELSE contested

\* `capabilities` is not a list of strings: set() raises after module_id is
\* bound, and the finally clause unregisters whoever holds that id.
BadCapabilities(c, m) ==
  /\ phase[c] = "auth"
  /\ Claims(m)
  /\ phase' = [phase EXCEPT ![c] = "closed"]
  /\ open' = [open EXCEPT ![c] = FALSE]
  /\ Unregister({m} \cap Registered)
  /\ UNCHANGED <<mid, load, wsconns, streams>>

\* The connection registers, taking the entry of an earlier one with its id.
Register(c, m, C) ==
  /\ phase[c] = "auth"
  /\ Claims(m)
  /\ phase' = [phase EXCEPT ![c] = "acking"]
  /\ mid' = [mid EXCEPT ![c] = m]
  /\ modules' = [modules EXCEPT ![m] = c]
  /\ caps' = [caps EXCEPT ![m] = C]
  /\ status' = [status EXCEPT ![m] = "online"]
  /\ age' = [age EXCEPT ![m] = "fresh"]
  /\ index' = [a \in Capabilities |-> IF a \in C THEN index[a] \cup {m} ELSE index[a]]
  /\ send' = IF m \in Registered THEN send ELSE RestWith(m)
  /\ wsconns' = wsconns \cup {c}
  /\ UNCHANGED <<open, load, cache, streams>>

\* The acknowledgment is on the wire and the message loop begins.
Acked(c) ==
  /\ phase[c] = "acking"
  /\ open[c]
  /\ phase' = [phase EXCEPT ![c] = "serving"]
  /\ UNCHANGED <<open, mid, contested, send, load, modules, caps, status, age, index, cache, wsconns, streams>>

\* The peer closes, crashes, or is given up by the keepalive.
PeerCloses(c) ==
  /\ open[c]
  /\ phase[c] \in {"acking", "serving"}
  /\ open' = [open EXCEPT ![c] = FALSE]
  /\ UNCHANGED <<phase, mid, contested, send, load, modules, caps, status, age, index, cache, wsconns, streams>>

\* Mutant: a module already marked offline is left to the cleanup task.
LeavingOnline(c) == {m \in {mid[c]} \cap Registered : status[m] = "online"}

\* The entry a handler removes when it ends is the one under its id, whichever
\* connection that is.
Leaving(c) == {mid[c]} \cap Registered

\* The handler leaves: the acknowledgment failed, or the loop found the socket
\* closed and no buffered message left.
Finish(c) ==
  /\ phase[c] \in {"acking", "serving"}
  /\ ~open[c]
  /\ send[c] = Idle
  /\ phase' = [phase EXCEPT ![c] = "closed"]
  /\ mid' = [mid EXCEPT ![c] = NoModule]
  /\ Unregister(Leaving(c))
  /\ wsconns' = wsconns \ {c}
  /\ UNCHANGED <<open, load, contested, streams>>

-----------------------------------------------------------------------------
(* Messages.  A message buffered before the socket closed is still handled. *)

Ready(c) == phase[c] = "serving" /\ send[c] = Idle

\* Every valid message counts as a heartbeat of the id it came from.
Touched(c) ==
  IF mid[c] \in Registered THEN [age EXCEPT ![mid[c]] = "fresh"] ELSE age

\* What a message that leaves the registry alone has in common.
Handles(c) ==
  /\ Ready(c)
  /\ age' = Touched(c)
  /\ UNCHANGED <<connVars, modules, caps, status, index, wsconns>>

\* Undecodable JSON, or no id or type.
Invalid(c) ==
  /\ Ready(c)
  /\ ToSource(c, "error", load)
  /\ UNCHANGED <<connVars, modules, caps, status, age, index, cache, wsconns, streams>>

\* A type MessageType does not know, or a field of the wrong type.
Malformed(c) ==
  /\ Handles(c)
  /\ ToSource(c, "error", load)
  /\ UNCHANGED <<cache, streams>>

Heartbeat(c) ==
  /\ Handles(c)
  /\ ToSource(c, "reply", load)
  /\ UNCHANGED <<cache, streams>>

CapabilityQuery(c) ==
  /\ Handles(c)
  /\ ToSource(c, "reply", load)
  /\ UNCHANGED <<cache, streams>>

\* Mutant: the new capabilities are added before the old ones are removed.
ReindexedLate(m, C) ==
  [a \in Capabilities |-> IF a \in caps[m] THEN index[a] \ {m}
                         ELSE IF a \in C THEN index[a] \cup {m} ELSE index[a]]

Reindexed(m, C) ==
  [a \in Capabilities |-> IF a \in C THEN index[a] \cup {m}
                         ELSE IF a \in caps[m] THEN index[a] \ {m} ELSE index[a]]

\* The announcement replaces the capabilities of the object registered under
\* the id; the routing cache is left alone.
CapabilityAnnounce(c, C) ==
  /\ Ready(c)
  /\ age' = Touched(c)
  /\ IF mid[c] \in Registered
     THEN /\ caps' = [caps EXCEPT ![mid[c]] = C]
          /\ index' = Reindexed(mid[c], C)
     ELSE UNCHANGED <<caps, index>>
  /\ UNCHANGED <<connVars, send, load, modules, status, cache, wsconns, streams>>

StreamStart(c, s) ==
  /\ Handles(c)
  /\ streams' = [streams EXCEPT ![s] = mid[c]]
  /\ UNCHANGED <<send, load, cache>>

\* The data goes to a buffer nobody reads.
StreamData(c) ==
  /\ Handles(c)
  /\ UNCHANGED <<send, load, cache, streams>>

\* Any module may end any stream.
StreamEnd(c, s) ==
  /\ Handles(c)
  /\ streams' = [streams EXCEPT ![s] = NoModule]
  /\ UNCHANGED <<send, load, cache>>

RouteDirect(c, m) ==
  /\ Handles(c)
  /\ IF m \in Registered THEN Start(c, Sending("message", modules[m]), load)
                         ELSE ToSource(c, "error", load)
  /\ UNCHANGED <<cache, streams>>

Cached(a) == cache[a] # NoModule /\ cache[a] \in Registered

\* The cached module gets the message, whatever its status or load.
RouteCached(c, a) ==
  /\ Handles(c)
  /\ Cached(a)
  /\ Start(c, Sending("message", modules[cache[a]]), load)
  /\ UNCHANGED <<cache, streams>>

Online(a) == {m \in index[a] : status[m] = "online"}

LeastLoaded(a) ==
  {m \in Online(a) : \A n \in Online(a) : load[modules[m]] <= load[modules[n]]}

RouteSelected(c, a) ==
  /\ Handles(c)
  /\ ~Cached(a)
  /\ index[a] \subseteq Registered
  /\ \E m \in LeastLoaded(a) :
       /\ cache' = [cache EXCEPT ![a] = m]
       /\ Start(c, Sending("message", modules[m]), load)
  /\ UNCHANGED streams

\* No candidate, none of them online, or a KeyError on a candidate that is no
\* longer registered.
RouteFails(c, a) ==
  /\ Handles(c)
  /\ ~Cached(a)
  /\ index[a] \subseteq Registered => Online(a) = {}
  /\ ToSource(c, "error", load)
  /\ UNCHANGED <<cache, streams>>

Broadcast(c) ==
  /\ Handles(c)
  /\ BroadcastNext(c, Registered \ {mid[c]}, Cardinality(Registered), load)
  /\ UNCHANGED <<cache, streams>>

-----------------------------------------------------------------------------
(* A send comes back.                                                      *)

SendOk(c) ==
  /\ send[c] # Idle
  /\ open[send[c].to]
  /\ IF send[c].kind = "broadcast"
     THEN BroadcastNext(c, send[c].rest, send[c].size, Released(c))
     ELSE Rest(c, Released(c))
  /\ UNCHANGED <<connVars, modules, caps, status, age, index, cache, wsconns, streams>>

\* The socket is closed: the exception ends the handler, its broadcast too, and
\* becomes an error message to the source, unless it was that message.
SendFails(c) ==
  /\ send[c] # Idle
  /\ ~open[send[c].to]
  /\ IF send[c].kind = "error" THEN Rest(c, Released(c))
                               ELSE ToSource(c, "error", Released(c))
  /\ UNCHANGED <<connVars, modules, caps, status, age, index, cache, wsconns, streams>>

-----------------------------------------------------------------------------
(* Time and the background tasks.                                          *)

\* Nothing has been heard of m for longer.
Elapse(m) ==
  /\ m \in Registered
  /\ \/ age[m] = "fresh" /\ age' = [age EXCEPT ![m] = "late"]
     \/ age[m] = "late"  /\ age' = [age EXCEPT ![m] = "stale"]
  /\ UNCHANGED <<connVars, send, load, modules, caps, status, index, cache, wsconns, streams>>

\* Mutant: a module that became stale between two rounds is passed over.
OverdueLate == {m \in Registered : age[m] = "late" /\ status[m] = "online"}

Overdue == {m \in Registered : age[m] # "fresh" /\ status[m] = "online"}

HeartbeatMonitor ==
  /\ Overdue # {}
  /\ status' = [m \in ModuleIds |-> IF m \in Overdue THEN "offline" ELSE status[m]]
  /\ UNCHANGED <<connVars, send, load, modules, caps, age, index, cache, wsconns, streams>>

\* Mutant: an offline module is dropped without waiting.
AbandonedOffline == {m \in Registered : status[m] = "offline"}

Abandoned == {m \in Registered : status[m] = "offline" /\ age[m] = "stale"}

CleanupStale ==
  /\ Abandoned # {}
  /\ Unregister(Abandoned)
  /\ UNCHANGED <<connVars, load, wsconns, streams>>

-----------------------------------------------------------------------------
Lifecycle(c) ==
  \/ AuthFail(c)
  \/ \E m \in ModuleIds : BadCapabilities(c, m)
  \/ \E m \in ModuleIds, C \in SUBSET Capabilities : Register(c, m, C)
  \/ Acked(c)
  \/ PeerCloses(c)
  \/ Finish(c)

HandleMessage(c) ==
  \/ Invalid(c)
  \/ Malformed(c)
  \/ Heartbeat(c)
  \/ CapabilityQuery(c)
  \/ \E C \in SUBSET Capabilities : CapabilityAnnounce(c, C)
  \/ \E s \in StreamIds : StreamStart(c, s)
  \/ StreamData(c)
  \/ \E s \in StreamIds : StreamEnd(c, s)
  \/ \E m \in ModuleIds : RouteDirect(c, m)
  \/ \E a \in Capabilities : RouteCached(c, a)
  \/ \E a \in Capabilities : RouteSelected(c, a)
  \/ \E a \in Capabilities : RouteFails(c, a)
  \/ Broadcast(c)

Next ==
  \/ \E c \in Conns : Lifecycle(c)
  \/ \E c \in Conns : HandleMessage(c)
  \/ \E c \in Conns : SendOk(c) \/ SendFails(c)
  \/ \E m \in ModuleIds : Elapse(m)
  \/ HeartbeatMonitor
  \/ CleanupStale

Spec == Init /\ [][Next]_vars

\* The event loop resumes every coroutine that can run, a send to an open
\* socket drains or its socket dies, and the two periodic tasks keep waking up.
\* Finish needs strong fairness: it is disabled while the handler works through
\* messages buffered before the close, of which the library keeps a finite queue.
Fairness ==
  /\ \A c \in Conns : WF_vars(Acked(c))
  /\ \A c \in Conns : WF_vars(SendOk(c) \/ SendFails(c))
  /\ \A c \in Conns : SF_vars(Finish(c))
  /\ WF_vars(HeartbeatMonitor)
  /\ WF_vars(CleanupStale)

FairSpec == Spec /\ Fairness

-----------------------------------------------------------------------------
(* What holds whatever the peers do.                                       *)

\* current_load of an object is the number of handlers suspended in a send to
\* it: no send leaks load or takes it from another object, though ids are
\* re-registered and unregistered while sends are in flight.
LoadIsInFlight ==
  \A d \in Conns : load[d] = Cardinality({c \in Conns : send[c].to = d})

\* The registry names only connections whose handler is still running, under
\* the id that handler will clean up, and whose socket the hub still tracks:
\* an entry is never left behind by a handler that ended.
RegisteredIsServed ==
  \A m \in Registered :
    /\ phase[modules[m]] \in {"acking", "serving"}
    /\ mid[modules[m]] = m
    /\ modules[m] \in wsconns

\* The routing cache never sends a message to an id that is not registered.
CachedIsRegistered ==
  \A a \in Capabilities : cache[a] # NoModule => cache[a] \in Registered

\* A registered module can be found under everything it announced, whatever
\* became of earlier connections with its id.
AnnouncedIsIndexed ==
  \A m \in Registered : \A a \in caps[m] : m \in index[a]

\* The entry of a connection whose socket is closed is removed in the end,
\* even if its handler is busy sending to others when it closes.
DeadIsForgotten ==
  \A c \in Conns : IsRegistered(c) /\ ~open[c] ~> ~IsRegistered(c)

\* A module silent beyond the cleanup threshold is heard of again or loses its
\* entry: the two sweeps together leave no stale entry behind.
SilentIsDropped ==
  \A m \in ModuleIds : age[m] = "stale" ~> age[m] = "fresh"

(* What becomes of an id that is presented while a handler holds it, and   *)
(* that nothing becomes of the others.                                     *)

\* The capability index names what registered modules announced, and besides only
\* ids that were contested at some time: entries outlive a registration when
\* another replaced it, and in no other way.
GhostsAreContested ==
  \A a \in Capabilities : \A m \in index[a] :
    (m \in Registered /\ a \in caps[m]) \/ m \in contested

\* A connection is unregistered by the end of its own handler or, offline and
\* stale, by the cleanup task; by others only under an id that is contested.
OnlyRivalsUnregister ==
  [][\A c \in Conns :
       IsRegistered(c) /\ ~IsRegistered(c)' =>
         \/ phase'[c] = "closed"
         \/ status[mid[c]] = "offline" /\ age[mid[c]] = "stale"
         \/ mid[c] \in contested']_vars

\* Replies and errors go to a connection of the id whose message caused them (one
\* that is closed has lost its id), and to another than that of the message only
\* if the id is contested.
RepliesStayHome ==
  \A c \in Conns : send[c].kind \in {"reply", "error"} =>
    /\ mid[send[c].to] \in {mid[c], NoModule}
    /\ send[c].to = c \/ mid[c] \in contested
=============================================================================
