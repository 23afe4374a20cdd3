------------------------------ MODULE SdkModule ------------------------------
(***************************************************************************)
(* Modules written with the Python SDK (class Module of module.py in       *)
(* sdk/python/src/democratic_ai): a loop that handles one message of the   *)
(* hub at a time, and call_module, with which the application and the      *)
(* handlers themselves ask other modules.  A module may connect again,     *)
(* over a connection that is still up too: each connect() makes a socket,  *)
(* with a loop of its own that reads it to its end, and everything is sent *)
(* on the last one.                                                        *)
(*                                                                         *)
(* The hub is what MCPHub makes of it: a message for a module goes to one  *)
(* of its sockets, in the order in which the hub handles the messages, or  *)
(* to none.  The loop drops whatever is no REQUEST (the hub sends no       *)
(* HEARTBEAT or CAPABILITY_QUERY), so that a RESPONSE or an ERROR changes  *)
(* nothing when it arrives; such messages, payloads and metrics are left   *)
(* out.                                                                    *)
(***************************************************************************)
EXTENDS Naturals, Sequences, SequencesExt

CONSTANTS
  Modules,
  MaxSockets, \* bound: sockets, numbered in the order they are made
  MaxCalls,   \* bound: calls of call_module, numbered in the order they start
  MaxFromApp, \* bound: the application makes none after this many calls
  NoModule

ASSUME SdkAssumption ==
  /\ NoModule \notin Modules
  /\ MaxSockets \in Nat /\ MaxCalls \in Nat /\ MaxFromApp \in Nat

VARIABLES
  \* per module
  socket,     \* self.websocket, 0 for None
  connected,  \* self.connected
  handlers,   \* self.message_handlers: the calls with an entry
  \* per module and socket
  link,       \* broken is an abnormal closure, closed a normal one
  inbox,      \* requests received and not yet handled
  loop,       \* connect(), and then the _process_messages it starts
  \* per call
  call        \* with its caller, and the loop whose handler made it, 0 for none

vars == <<socket, connected, handlers, link, inbox, loop, call>>

Sockets == 1..MaxSockets
Calls == 1..MaxCalls

CallRecord(at, m, k) == [at |-> at, from |-> m, loop |-> k]
Unused == CallRecord("unused", NoModule, 0)
Over == CallRecord("over", NoModule, 0)

\* A failed call is one whose send did not return.
CallStates ==
  {Unused, Over}
    \cup [at : {"sending", "waiting"}, from : Modules, loop : 0..MaxSockets]
    \cup [at : {"failed"}, from : Modules, loop : {0}]

TypeOK ==
  /\ socket \in [Modules -> 0..MaxSockets]
  /\ connected \in [Modules -> BOOLEAN]
  /\ handlers \in [Modules -> SUBSET Calls]
  /\ link \in [Modules -> [Sockets -> {"none", "up", "broken", "closed"}]]
  /\ inbox \in [Modules -> [Sockets -> Seq(Calls)]]
  /\ loop \in [Modules -> [Sockets ->
                 {"none", "connecting", "receiving", "handling", "calling", "ended"}]]
  /\ call \in [Calls -> CallStates]

Each(v) == [m \in Modules |-> [k \in Sockets |-> v]]

Init ==
  /\ socket = [m \in Modules |-> 0]
  /\ connected = [m \in Modules |-> FALSE]
  /\ handlers = [m \in Modules |-> {}]
  /\ link = Each("none")
  /\ inbox = Each(<<>>)
  /\ loop = Each("none")
  /\ call = [r \in Calls |-> Unused]

Up(m, k) == k \in Sockets /\ link[m][k] = "up"
Gone(m, k) == link[m][k] \in {"broken", "closed"}

-----------------------------------------------------------------------------
(* Connections.                                                            *)

Made(k) == \E m \in Modules : link[m][k] # "none"

\* connect() has a socket, sends the registration and awaits the answer.  A hub
\* that cannot be reached leaves the module as it was.
Connect(m) ==
  /\ ~\E k \in Sockets : loop[m][k] = "connecting"
  /\ \E k \in Sockets :
       /\ ~Made(k) /\ \A j \in 1..k - 1 : Made(j)
       /\ socket' = [socket EXCEPT ![m] = k]
       /\ link' = [link EXCEPT ![m][k] = "up"]
       /\ loop' = [loop EXCEPT ![m][k] = "connecting"]
  /\ UNCHANGED <<connected, handlers, inbox, call>>

\* The acknowledgment has come, and the loop starts, on a socket that may have
\* closed since.
Acknowledged(m, k) ==
  /\ loop[m][k] = "connecting"
  /\ connected' = [connected EXCEPT ![m] = TRUE]
  /\ loop' = [loop EXCEPT ![m][k] = "receiving"]
  /\ UNCHANGED <<socket, handlers, link, inbox, call>>

\* The hub refuses and closes, or the socket dies: connect() raises, and neither
\* self.websocket nor self.connected is what it was or set anew.
ConnectFails(m, k) ==
  /\ loop[m][k] = "connecting"
  /\ Gone(m, k)
  /\ loop' = [loop EXCEPT ![m][k] = "none"]
  /\ UNCHANGED <<socket, connected, handlers, link, inbox, call>>

\* A socket closes; what the hub had sent last may not have arrived.
Goes(m, k, how) ==
  /\ Up(m, k)
  /\ link' = [link EXCEPT ![m][k] = how]
  /\ \E n \in 0..Len(inbox[m][k]) : inbox' = [inbox EXCEPT ![m][k] = SubSeq(@, 1, n)]
  /\ UNCHANGED <<socket, connected, handlers, loop, call>>

\* The network or a process dies, or a keepalive is missed.
Break(m, k) == Goes(m, k, "broken")

\* The hub shuts down, or close() of disconnect() has done its part.
Close(m, k) == Goes(m, k, "closed")

\* Mutant: self.connected is cleared before close() is awaited.
ClosesLater(m) == TRUE

\* A closure of its own or an earlier one, of the socket that was the last when
\* disconnect() was called.
HasClosed(m) == \E k \in Sockets : Gone(m, k)

\* disconnect() returns.
Disconnected(m) ==
  /\ connected[m]
  /\ HasClosed(m)
  /\ connected' = [connected EXCEPT ![m] = FALSE]
  /\ UNCHANGED <<socket, handlers, link, inbox, loop, call>>

\* A normal closure ends the iteration over the socket without an exception.
NoticesBreak(m, k) ==
  connected' = [connected EXCEPT ![m] = @ /\ link[m][k] # "broken"]

LoopEnds(m, k) ==
  /\ loop[m][k] = "receiving"
  /\ Gone(m, k)
  /\ inbox[m][k] = <<>>
  /\ loop' = [loop EXCEPT ![m][k] = "ended"]
  /\ NoticesBreak(m, k)
  /\ UNCHANGED <<socket, handlers, link, inbox, call>>

-----------------------------------------------------------------------------
(* call_module.                                                            *)

\* The hub passes request r on to a socket that has been acknowledged and is up,
\* or has none for the module.
Deliver(r, to) ==
  \/ UNCHANGED inbox
  \/ \E k \in Sockets :
       /\ Up(to, k)
       /\ loop[to][k] # "connecting"
       /\ inbox' = [inbox EXCEPT ![to][k] = Append(@, r)]

\* The call r that is made next.
IsNext(r) == call[r] = Unused /\ \A q \in 1..r - 1 : call[q] # Unused

\* The entry is made before the request is sent on the last socket.
Sends(r, m, to, k) ==
  /\ IsNext(r)
  /\ connected[m]
  /\ handlers' = [handlers EXCEPT ![m] = @ \cup {r}]
  /\ Up(m, socket[m])
  /\ call' = [call EXCEPT ![r] = CallRecord("sending", m, k)]
  /\ Deliver(r, to)
  /\ UNCHANGED <<socket, connected, link>>

\* json.dumps raises for the payload, or send for a closed socket: both outside
\* of the try block whose finally clause removes the entry.
SendRaises(r, m) ==
  /\ IsNext(r)
  /\ connected[m]
  /\ handlers' = [handlers EXCEPT ![m] = @ \cup {r}]
  /\ call' = [call EXCEPT ![r] = CallRecord("failed", m, 0)]
  /\ UNCHANGED <<socket, connected, link, inbox>>

\* The application calls, beside the loops.
CallFromApp(m, to) ==
  /\ \E r \in Calls : r <= MaxFromApp /\ (Sends(r, m, to, 0) \/ SendRaises(r, m))
  /\ UNCHANGED loop

\* A handler calls: its loop waits with it, unless the send has raised.
CallFromHandler(m, k, to) ==
  /\ loop[m][k] = "handling"
  /\ \E r \in Calls :
       \/ Sends(r, m, to, k) /\ loop' = [loop EXCEPT ![m][k] = "calling"]
       \/ SendRaises(r, m) /\ UNCHANGED loop

\* The handler that made the call, if one did, goes on.
Resumes(r) ==
  loop' = IF call[r].loop = 0 THEN loop
          ELSE [loop EXCEPT ![call[r].from][call[r].loop] = "handling"]

\* Mutant: the caller stays noted at a call that is over.
OverNoted(r) == [call[r] EXCEPT !.at = "over"]

OverOf(r) == Over

Sent(r) ==
  /\ call[r].at = "sending"
  /\ call' = [call EXCEPT ![r].at = "waiting"]
  /\ UNCHANGED <<socket, connected, handlers, link, inbox, loop>>

\* The socket closes during the send, or its task is cancelled: again no finally
\* clause.
SendBreaks(r) ==
  /\ call[r].at = "sending"
  /\ call' = [call EXCEPT ![r] = CallRecord("failed", call[r].from, 0)]
  /\ Resumes(r)
  /\ UNCHANGED <<socket, connected, handlers, link, inbox>>

\* Mutant: no finally clause here either.
Kept(r) == handlers

Cleaned(r) == [handlers EXCEPT ![call[r].from] = @ \ {r}]

\* Mutant: the future is awaited without a timeout.
NeverTimesOut(r) == FALSE

\* wait_for gives up, or its task is cancelled.  Nothing ever resolves the future:
\* a RESPONSE is dropped.
MayTimeOut(r) == call[r].at = "waiting"

TimesOut(r) ==
  /\ MayTimeOut(r)
  /\ call' = [call EXCEPT ![r] = OverOf(r)]
  /\ Resumes(r)
  /\ handlers' = Cleaned(r)
  /\ UNCHANGED <<socket, connected, link, inbox>>

-----------------------------------------------------------------------------
(* The message loops.                                                      *)

Receive(m, k) ==
  /\ loop[m][k] = "receiving"
  /\ inbox[m][k] # <<>>
  /\ inbox' = [inbox EXCEPT ![m][k] = Tail(@)]
  /\ loop' = [loop EXCEPT ![m][k] = "handling"]
  /\ UNCHANGED <<socket, connected, handlers, link, call>>

\* The handler returns, and a RESPONSE is sent; or it raises, for one because
\* it knows no such action, and an ERROR is.  If the send of either raises, so
\* does that of the ERROR, and the loop logs it and goes on.
HandlerEnds(m, k) ==
  /\ loop[m][k] = "handling"
  /\ loop' = [loop EXCEPT ![m][k] = "receiving"]
  /\ UNCHANGED <<socket, connected, handlers, link, inbox, call>>

-----------------------------------------------------------------------------
Next ==
  \/ \E m \in Modules :
       \/ Connect(m) \/ Disconnected(m)
       \/ \E to \in Modules : CallFromApp(m, to)
       \/ \E k \in Sockets :
            \/ Acknowledged(m, k) \/ ConnectFails(m, k) \/ Break(m, k) \/ Close(m, k)
            \/ LoopEnds(m, k) \/ Receive(m, k) \/ HandlerEnds(m, k)
            \/ \E to \in Modules : CallFromHandler(m, k, to)
  \/ \E r \in Calls : Sent(r) \/ SendBreaks(r) \/ TimesOut(r)

Spec == Init /\ [][Next]_vars

\* The event loop runs what can run, the hub answers a registration or closes, a
\* send drains or its socket closes, time passes, and what a handler does apart
\* from its calls comes to an end.  Nothing is assumed of other modules.
Fairness ==
  /\ \A k \in Sockets :
       WF_vars(\E m \in Modules :
                 \/ Acknowledged(m, k) \/ ConnectFails(m, k)
                 \/ Receive(m, k) \/ LoopEnds(m, k) \/ HandlerEnds(m, k))
  /\ \A r \in Calls : WF_vars(Sent(r) \/ SendBreaks(r) \/ TimesOut(r))

FairSpec == Spec /\ Fairness

-----------------------------------------------------------------------------
Pending(r) == call[r].at \in {"sending", "waiting"}

\* Its caller waits, or it waits for a loop of the module asked.
Open(r) ==
  Pending(r) \/ \E m \in Modules, k \in Sockets : Contains(inbox[m][k], r)

\* message_handlers has an entry for every call of the module that is under way
\* and for every one whose send did not return, and no other: neither timeouts nor
\* cancelled waits leave one, whichever socket came or went meanwhile.
HandlersAreCalls ==
  \A m \in Modules : handlers[m] = {r \in Calls : call[r].from = m}

\* A loop that reads its socket, or is busy with what it read.
Running(m, k) == loop[m][k] \in {"receiving", "handling", "calling"}

\* Every loop and every disconnect() of a module clears the one self.connected: a
\* module whose last connection is up and read by its loop is taken for
\* disconnected only if another connection of it is gone.
LiveIsConnected ==
  \A m \in Modules :
    Up(m, socket[m]) /\ Running(m, socket[m]) /\ ~connected[m] =>
      \E k \in Sockets \ {socket[m]} : Gone(m, k)

\* Modules whose handlers call each other, or themselves, wait for loops that
\* wait for them; yet every call ends, every request that arrived is taken up,
\* and a connection that breaks under its loop is noticed, in the end.
NobodyWaitsForEver ==
  /\ \A r \in Calls : Open(r) ~> ~Open(r)
  /\ \A m \in Modules, k \in Sockets :
       link[m][k] = "broken" /\ Running(m, k) ~> ~connected[m]
=============================================================================
