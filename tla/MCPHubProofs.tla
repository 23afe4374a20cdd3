---------------------------- MODULE MCPHubProofs ----------------------------
(***************************************************************************)
(* Proofs about MCPHub for any number of modules, connections and          *)
(* capabilities, with ids that may be presented while a handler holds      *)
(* them; the last section is about what this leaves of an id.              *)
(*                                                                         *)
(* The inductive invariant adds to the invariants TLC checks what they     *)
(* rest on: a handler that is not idle holds the load of a real object,    *)
(* and the ids a broadcast has left to visit are registered.               *)
(***************************************************************************)
EXTENDS MCPHub, FiniteSetTheorems, TLAPS

\* The handlers that hold the load of d, among the sends f.
SendsTo(f, d) == {c \in Conns : f[c].to = d}

\* Every object's load is the number of sends in sd that hold it.
LoadMatches(ld, sd) ==
  \A d \in Conns : ld[d] = Cardinality(SendsTo(sd, d))

SendsAreSound ==
  \A c \in Conns :
    /\ send[c].to = NoConn => send[c] = Idle
    /\ send[c].rest \subseteq Registered

SendInv ==
  /\ send \in [Conns -> Sends]
  /\ load \in [Conns -> Nat]
  /\ LoadIsInFlight
  /\ SendsAreSound

RegistryInv ==
  /\ phase \in [Conns -> Phases]
  /\ open \in [Conns -> BOOLEAN]
  /\ mid \in [Conns -> ModuleIds \cup {NoModule}]
  /\ contested \in SUBSET ModuleIds
  /\ modules \in [ModuleIds -> Conns \cup {NoConn}]
  /\ status \in [ModuleIds -> {"online", "offline"}]
  /\ age \in [ModuleIds -> Ages]
  /\ wsconns \in SUBSET Conns
  /\ streams \in [StreamIds -> ModuleIds \cup {NoModule}]
  /\ RegisteredIsServed

IndexInv ==
  /\ caps \in [ModuleIds -> SUBSET Capabilities]
  /\ index \in [Capabilities -> SUBSET ModuleIds]
  /\ cache \in [Capabilities -> ModuleIds \cup {NoModule}]
  /\ CachedIsRegistered
  /\ AnnouncedIsIndexed

IInv == SendInv /\ RegistryInv /\ IndexInv

\* The handler of c, once it has released what it held, leaves load ld behind.
Balanced(c, ld) ==
  /\ ld \in [Conns -> Nat]
  /\ LoadMatches(ld, [send EXCEPT ![c] = Idle])

-----------------------------------------------------------------------------
(* Counting sends.                                                         *)

LEMMA SendsFinite ==
  ASSUME NEW f, NEW d
  PROVE  IsFiniteSet(SendsTo(f, d)) /\ Cardinality(SendsTo(f, d)) \in Nat
<1>1. IsFiniteSet(SendsTo(f, d))
  BY FS_Subset, HubAssumption DEF SendsTo
<1> QED
  BY <1>1, FS_CardinalityType

\* A handler that was not sending and now sends adds one to the count of the
\* object it sends to, and to no other.
LEMMA CountStart ==
  ASSUME NEW f \in [Conns -> Sends], NEW c \in Conns, f[c].to = NoConn,
         NEW s \in Sends, NEW d \in Conns
  PROVE  LET g == [f EXCEPT ![c] = s] IN
         /\ s.to = d => Cardinality(SendsTo(g, d)) = Cardinality(SendsTo(f, d)) + 1
         /\ s.to # d => Cardinality(SendsTo(g, d)) = Cardinality(SendsTo(f, d))
<1> DEFINE g == [f EXCEPT ![c] = s]
<1>1. c \notin SendsTo(f, d)
  BY HubAssumption DEF SendsTo
<1>2. ASSUME s.to = d
      PROVE  Cardinality(SendsTo(g, d)) = Cardinality(SendsTo(f, d)) + 1
  <2>1. SendsTo(g, d) = SendsTo(f, d) \cup {c}
    BY <1>2 DEF SendsTo
  <2> QED
    BY <1>1, <2>1, SendsFinite, FS_AddElement
<1>3. ASSUME s.to # d
      PROVE  Cardinality(SendsTo(g, d)) = Cardinality(SendsTo(f, d))
  <2>1. SendsTo(g, d) = SendsTo(f, d)
    BY <1>1, <1>3 DEF SendsTo
  <2> QED
    BY <2>1
<1> QED
  BY <1>2, <1>3

-----------------------------------------------------------------------------
(* What the send helpers do to the sends, with the registry unchanged.     *)

\* A handler that holds nothing is balanced.
LEMMA ReadyBalanced ==
  ASSUME SendInv, NEW c \in Conns, Ready(c)
  PROVE  Balanced(c, load)
<1>1. send[c] = Idle
  BY DEF Ready
<1>2. [send EXCEPT ![c] = Idle] = send
  BY <1>1 DEF SendInv
<1> QED
  BY <1>2 DEF SendInv, Balanced, LoadMatches, LoadIsInFlight, SendsTo

\* A send that comes back releases exactly the load it held.
LEMMA ReleasedBalanced ==
  ASSUME SendInv, NEW c \in Conns, send[c] # Idle
  PROVE  Balanced(c, Released(c)) /\ send[c].to \in Conns
<1> DEFINE g == [send EXCEPT ![c] = Idle]
<1>1. send[c].to \in Conns
  BY DEF SendInv, SendsAreSound, Sends
<1>2. /\ send[c] \in Sends
      /\ g \in [Conns -> Sends]
      /\ g[c].to = NoConn
      /\ send = [g EXCEPT ![c] = send[c]]
  BY DEF SendInv, Idle, Sends
<1>3. ASSUME NEW d \in Conns
      PROVE  Released(c)[d] = Cardinality(SendsTo(g, d)) /\ Released(c)[d] \in Nat
  <2>1. load[d] = Cardinality(SendsTo(send, d)) /\ load[d] \in Nat
    BY DEF SendInv, LoadIsInFlight, SendsTo
  <2>2. Cardinality(SendsTo(g, d)) \in Nat
    BY SendsFinite
  <2>3. /\ send[c].to = d => Cardinality(SendsTo(send, d)) = Cardinality(SendsTo(g, d)) + 1
        /\ send[c].to # d => Cardinality(SendsTo(send, d)) = Cardinality(SendsTo(g, d))
    <3> HIDE DEF g
    <3> QED
      BY <1>2, CountStart
  <2>4. /\ send[c].to = d => Released(c)[d] = load[d] - 1
        /\ send[c].to # d => Released(c)[d] = load[d]
    BY <1>1 DEF Released, SendInv
  <2> HIDE DEF g
  <2> QED
    BY <2>1, <2>2, <2>3, <2>4
<1>4. Released(c) \in [Conns -> Nat]
  BY <1>3 DEF Released, SendInv
<1> QED
  BY <1>1, <1>3, <1>4 DEF Balanced, LoadMatches

\* Starting a send from a balanced handler keeps the sends sound.
LEMMA StartSound ==
  ASSUME SendInv, NEW c \in Conns, NEW ld, Balanced(c, ld),
         NEW s \in Sends, s.to \in Conns, s.rest \subseteq Registered,
         Start(c, s, ld), UNCHANGED modules
  PROVE  SendInv'
<1> DEFINE g == [send EXCEPT ![c] = Idle]
<1>1. g \in [Conns -> Sends] /\ g[c].to = NoConn
  BY DEF SendInv, Idle, Sends
<1>2. send' = [g EXCEPT ![c] = s] /\ load' = [ld EXCEPT ![s.to] = @ + 1]
  BY DEF Start, SendInv
<1>3. load' \in [Conns -> Nat] /\ send' \in [Conns -> Sends]
  BY <1>2 DEF Balanced, SendInv
<1>4. ASSUME NEW d \in Conns
      PROVE  load'[d] = Cardinality(SendsTo(send', d))
  <2>1. ld[d] = Cardinality(SendsTo(g, d)) /\ ld[d] \in Nat
    BY DEF Balanced, LoadMatches
  <2>2. /\ s.to = d => Cardinality(SendsTo(send', d)) = Cardinality(SendsTo(g, d)) + 1
        /\ s.to # d => Cardinality(SendsTo(send', d)) = Cardinality(SendsTo(g, d))
    <3> HIDE DEF g
    <3> QED
      BY <1>1, <1>2, CountStart
  <2>3. /\ s.to = d => load'[d] = ld[d] + 1
        /\ s.to # d => load'[d] = ld[d]
    BY <1>2 DEF Balanced
  <2> HIDE DEF g
  <2> QED
    BY <2>1, <2>2, <2>3
<1>5. LoadIsInFlight'
  BY <1>4 DEF LoadIsInFlight, SendsTo
<1>6. SendsAreSound'
  <2>1. Registered' = Registered /\ NoConn \notin Conns
    BY HubAssumption DEF Registered
  <2> QED
    BY <2>1 DEF SendInv, SendsAreSound, Start
<1> QED
  BY <1>3, <1>5, <1>6 DEF SendInv

\* So does going back to idle.
LEMMA RestSound ==
  ASSUME SendInv, NEW c \in Conns, NEW ld, Balanced(c, ld),
         Rest(c, ld), UNCHANGED modules
  PROVE  SendInv'
<1>1. Registered' = Registered
  BY DEF Registered
<1>2. Idle \in Sends /\ Idle.rest = {}
  BY DEF Idle, Sends
<1>3. send' \in [Conns -> Sends] /\ load' \in [Conns -> Nat]
  BY <1>2 DEF Rest, SendInv, Balanced
<1>4. SendsAreSound'
  BY <1>1, <1>2 DEF SendInv, SendsAreSound, Rest
<1>5. LoadIsInFlight'
  BY DEF Rest, Balanced, LoadMatches, LoadIsInFlight, SendsTo
<1> QED
  BY <1>3, <1>4, <1>5 DEF SendInv

\* A message to the source of the message being handled, or none at all.
LEMMA ToSourceSound ==
  ASSUME SendInv, RegistryInv, NEW c \in Conns, NEW ld, Balanced(c, ld),
         NEW kind \in {"reply", "error"}, ToSource(c, kind, ld), UNCHANGED modules
  PROVE  SendInv'
<1>1. CASE mid[c] \in Registered
  <2> DEFINE s == Sending(kind, modules[mid[c]])
  <2>1. modules[mid[c]] \in Conns
    BY <1>1 DEF RegistryInv, Registered
  <2>2. s \in Sends /\ s.to \in Conns /\ s.rest \subseteq Registered
    BY <2>1 DEF Sending, Idle, Sends
  <2>3. Start(c, s, ld)
    BY <1>1 DEF ToSource
  <2> HIDE DEF s
  <2> QED
    BY <2>2, <2>3, StartSound
<1>2. CASE mid[c] \notin Registered
  BY <1>2, RestSound DEF ToSource
<1> QED
  BY <1>1, <1>2

\* A message to a registered module.
LEMMA ToModuleSound ==
  ASSUME SendInv, RegistryInv, NEW c \in Conns, Ready(c), NEW m \in Registered,
         Start(c, Sending("message", modules[m]), load), UNCHANGED modules
  PROVE  SendInv'
<1> DEFINE s == Sending("message", modules[m])
<1>1. modules[m] \in Conns
  BY DEF RegistryInv, Registered
<1>2. s \in Sends /\ s.to \in Conns /\ s.rest \subseteq Registered
  BY <1>1 DEF Sending, Idle, Sends
<1>3. Start(c, s, load)
  OBVIOUS
<1> HIDE DEF s
<1> QED
  BY <1>2, <1>3, ReadyBalanced, StartSound

\* One turn of a broadcast.
LEMMA BroadcastNextSound ==
  ASSUME SendInv, RegistryInv, NEW c \in Conns, NEW ld, Balanced(c, ld),
         NEW rest \in SUBSET Registered, NEW size \in Nat,
         BroadcastNext(c, rest, size, ld), UNCHANGED modules
  PROVE  SendInv'
<1>1. CASE Cardinality(Registered) # size
  <2>1. ToSource(c, "error", ld)
    BY <1>1 DEF BroadcastNext
  <2> QED
    BY <2>1, ToSourceSound
<1>2. CASE Cardinality(Registered) = size /\ rest = {}
  <2>1. Rest(c, ld)
    BY <1>2 DEF BroadcastNext
  <2> QED
    BY <2>1, RestSound
<1>3. CASE Cardinality(Registered) = size /\ rest # {}
  <2>1. PICK m \in rest :
          Start(c, [kind |-> "broadcast", to |-> modules[m],
                    rest |-> rest \ {m}, size |-> size], ld)
    BY <1>3 DEF BroadcastNext
  <2> DEFINE s == [kind |-> "broadcast", to |-> modules[m],
                   rest |-> rest \ {m}, size |-> size]
  <2>2. modules[m] \in Conns
    BY DEF RegistryInv, Registered
  <2>3. rest \subseteq ModuleIds
    BY DEF Registered
  <2>4. s \in Sends /\ s.to \in Conns /\ s.rest \subseteq Registered
    BY <2>2, <2>3 DEF Sends
  <2>5. Start(c, s, ld)
    BY <2>1
  <2> HIDE DEF s
  <2> QED
    BY <2>4, <2>5, StartSound
<1> QED
  BY <1>1, <1>2, <1>3

\* The number of registered modules is a natural number.
LEMMA RegisteredCount == Cardinality(Registered) \in Nat
<1>1. IsFiniteSet(Registered)
  BY FS_Subset, HubAssumption DEF Registered
<1> QED
  BY <1>1, FS_CardinalityType

-----------------------------------------------------------------------------
(* Unregistering.                                                          *)

LEMMA UnregisterRegistry ==
  ASSUME RegistryInv, NEW S \in SUBSET Registered, Unregister(S)
  PROVE  /\ modules' \in [ModuleIds -> Conns \cup {NoConn}]
         /\ status' \in [ModuleIds -> {"online", "offline"}]
         /\ age' \in [ModuleIds -> Ages]
         /\ Registered' = Registered \ S
         /\ \A m \in Registered \ S : modules'[m] = modules[m]
  BY DEF RegistryInv, Unregister, Registered, Ages

\* The sends that are under way keep the loads they hold.
LEMMA UnregisterSends ==
  ASSUME SendInv, RegistryInv, NEW S \in SUBSET Registered, Unregister(S), UNCHANGED load
  PROVE  SendInv'
<1>1. send' = [c \in Conns |-> [send[c] EXCEPT !.rest = @ \ S]]
  BY DEF Unregister, RestWithout
<1>2. ASSUME NEW c \in Conns
      PROVE  /\ send'[c] \in Sends
             /\ send'[c].to = send[c].to
             /\ send'[c].rest = send[c].rest \ S
             /\ send[c] = Idle => send'[c] = Idle
  <2>1. send[c] \in Sends
    BY DEF SendInv
  <2>2. send'[c] = [send[c] EXCEPT !.rest = send[c].rest \ S]
    BY <1>1
  <2>3. Idle.rest = {} /\ Idle \in Sends
    BY DEF Idle, Sends
  <2>4. send[c] = Idle => [Idle EXCEPT !.rest = {}] = Idle
    BY DEF Idle
  <2> QED
    BY <2>1, <2>2, <2>3, <2>4 DEF Sends
<1>3. send' \in [Conns -> Sends] /\ load' \in [Conns -> Nat]
  BY <1>1, <1>2 DEF SendInv
<1>4. LoadIsInFlight'
  <2>1. \A d \in Conns : {c \in Conns : send'[c].to = d} = {c \in Conns : send[c].to = d}
    BY <1>2
  <2> QED
    BY <2>1 DEF LoadIsInFlight, SendInv
<1>5. SendsAreSound'
  BY <1>2, UnregisterRegistry DEF SendInv, SendsAreSound
<1> QED
  BY <1>3, <1>4, <1>5 DEF SendInv

\* No trace of S is left in the cache, and nothing is lost from the index for
\* the modules that stay.
LEMMA UnregisterIndex ==
  ASSUME RegistryInv, IndexInv, NEW S \in SUBSET Registered, Unregister(S)
  PROVE  IndexInv'
<1>1. Registered' = Registered \ S
  BY UnregisterRegistry
<1>2. /\ caps' \in [ModuleIds -> SUBSET Capabilities]
      /\ index' \in [Capabilities -> SUBSET ModuleIds]
      /\ cache' \in [Capabilities -> ModuleIds \cup {NoModule}]
  BY DEF IndexInv, Unregister, IndexWithout, CacheWithout
<1>3. CachedIsRegistered'
  BY <1>1 DEF IndexInv, CachedIsRegistered, Unregister, CacheWithout
<1>4. AnnouncedIsIndexed'
  BY <1>1 DEF IndexInv, AnnouncedIsIndexed, Unregister, IndexWithout, Registered
<1> QED
  BY <1>2, <1>3, <1>4 DEF IndexInv

-----------------------------------------------------------------------------
(* Every step preserves the invariant: one lemma per group of actions that *)
(* touch the same part of the state.                                       *)

LEMMA InitHolds == Init => IInv
<1> SUFFICES ASSUME Init PROVE IInv
  OBVIOUS
<1>1. Idle \in Sends /\ Idle.to = NoConn /\ Idle.rest = {}
  BY DEF Idle, Sends
<1>2. SendInv
  <2>1. \A d \in Conns : {c \in Conns : send[c].to = d} = {}
    BY <1>1, HubAssumption DEF Init
  <2>2. LoadIsInFlight
    BY <2>1, FS_EmptySet DEF Init, LoadIsInFlight
  <2> QED
    BY <1>1, <2>2 DEF Init, SendInv, SendsAreSound
<1>3. RegistryInv
  BY DEF Init, RegistryInv, RegisteredIsServed, Registered, Phases, Ages
<1>4. IndexInv
  BY DEF Init, IndexInv, CachedIsRegistered, AnnouncedIsIndexed, Registered
<1> QED
  BY <1>2, <1>3, <1>4 DEF IInv

\* What only moves the handler or its socket.
LEMMA HandlerStep ==
  ASSUME IInv, NEW c \in Conns, AuthFail(c) \/ Acked(c) \/ PeerCloses(c)
  PROVE  IInv'
<1>1. UNCHANGED <<mid, contested, send, load, modules, caps, status, age, index, cache, wsconns, streams>>
  BY DEF AuthFail, Acked, PeerCloses
<1>2. SendInv'
  BY <1>1 DEF IInv, SendInv, SendsAreSound, LoadIsInFlight, Registered
<1>3. RegistryInv'
  <2>1. /\ phase' \in [Conns -> Phases]
        /\ open' \in [Conns -> BOOLEAN]
        /\ \A d \in Conns : phase[d] \in {"acking", "serving"} => phase'[d] \in {"acking", "serving"}
    <3>1. CASE AuthFail(c)
      BY <3>1 DEF IInv, RegistryInv, Phases, AuthFail
    <3>2. CASE Acked(c)
      BY <3>2 DEF IInv, RegistryInv, Phases, Acked
    <3>3. CASE PeerCloses(c)
      BY <3>3 DEF IInv, RegistryInv, Phases, PeerCloses
    <3> QED
      BY <3>1, <3>2, <3>3
  <2> QED
    BY <1>1, <2>1 DEF IInv, RegistryInv, RegisteredIsServed, Registered
<1>4. IndexInv'
  BY <1>1 DEF IInv, IndexInv, CachedIsRegistered, AnnouncedIsIndexed, Registered
<1> QED
  BY <1>2, <1>3, <1>4 DEF IInv

\* What it means to present an id.
LEMMA ClaimContests ==
  ASSUME IInv, NEW m \in ModuleIds, Claims(m)
  PROVE  /\ contested \subseteq contested' /\ contested' \in SUBSET ModuleIds
         /\ m \in contested' \/ (m \notin Registered /\ \A d \in Conns : mid[d] # m)
<1>1. m \in Registered => modules[m] \in Conns /\ mid[modules[m]] = m
  BY DEF IInv, RegistryInv, RegisteredIsServed, Registered
<1> QED
  BY <1>1 DEF Claims, IInv, RegistryInv

LEMMA BadCapabilitiesStep ==
  ASSUME IInv, NEW c \in Conns, NEW m \in ModuleIds, BadCapabilities(c, m)
  PROVE  IInv'
<1> DEFINE S == {m} \cap Registered
<1>1. S \in SUBSET Registered /\ Unregister(S) /\ UNCHANGED <<mid, load, wsconns, streams>>
  BY DEF BadCapabilities
<1> HIDE DEF S
<1>2. SendInv' /\ IndexInv'
  BY <1>1, UnregisterSends, UnregisterIndex DEF IInv
<1>3. RegistryInv'
  <2>1. /\ phase' \in [Conns -> Phases]
        /\ open' \in [Conns -> BOOLEAN]
        /\ \A d \in Conns : phase[d] # "auth" => phase'[d] = phase[d]
    BY DEF IInv, RegistryInv, Phases, BadCapabilities
  <2>2. contested' \in SUBSET ModuleIds
    BY ClaimContests DEF BadCapabilities
  <2> QED
    BY <1>1, <2>1, <2>2, UnregisterRegistry
    DEF IInv, RegistryInv, RegisteredIsServed, Registered
<1> QED
  BY <1>2, <1>3 DEF IInv

LEMMA FinishStep ==
  ASSUME IInv, NEW c \in Conns, Finish(c)
  PROVE  IInv'
<1> DEFINE S == Leaving(c)
<1>1. S \in SUBSET Registered /\ Unregister(S) /\ UNCHANGED <<open, load, contested, streams>>
  BY DEF Finish, Leaving
<1>2. \A m \in Registered \ S : modules[m] # c
  BY DEF Leaving, IInv, RegistryInv, RegisteredIsServed
<1> HIDE DEF S
<1>3. SendInv' /\ IndexInv'
  BY <1>1, UnregisterSends, UnregisterIndex DEF IInv
<1>4. RegistryInv'
  <2>1. /\ phase' \in [Conns -> Phases]
        /\ mid' \in [Conns -> ModuleIds \cup {NoModule}]
        /\ wsconns' \in SUBSET Conns
        /\ \A d \in Conns \ {c} : /\ phase'[d] = phase[d]
                                  /\ mid'[d] = mid[d]
                                  /\ d \in wsconns => d \in wsconns'
    BY DEF IInv, RegistryInv, Phases, Finish
  <2>2. \A m \in Registered \ S : modules[m] \in Conns \ {c}
    BY <1>2 DEF IInv, RegistryInv, Registered
  <2> QED
    BY <1>1, <2>1, <2>2, UnregisterRegistry DEF IInv, RegistryInv, RegisteredIsServed
<1> QED
  BY <1>3, <1>4 DEF IInv

LEMMA CleanupStaleStep ==
  ASSUME IInv, CleanupStale
  PROVE  IInv'
<1> DEFINE S == Abandoned
<1>1. S \in SUBSET Registered /\ Unregister(S) /\ UNCHANGED <<connVars, load, wsconns, streams>>
  BY DEF CleanupStale, Abandoned
<1> HIDE DEF S
<1>2. SendInv' /\ IndexInv'
  BY <1>1, UnregisterSends, UnregisterIndex DEF IInv
<1>3. RegistryInv'
  BY <1>1, UnregisterRegistry DEF IInv, RegistryInv, RegisteredIsServed, connVars
<1> QED
  BY <1>2, <1>3 DEF IInv

LEMMA RegisterStep ==
  ASSUME IInv, NEW c \in Conns, NEW m \in ModuleIds, NEW C \in SUBSET Capabilities,
         Register(c, m, C)
  PROVE  IInv'
<1>1. Registered' = Registered \cup {m}
  BY HubAssumption DEF IInv, RegistryInv, Registered, Register
<1>2. RegistryInv'
  <2>1. /\ phase' \in [Conns -> Phases]
        /\ open' \in [Conns -> BOOLEAN]
        /\ mid' \in [Conns -> ModuleIds \cup {NoModule}]
        /\ modules' \in [ModuleIds -> Conns \cup {NoConn}]
        /\ status' \in [ModuleIds -> {"online", "offline"}]
        /\ age' \in [ModuleIds -> Ages]
        /\ wsconns' \in SUBSET Conns
        /\ streams' \in [StreamIds -> ModuleIds \cup {NoModule}]
        /\ contested' \in SUBSET ModuleIds
    BY ClaimContests DEF IInv, RegistryInv, Register, Phases, Ages
  <2>2. RegisteredIsServed'
    <3> SUFFICES ASSUME NEW n \in Registered'
                 PROVE  /\ phase'[modules'[n]] \in {"acking", "serving"}
                        /\ mid'[modules'[n]] = n
                        /\ modules'[n] \in wsconns'
      BY DEF RegisteredIsServed
    <3>1. CASE n = m
      BY <3>1 DEF IInv, RegistryInv, Register
    <3>2. CASE n # m
      <4>1. n \in Registered /\ modules'[n] = modules[n] /\ modules[n] \in Conns
        BY <1>1, <3>2 DEF IInv, RegistryInv, Register, Registered
      <4>2. modules[n] # c
        BY <4>1 DEF IInv, RegistryInv, RegisteredIsServed, Register
      <4> QED
        BY <4>1, <4>2 DEF IInv, RegistryInv, RegisteredIsServed, Register
    <3> QED
      BY <3>1, <3>2
  <2> QED
    BY <2>1, <2>2 DEF RegistryInv
<1>3. IndexInv'
  <2>1. /\ caps' \in [ModuleIds -> SUBSET Capabilities]
        /\ index' \in [Capabilities -> SUBSET ModuleIds]
        /\ cache' \in [Capabilities -> ModuleIds \cup {NoModule}]
    BY DEF IInv, IndexInv, Register
  <2>2. CachedIsRegistered'
    BY <1>1 DEF IInv, IndexInv, CachedIsRegistered, Register
  <2>3. AnnouncedIsIndexed'
    BY <1>1 DEF IInv, IndexInv, AnnouncedIsIndexed, Register, Registered
  <2> QED
    BY <2>1, <2>2, <2>3 DEF IndexInv
<1>4. SendInv'
  <2>1. CASE m \in Registered
    BY <1>1, <2>1 DEF IInv, SendInv, SendsAreSound, LoadIsInFlight, Register
  <2>2. CASE m \notin Registered
    <3>1. ASSUME NEW d \in Conns
          PROVE  /\ send'[d] \in Sends
                 /\ send'[d].to = send[d].to
                 /\ send'[d].rest \subseteq send[d].rest \cup {m}
                 /\ send[d] = Idle => send'[d] = Idle
      <4>1. send[d] \in Sends
        BY DEF IInv, SendInv
      <4>2. send'[d] = IF send[d].kind = "broadcast" /\ m # mid[d]
                       THEN [send[d] EXCEPT !.rest = send[d].rest \cup {m}]
                       ELSE send[d]
        BY <2>2 DEF Register, RestWith
      <4>3. Idle.kind # "broadcast"
        BY DEF Idle
      <4> QED
        BY <4>1, <4>2, <4>3 DEF Sends
    <3>2. send' \in [Conns -> Sends] /\ load' = load
      BY <2>2, <3>1 DEF Register, RestWith
    <3>3. LoadIsInFlight'
      <4>1. \A d \in Conns : {x \in Conns : send'[x].to = d} = {x \in Conns : send[x].to = d}
        BY <3>1
      <4> QED
        BY <3>2, <4>1 DEF IInv, SendInv, LoadIsInFlight
    <3>4. SendsAreSound'
      BY <1>1, <3>1 DEF IInv, SendInv, SendsAreSound
    <3> QED
      BY <3>2, <3>3, <3>4 DEF IInv, SendInv
  <2> QED
    BY <2>1, <2>2
<1> QED
  BY <1>2, <1>3, <1>4 DEF IInv

\* The silence of a module, and the monitor that notices it.
LEMMA SilenceStep ==
  ASSUME IInv, HeartbeatMonitor \/ \E m \in ModuleIds : Elapse(m)
  PROVE  IInv'
<1>1. UNCHANGED <<connVars, send, load, modules, caps, index, cache, wsconns, streams>>
  BY DEF HeartbeatMonitor, Elapse
<1>2. SendInv'
  BY <1>1 DEF IInv, SendInv, SendsAreSound, LoadIsInFlight, Registered
<1>3. IndexInv'
  BY <1>1 DEF IInv, IndexInv, CachedIsRegistered, AnnouncedIsIndexed, Registered
<1>4. /\ status' \in [ModuleIds -> {"online", "offline"}]
      /\ age' \in [ModuleIds -> Ages]
  <2>1. CASE HeartbeatMonitor
    BY <2>1 DEF HeartbeatMonitor, IInv, RegistryInv
  <2>2. CASE \E m \in ModuleIds : Elapse(m)
    BY <2>2 DEF Elapse, IInv, RegistryInv, Ages
  <2> QED
    BY <2>1, <2>2
<1>5. RegistryInv'
  BY <1>1, <1>4 DEF IInv, RegistryInv, RegisteredIsServed, Registered, connVars
<1> QED
  BY <1>2, <1>3, <1>5 DEF IInv

\* Handling a message leaves who is registered, and as what, alone.
LEMMA MessageRegistry ==
  ASSUME IInv, NEW c \in Conns, UNCHANGED <<connVars, modules, status, wsconns>>,
         age' \in {age, Touched(c)}, streams' \in [StreamIds -> ModuleIds \cup {NoModule}]
  PROVE  RegistryInv'
<1>1. age' \in [ModuleIds -> Ages]
  BY DEF IInv, RegistryInv, Touched, Ages, Registered
<1> QED
  BY <1>1 DEF IInv, RegistryInv, RegisteredIsServed, Registered, connVars

LEMMA MessageIndex ==
  ASSUME IInv, UNCHANGED <<modules, caps, index, cache>>
  PROVE  IndexInv'
BY DEF IInv, IndexInv, CachedIsRegistered, AnnouncedIsIndexed, Registered

LEMMA CapabilityAnnounceStep ==
  ASSUME IInv, NEW c \in Conns, NEW C \in SUBSET Capabilities, CapabilityAnnounce(c, C)
  PROVE  IInv'
<1>1. /\ UNCHANGED <<connVars, send, load, modules, status, cache, wsconns, streams>>
      /\ age' = Touched(c)
      /\ Registered' = Registered
  BY DEF CapabilityAnnounce, Registered
<1>2. RegistryInv'
  BY <1>1, MessageRegistry DEF IInv, RegistryInv
<1>3. SendInv'
  BY <1>1 DEF IInv, SendInv, SendsAreSound, LoadIsInFlight
<1>4. CASE mid[c] \notin Registered
  BY <1>1, <1>2, <1>3, <1>4, MessageIndex DEF IInv, CapabilityAnnounce
<1>5. CASE mid[c] \in Registered
  <2>1. /\ caps' = [caps EXCEPT ![mid[c]] = C]
        /\ index' = Reindexed(mid[c], C)
        /\ mid[c] \in ModuleIds
    BY <1>5 DEF CapabilityAnnounce, Registered
  <2>2. /\ caps' \in [ModuleIds -> SUBSET Capabilities]
        /\ index' \in [Capabilities -> SUBSET ModuleIds]
    BY <2>1 DEF IInv, IndexInv, Reindexed
  <2>3. CachedIsRegistered'
    BY <1>1 DEF IInv, IndexInv, CachedIsRegistered
  <2>4. AnnouncedIsIndexed'
    BY <1>1, <2>1 DEF IInv, IndexInv, AnnouncedIsIndexed, Reindexed, Registered
  <2> QED
    BY <1>1, <1>2, <1>3, <2>2, <2>3, <2>4 DEF IInv, IndexInv
<1> QED
  BY <1>4, <1>5

\* Messages answered, refused, or with no answer at all.
LEMMA AnswerStep ==
  ASSUME IInv, NEW c \in Conns,
         \/ Invalid(c) \/ Malformed(c) \/ Heartbeat(c) \/ CapabilityQuery(c)
         \/ StreamData(c)
         \/ \E s \in StreamIds : StreamStart(c, s) \/ StreamEnd(c, s)
         \/ \E a \in Capabilities : RouteFails(c, a)
  PROVE  IInv'
<1>1. /\ Ready(c)
      /\ UNCHANGED <<connVars, modules, caps, status, index, cache, wsconns>>
      /\ age' \in {age, Touched(c)}
  BY DEF Invalid, Malformed, Heartbeat, CapabilityQuery, StreamData, StreamStart,
         StreamEnd, RouteFails, Handles
<1>2. \/ UNCHANGED <<send, load>>
      \/ \E kind \in {"reply", "error"} : ToSource(c, kind, load)
  BY DEF Invalid, Malformed, Heartbeat, CapabilityQuery, StreamData, StreamStart,
         StreamEnd, RouteFails
<1>3. SendInv'
  <2>1. CASE UNCHANGED <<send, load>>
    BY <1>1, <2>1 DEF IInv, SendInv, SendsAreSound, LoadIsInFlight, Registered
  <2>2. CASE \E kind \in {"reply", "error"} : ToSource(c, kind, load)
    BY <1>1, <2>2, ReadyBalanced, ToSourceSound DEF IInv
  <2> QED
    BY <1>2, <2>1, <2>2
<1>4. streams' \in [StreamIds -> ModuleIds \cup {NoModule}]
  <2>1. mid[c] \in ModuleIds \cup {NoModule}
    BY DEF IInv, RegistryInv
  <2> QED
    BY <2>1 DEF IInv, RegistryInv, Invalid, Malformed, Heartbeat, CapabilityQuery,
                StreamData, StreamStart, StreamEnd, RouteFails
<1>5. RegistryInv'
  BY <1>1, <1>4, MessageRegistry
<1>6. IndexInv'
  BY <1>1, MessageIndex
<1> QED
  BY <1>3, <1>5, <1>6 DEF IInv

LEMMA RouteDirectStep ==
  ASSUME IInv, NEW c \in Conns, NEW m \in ModuleIds, RouteDirect(c, m)
  PROVE  IInv'
<1>1. /\ Ready(c)
      /\ UNCHANGED <<connVars, modules, caps, status, index, cache, wsconns, streams>>
      /\ age' = Touched(c)
  BY DEF RouteDirect, Handles
<1>2. SendInv'
  <2>1. CASE m \in Registered
    BY <1>1, <2>1, ToModuleSound DEF IInv, RouteDirect
  <2>2. CASE m \notin Registered
    BY <1>1, <2>2, ReadyBalanced, ToSourceSound DEF IInv, RouteDirect
  <2> QED
    BY <2>1, <2>2
<1> QED
  BY <1>1, <1>2, MessageRegistry, MessageIndex DEF IInv, RegistryInv

LEMMA RouteCachedStep ==
  ASSUME IInv, NEW c \in Conns, NEW a \in Capabilities, RouteCached(c, a)
  PROVE  IInv'
<1>1. /\ Ready(c)
      /\ UNCHANGED <<connVars, modules, caps, status, index, cache, wsconns, streams>>
      /\ age' = Touched(c)
      /\ cache[a] \in Registered
  BY DEF RouteCached, Handles, Cached
<1>2. SendInv'
  BY <1>1, ToModuleSound DEF IInv, RouteCached
<1> QED
  BY <1>1, <1>2, MessageRegistry, MessageIndex DEF IInv, RegistryInv

\* The module a selection caches is registered.
LEMMA RouteSelectedStep ==
  ASSUME IInv, NEW c \in Conns, NEW a \in Capabilities, RouteSelected(c, a)
  PROVE  IInv'
<1>1. /\ Ready(c)
      /\ UNCHANGED <<connVars, modules, caps, status, index, wsconns, streams>>
      /\ age' = Touched(c)
  BY DEF RouteSelected, Handles
<1>2. PICK m \in Registered :
        /\ cache' = [cache EXCEPT ![a] = m]
        /\ Start(c, Sending("message", modules[m]), load)
  BY DEF RouteSelected, LeastLoaded, Online
<1>3. SendInv'
  BY <1>1, <1>2, ToModuleSound DEF IInv
<1>4. IndexInv'
  <2>1. m \in ModuleIds /\ Registered' = Registered
    BY <1>1 DEF Registered
  <2>2. cache' \in [Capabilities -> ModuleIds \cup {NoModule}] /\ CachedIsRegistered'
    BY <1>2, <2>1 DEF IInv, IndexInv, CachedIsRegistered
  <2>3. AnnouncedIsIndexed'
    BY <1>1, <2>1 DEF IInv, IndexInv, AnnouncedIsIndexed
  <2> QED
    BY <1>1, <2>2, <2>3 DEF IInv, IndexInv
<1> QED
  BY <1>1, <1>3, <1>4, MessageRegistry DEF IInv, RegistryInv

LEMMA BroadcastStep ==
  ASSUME IInv, NEW c \in Conns, Broadcast(c)
  PROVE  IInv'
<1>1. /\ Ready(c)
      /\ UNCHANGED <<connVars, modules, caps, status, index, cache, wsconns, streams>>
      /\ age' = Touched(c)
      /\ BroadcastNext(c, Registered \ {mid[c]}, Cardinality(Registered), load)
  BY DEF Broadcast, Handles
<1>2. SendInv'
  BY <1>1, ReadyBalanced, RegisteredCount, BroadcastNextSound DEF IInv
<1> QED
  BY <1>1, <1>2, MessageRegistry, MessageIndex DEF IInv, RegistryInv

\* A send that comes back, well or not.
LEMMA SendStep ==
  ASSUME IInv, NEW c \in Conns, SendOk(c) \/ SendFails(c)
  PROVE  IInv'
<1>1. /\ send[c] # Idle
      /\ UNCHANGED <<connVars, modules, caps, status, age, index, cache, wsconns, streams>>
  BY DEF SendOk, SendFails
<1>2. Balanced(c, Released(c))
  BY <1>1, ReleasedBalanced DEF IInv
<1>3. \/ Rest(c, Released(c))
      \/ ToSource(c, "error", Released(c))
      \/ BroadcastNext(c, send[c].rest, send[c].size, Released(c))
  BY DEF SendOk, SendFails
<1>4. send[c].rest \in SUBSET Registered /\ send[c].size \in Nat
  BY DEF IInv, SendInv, SendsAreSound, Sends
<1>5. SendInv'
  BY <1>1, <1>2, <1>3, <1>4, RestSound, ToSourceSound, BroadcastNextSound DEF IInv
<1> QED
  BY <1>1, <1>5, MessageRegistry, MessageIndex DEF IInv, RegistryInv

LEMMA StutterStep == IInv /\ UNCHANGED vars => IInv'
BY DEF vars, IInv, SendInv, SendsAreSound, LoadIsInFlight, RegistryInv, RegisteredIsServed,
       IndexInv, CachedIsRegistered, AnnouncedIsIndexed, Registered, Phases, Ages, Sends, Idle

-----------------------------------------------------------------------------
\* The inductive invariant holds in every reachable state of the hub.
THEOREM Invariant == Spec => []IInv
<1>1. IInv /\ [Next]_vars => IInv'
  <2> SUFFICES ASSUME IInv, [Next]_vars PROVE IInv'
    OBVIOUS
  <2>1. ASSUME NEW c \in Conns, Lifecycle(c) PROVE IInv'
    BY <2>1, HandlerStep, BadCapabilitiesStep, RegisterStep, FinishStep DEF Lifecycle
  <2>2. ASSUME NEW c \in Conns, HandleMessage(c) PROVE IInv'
    BY <2>2, AnswerStep, CapabilityAnnounceStep, RouteDirectStep, RouteCachedStep,
       RouteSelectedStep, BroadcastStep DEF HandleMessage
  <2>3. ASSUME NEW c \in Conns, SendOk(c) \/ SendFails(c) PROVE IInv'
    BY <2>3, SendStep
  <2>4. CASE HeartbeatMonitor \/ \E m \in ModuleIds : Elapse(m)
    BY <2>4, SilenceStep
  <2>5. CASE CleanupStale
    BY <2>5, CleanupStaleStep
  <2>6. CASE UNCHANGED vars
    BY <2>6, StutterStep
  <2> QED
    BY <2>1, <2>2, <2>3, <2>4, <2>5, <2>6 DEF Next
<1> QED
  BY <1>1, InitHolds, PTL DEF Spec

\* Every variable keeps its type: in particular no current_load goes negative.
THEOREM TypeCorrect == Spec => []TypeOK
<1>1. IInv => TypeOK
  BY DEF IInv, SendInv, RegistryInv, IndexInv, TypeOK
<1> QED
  BY <1>1, Invariant, PTL

\* current_load counts the sends in flight, for any number of connections.
THEOREM LoadCorrect == Spec => []LoadIsInFlight
<1>1. IInv => LoadIsInFlight
  BY DEF IInv, SendInv
<1> QED
  BY <1>1, Invariant, PTL

\* The registry never names a connection whose handler has ended.
THEOREM RegistryCorrect == Spec => []RegisteredIsServed
<1>1. IInv => RegisteredIsServed
  BY DEF IInv, RegistryInv
<1> QED
  BY <1>1, Invariant, PTL

\* The routing cache never names an id that is not registered.
THEOREM CacheCorrect == Spec => []CachedIsRegistered
<1>1. IInv => CachedIsRegistered
  BY DEF IInv, IndexInv
<1> QED
  BY <1>1, Invariant, PTL

\* A registered module is found under everything it announced.
THEOREM IndexCorrect == Spec => []AnnouncedIsIndexed
<1>1. IInv => AnnouncedIsIndexed
  BY DEF IInv, IndexInv
<1> QED
  BY <1>1, Invariant, PTL

-----------------------------------------------------------------------------
(* What presenting an id that is held leads to, and what it does not.      *)

\* Two handlers have the same id only if it is contested.
RivalsAreContested ==
  \A c, d \in Conns : mid[c] = mid[d] /\ mid[c] # NoModule => c = d \/ mid[c] \in contested

\* Only a handler in its message loop sends, and only to what has registered.
SendersServe ==
  \A c \in Conns : send[c] # Idle => phase[c] = "serving" /\ phase[send[c].to] # "auth"

\* IInv is added where it is needed.
RivalInv == RivalsAreContested /\ SendersServe /\ GhostsAreContested /\ RepliesStayHome

\* What a send s of the handler of c must be.
Homely(c, s) ==
  s = Idle \/ /\ phase[s.to] # "auth"
              /\ s.kind \in {"reply", "error"} =>
                   /\ mid[s.to] \in {mid[c], NoModule}
                   /\ s.to = c \/ mid[c] \in contested

LEMMA SendStays ==
  ASSUME IInv, RivalInv, NEW c \in Conns, phase[c] = "serving", NEW s, Homely(c, s),
         send' = [send EXCEPT ![c] = s], UNCHANGED <<phase, mid, contested>>
  PROVE  SendersServe' /\ RepliesStayHome'
<1>1. Idle.kind \notin {"reply", "error"}
  BY DEF Idle
<1>2. \A d \in Conns : send'[d] = IF d = c THEN s ELSE send[d]
  BY DEF IInv, SendInv
<1>3. SendersServe'
  BY <1>2 DEF RivalInv, SendersServe, Homely
<1>4. RepliesStayHome'
  BY <1>1, <1>2 DEF RivalInv, RepliesStayHome, Homely
<1> QED
  BY <1>3, <1>4

LEMMA RestStays ==
  ASSUME IInv, RivalInv, NEW c \in Conns, phase[c] = "serving", NEW ld, Rest(c, ld),
         UNCHANGED <<phase, mid, contested>>
  PROVE  SendersServe' /\ RepliesStayHome'
BY SendStays DEF Rest, Homely

\* A connection that is registered has a handler past its authentication.
LEMMA RegisteredIsBeyondAuth ==
  ASSUME IInv, NEW m \in Registered
  PROVE  modules[m] \in Conns /\ mid[modules[m]] = m /\ phase[modules[m]] # "auth"
BY DEF IInv, RegistryInv, RegisteredIsServed, Registered

LEMMA ToSourceStays ==
  ASSUME IInv, RivalInv, NEW c \in Conns, phase[c] = "serving", NEW kind, NEW ld,
         ToSource(c, kind, ld), UNCHANGED <<phase, mid, contested>>
  PROVE  SendersServe' /\ RepliesStayHome'
<1>1. CASE mid[c] \in Registered
  <2> DEFINE s == Sending(kind, modules[mid[c]])
  <2>1. s.to = modules[mid[c]]
    BY DEF Sending, Idle
  <2>2. mid[c] # NoModule
    BY <1>1, HubAssumption DEF Registered
  <2>3. s.to \in Conns /\ mid[s.to] = mid[c] /\ phase[s.to] # "auth"
    BY <1>1, <2>1, RegisteredIsBeyondAuth
  <2>4. s.to = c \/ mid[c] \in contested
    BY <2>2, <2>3 DEF RivalInv, RivalsAreContested
  <2>5. send' = [send EXCEPT ![c] = s]
    BY <1>1 DEF ToSource, Start
  <2> HIDE DEF s
  <2> QED
    BY <2>3, <2>4, <2>5, SendStays DEF Homely
<1>2. CASE mid[c] \notin Registered
  BY <1>2, RestStays DEF ToSource
<1> QED
  BY <1>1, <1>2

LEMMA MessageStays ==
  ASSUME IInv, RivalInv, NEW c \in Conns, phase[c] = "serving", NEW m \in Registered, NEW ld,
         Start(c, Sending("message", modules[m]), ld), UNCHANGED <<phase, mid, contested>>
  PROVE  SendersServe' /\ RepliesStayHome'
<1> DEFINE s == Sending("message", modules[m])
<1>1. s.kind = "message" /\ s.to = modules[m] /\ send' = [send EXCEPT ![c] = s]
  BY DEF Sending, Idle, Start
<1> HIDE DEF s
<1> QED
  BY <1>1, RegisteredIsBeyondAuth, SendStays DEF Homely

LEMMA BroadcastStays ==
  ASSUME IInv, RivalInv, NEW c \in Conns, phase[c] = "serving",
         NEW rest \in SUBSET Registered, NEW size, NEW ld,
         BroadcastNext(c, rest, size, ld), UNCHANGED <<phase, mid, contested>>
  PROVE  SendersServe' /\ RepliesStayHome'
<1>1. CASE ToSource(c, "error", ld) \/ Rest(c, ld)
  BY <1>1, ToSourceStays, RestStays
<1>2. ASSUME NEW m \in rest,
             Start(c, [kind |-> "broadcast", to |-> modules[m],
                       rest |-> rest \ {m}, size |-> size], ld)
      PROVE  SendersServe' /\ RepliesStayHome'
  <2> DEFINE s == [kind |-> "broadcast", to |-> modules[m],
                   rest |-> rest \ {m}, size |-> size]
  <2>1. s.kind = "broadcast" /\ s.to = modules[m] /\ send' = [send EXCEPT ![c] = s]
    BY <1>2 DEF Start
  <2> HIDE DEF s
  <2> QED
    BY <2>1, RegisteredIsBeyondAuth, SendStays DEF Homely
<1> QED
  BY <1>1, <1>2 DEF BroadcastNext

\* A removal changes neither kind nor destination of what is in flight, and leaves
\* no entry of a removed module in the index but ghosts of earlier ones.
LEMMA UnregisterRivals ==
  ASSUME IInv, RivalInv, NEW S \in SUBSET Registered, Unregister(S), contested \subseteq contested'
  PROVE  /\ GhostsAreContested'
         /\ \A c \in Conns : /\ send'[c].kind = send[c].kind /\ send'[c].to = send[c].to
                             /\ send'[c] # Idle => send[c] # Idle
<1>1. Registered' = Registered \ S
  BY UnregisterRegistry DEF IInv
<1>2. GhostsAreContested'
  <2>1. /\ \A m \in ModuleIds : caps'[m] = IF m \in S THEN {} ELSE caps[m]
        /\ \A a \in Capabilities : index'[a] = {m \in index[a] : m \notin S \/ a \notin caps[m]}
        /\ \A a \in Capabilities : index[a] \subseteq ModuleIds
    BY DEF Unregister, IndexWithout, IInv, IndexInv
  <2> QED
    BY <1>1, <2>1 DEF RivalInv, GhostsAreContested
<1>3. ASSUME NEW c \in Conns
      PROVE  /\ send'[c].kind = send[c].kind /\ send'[c].to = send[c].to
             /\ send'[c] # Idle => send[c] # Idle
  <2>1. send'[c] = [send[c] EXCEPT !.rest = send[c].rest \ S] /\ send[c] \in Sends
    BY DEF Unregister, RestWithout, IInv, SendInv
  <2>2. [Idle EXCEPT !.rest = Idle.rest \ S] = Idle
    BY DEF Idle
  <2> QED
    BY <2>1, <2>2 DEF Sends
<1> QED
  BY <1>2, <1>3

LEMMA RivalInit == Init => RivalInv
BY DEF Init, RivalInv, RivalsAreContested, SendersServe, GhostsAreContested,
       RepliesStayHome, Idle

LEMMA BadCapabilitiesRivals ==
  ASSUME IInv, RivalInv, NEW c \in Conns, NEW m \in ModuleIds, BadCapabilities(c, m)
  PROVE  RivalInv'
<1>1. /\ UNCHANGED mid /\ Unregister({m} \cap Registered) /\ contested \subseteq contested'
      /\ \A d \in Conns : phase[d] # "auth" => phase'[d] = phase[d]
  BY ClaimContests DEF BadCapabilities, IInv, RegistryInv
<1>2. /\ GhostsAreContested'
      /\ \A d \in Conns : /\ send'[d].kind = send[d].kind /\ send'[d].to = send[d].to
                          /\ send'[d] # Idle => send[d] # Idle
  BY <1>1, UnregisterRivals
<1>3. \A d \in Conns : send[d] # Idle => send[d].to \in Conns
  BY DEF IInv, SendInv, SendsAreSound, Sends
<1>4. SendersServe'
  BY <1>1, <1>2, <1>3 DEF RivalInv, SendersServe
<1>5. RepliesStayHome' /\ RivalsAreContested'
  BY <1>1, <1>2 DEF RivalInv, RepliesStayHome, RivalsAreContested
<1> QED
  BY <1>2, <1>4, <1>5 DEF RivalInv

LEMMA FinishRivals ==
  ASSUME IInv, RivalInv, NEW c \in Conns, Finish(c)
  PROVE  RivalInv'
<1>1. /\ UNCHANGED contested /\ Unregister(Leaving(c)) /\ Leaving(c) \in SUBSET Registered
      /\ send[c] = Idle /\ phase[c] # "auth"
      /\ \A d \in Conns : /\ mid'[d] = IF d = c THEN NoModule ELSE mid[d]
                          /\ phase'[d] = IF d = c THEN "closed" ELSE phase[d]
  BY DEF Finish, Leaving, IInv, RegistryInv
<1>2. /\ GhostsAreContested'
      /\ \A d \in Conns : /\ send'[d].kind = send[d].kind /\ send'[d].to = send[d].to
                          /\ send'[d] # Idle => send[d] # Idle
  BY <1>1, UnregisterRivals
<1>3. \A d \in Conns : send[d] # Idle => send[d].to \in Conns
  BY DEF IInv, SendInv, SendsAreSound, Sends
<1>4. SendersServe'
  BY <1>1, <1>2, <1>3 DEF RivalInv, SendersServe
<1>5. RepliesStayHome'
  <2>1. Idle.kind \notin {"reply", "error"}
    BY DEF Idle
  <2>2. \A d \in Conns : send[d].kind \in {"reply", "error"} => d # c /\ send[d].to \in Conns
    BY <1>1, <1>3, <2>1
  <2> QED
    BY <1>1, <1>2, <2>2 DEF RivalInv, RepliesStayHome
<1>6. RivalsAreContested'
  BY <1>1 DEF RivalInv, RivalsAreContested
<1> QED
  BY <1>2, <1>4, <1>5, <1>6 DEF RivalInv

LEMMA RegisterRivals ==
  ASSUME IInv, RivalInv, NEW c \in Conns, NEW m \in ModuleIds,
         NEW C \in SUBSET Capabilities, Register(c, m, C)
  PROVE  RivalInv'
<1>1. /\ contested \subseteq contested'
      /\ m \in contested' \/ (m \notin Registered /\ \A d \in Conns : mid[d] # m)
  BY ClaimContests DEF Register
<1>2. Registered' = Registered \cup {m}
  BY HubAssumption DEF IInv, RegistryInv, Registered, Register
<1>3. /\ phase[c] = "auth" /\ send[c] = Idle
      /\ \A d \in Conns : /\ mid'[d] = IF d = c THEN m ELSE mid[d]
                          /\ phase'[d] = IF d = c THEN "acking" ELSE phase[d]
  BY DEF Register, IInv, RegistryInv, RivalInv, SendersServe
<1>4. RivalsAreContested'
  BY <1>1, <1>3 DEF RivalInv, RivalsAreContested
<1>5. GhostsAreContested'
  <2>1. /\ \A n \in ModuleIds : caps'[n] = IF n = m THEN C ELSE caps[n]
        /\ \A a \in Capabilities : index'[a] = IF a \in C THEN index[a] \cup {m} ELSE index[a]
        /\ \A a \in Capabilities : index[a] \subseteq ModuleIds
    BY DEF Register, IInv, IndexInv
  <2> QED
    BY <1>1, <1>2, <2>1 DEF RivalInv, GhostsAreContested
<1>6. \A d \in Conns : /\ send'[d].kind = send[d].kind /\ send'[d].to = send[d].to
                       /\ send'[d] # Idle => send[d] # Idle
  <2>1. CASE m \in Registered
    BY <2>1 DEF Register
  <2>2. CASE m \notin Registered
    <3>1. Idle.kind # "broadcast"
      BY DEF Idle
    <3> QED
      BY <2>2, <3>1 DEF Register, RestWith, IInv, SendInv, Sends
  <2> QED
    BY <2>1, <2>2
<1>7. \A d \in Conns : send[d] # Idle => send[d].to \in Conns
  BY DEF IInv, SendInv, SendsAreSound, Sends
<1>8. SendersServe'
  BY <1>3, <1>6, <1>7 DEF RivalInv, SendersServe
<1>9. RepliesStayHome'
  <2>1. Idle.kind \notin {"reply", "error"}
    BY DEF Idle
  <2>2. \A d \in Conns : send[d].kind \in {"reply", "error"} => d # c /\ send[d].to # c
    BY <1>3, <2>1 DEF RivalInv, SendersServe
  <2>3. \A d \in Conns : send[d].kind \in {"reply", "error"} => send[d].to \in Conns
    BY <1>7, <2>1
  <2> QED
    BY <1>1, <1>3, <1>6, <2>2, <2>3 DEF RivalInv, RepliesStayHome
<1> QED
  BY <1>4, <1>5, <1>8, <1>9 DEF RivalInv

LEMMA LifecycleRivals ==
  ASSUME IInv, RivalInv, NEW c \in Conns, Lifecycle(c)
  PROVE  RivalInv'
<1>1. CASE AuthFail(c) \/ Acked(c) \/ PeerCloses(c)
  <2>1. /\ UNCHANGED <<mid, contested, send, modules, caps, index>>
        /\ \A d \in Conns : /\ phase[d] # "auth" => phase'[d] # "auth"
                            /\ phase[d] = "serving" => phase'[d] = "serving"
    BY <1>1 DEF AuthFail, Acked, PeerCloses, IInv, RegistryInv
  <2>2. \A d \in Conns : send[d] # Idle => send[d].to \in Conns
    BY DEF IInv, SendInv, SendsAreSound, Sends
  <2> QED
    BY <2>1, <2>2 DEF RivalInv, RivalsAreContested, SendersServe, GhostsAreContested,
                      RepliesStayHome, Registered
<1>2. CASE \E m \in ModuleIds : BadCapabilities(c, m)
  BY <1>2, BadCapabilitiesRivals
<1>3. CASE \E m \in ModuleIds, C \in SUBSET Capabilities : Register(c, m, C)
  BY <1>3, RegisterRivals
<1>4. CASE Finish(c)
  BY <1>4, FinishRivals
<1> QED
  BY <1>1, <1>2, <1>3, <1>4 DEF Lifecycle

\* An announcement takes the ghosts of what it announces, if any, back to life.
LEMMA AnnounceRivals ==
  ASSUME IInv, RivalInv, NEW c \in Conns, NEW C \in SUBSET Capabilities,
         CapabilityAnnounce(c, C)
  PROVE  RivalInv'
<1>1. UNCHANGED <<phase, mid, contested, send, modules>> /\ Registered' = Registered
  BY DEF CapabilityAnnounce, connVars, Registered
<1>2. GhostsAreContested'
  <2>1. CASE mid[c] \notin Registered
    BY <1>1, <2>1 DEF CapabilityAnnounce, RivalInv, GhostsAreContested
  <2>2. CASE mid[c] \in Registered
    <3>1. /\ \A n \in ModuleIds : caps'[n] = IF n = mid[c] THEN C ELSE caps[n]
          /\ \A a \in Capabilities :
               index'[a] = IF a \in C THEN index[a] \cup {mid[c]}
                           ELSE IF a \in caps[mid[c]] THEN index[a] \ {mid[c]} ELSE index[a]
          /\ \A a \in Capabilities : index[a] \subseteq ModuleIds
          /\ mid[c] \in ModuleIds
      BY <2>2 DEF CapabilityAnnounce, Reindexed, IInv, IndexInv, Registered
    <3>2. SUFFICES ASSUME NEW a \in Capabilities, NEW n \in index'[a], n \notin contested
                   PROVE  n \in Registered /\ a \in caps'[n]
      BY <1>1, <3>2 DEF GhostsAreContested
    <3>3. CASE n = mid[c]
      BY <2>2, <3>1, <3>2, <3>3, <1>1 DEF RivalInv, GhostsAreContested
    <3>4. CASE n # mid[c]
      BY <3>1, <3>2, <3>4, <1>1 DEF RivalInv, GhostsAreContested
    <3> QED
      BY <3>3, <3>4
  <2> QED
    BY <2>1, <2>2
<1> QED
  BY <1>1, <1>2 DEF RivalInv, RivalsAreContested, SendersServe, RepliesStayHome

\* Messages and sends change nothing else of what ghosts and rivals are.
LEMMA SendingRivals ==
  ASSUME RivalInv, UNCHANGED <<mid, contested, modules, caps, index>>,
         SendersServe' /\ RepliesStayHome'
  PROVE  RivalInv'
BY DEF RivalInv, RivalsAreContested, GhostsAreContested, Registered

LEMMA MessageRivals ==
  ASSUME IInv, RivalInv, NEW c \in Conns, HandleMessage(c)
  PROVE  RivalInv'
<1>1. CASE \E C \in SUBSET Capabilities : CapabilityAnnounce(c, C)
  BY <1>1, AnnounceRivals
<1>2. CASE ~ \E C \in SUBSET Capabilities : CapabilityAnnounce(c, C)
  <2>1. /\ phase[c] = "serving" /\ UNCHANGED <<phase, mid, contested, modules, caps, index>>
        /\ \/ UNCHANGED send
           \/ \E kind \in {"reply", "error"} : ToSource(c, kind, load)
           \/ \E m \in Registered : Start(c, Sending("message", modules[m]), load)
           \/ BroadcastNext(c, Registered \ {mid[c]}, Cardinality(Registered), load)
    <3>1. CASE Invalid(c) \/ Malformed(c) \/ Heartbeat(c) \/ CapabilityQuery(c)
      BY <3>1 DEF Invalid, Malformed, Heartbeat, CapabilityQuery, Handles, Ready, connVars
    <3>2. CASE StreamData(c) \/ \E s \in StreamIds : StreamStart(c, s) \/ StreamEnd(c, s)
      BY <3>2 DEF StreamData, StreamStart, StreamEnd, Handles, Ready, connVars
    <3>3. CASE \E m \in ModuleIds : RouteDirect(c, m)
      BY <3>3 DEF RouteDirect, Handles, Ready, connVars
    <3>4. CASE \E a \in Capabilities : RouteCached(c, a)
      BY <3>4 DEF RouteCached, Cached, Handles, Ready, connVars
    <3>5. CASE \E a \in Capabilities : RouteSelected(c, a)
      BY <3>5 DEF RouteSelected, LeastLoaded, Online, Handles, Ready, connVars
    <3>6. CASE (\E a \in Capabilities : RouteFails(c, a)) \/ Broadcast(c)
      BY <3>6 DEF RouteFails, Broadcast, Handles, Ready, connVars
    <3> QED
      BY <1>2, <3>1, <3>2, <3>3, <3>4, <3>5, <3>6 DEF HandleMessage
  <2>2. SendersServe' /\ RepliesStayHome'
    <3>1. CASE UNCHANGED send
      BY <2>1, <3>1 DEF RivalInv, SendersServe, RepliesStayHome
    <3>2. CASE \E kind \in {"reply", "error"} : ToSource(c, kind, load)
      BY <2>1, <3>2, ToSourceStays
    <3>3. CASE \E m \in Registered : Start(c, Sending("message", modules[m]), load)
      BY <2>1, <3>3, MessageStays
    <3>4. CASE BroadcastNext(c, Registered \ {mid[c]}, Cardinality(Registered), load)
      BY <2>1, <3>4, BroadcastStays
    <3> QED
      BY <2>1, <3>1, <3>2, <3>3, <3>4
  <2> QED
    BY <2>1, <2>2, SendingRivals
<1> QED
  BY <1>1, <1>2

LEMMA SendRivals ==
  ASSUME IInv, RivalInv, NEW c \in Conns, SendOk(c) \/ SendFails(c)
  PROVE  RivalInv'
<1>1. UNCHANGED <<phase, mid, contested, modules, caps, index>> /\ phase[c] = "serving"
  BY DEF SendOk, SendFails, connVars, RivalInv, SendersServe
<1>2. \/ Rest(c, Released(c))
      \/ ToSource(c, "error", Released(c))
      \/ BroadcastNext(c, send[c].rest, send[c].size, Released(c))
  BY DEF SendOk, SendFails
<1>3. send[c].rest \in SUBSET Registered
  BY DEF IInv, SendInv, SendsAreSound
<1>4. SendersServe' /\ RepliesStayHome'
  BY <1>1, <1>2, <1>3, RestStays, ToSourceStays, BroadcastStays
<1> QED
  BY <1>1, <1>4, SendingRivals

LEMMA RivalStep ==
  ASSUME IInv, RivalInv, [Next]_vars
  PROVE  RivalInv'
<1>1. ASSUME NEW c \in Conns, Lifecycle(c) PROVE RivalInv'
  BY <1>1, LifecycleRivals
<1>2. ASSUME NEW c \in Conns, HandleMessage(c) PROVE RivalInv'
  BY <1>2, MessageRivals
<1>3. ASSUME NEW c \in Conns, SendOk(c) \/ SendFails(c) PROVE RivalInv'
  BY <1>3, SendRivals
<1>4. CASE HeartbeatMonitor \/ (\E m \in ModuleIds : Elapse(m)) \/ UNCHANGED vars
  <2>1. UNCHANGED <<phase, mid, contested, send, modules, caps, index>>
    BY <1>4 DEF HeartbeatMonitor, Elapse, connVars, vars
  <2> QED
    BY <2>1, SendingRivals DEF RivalInv, SendersServe, RepliesStayHome
<1>5. CASE CleanupStale
  <2>1. /\ UNCHANGED <<phase, mid, contested>>
        /\ Unregister(Abandoned) /\ Abandoned \in SUBSET Registered
    BY <1>5 DEF CleanupStale, connVars, Abandoned
  <2>2. /\ GhostsAreContested'
        /\ \A d \in Conns : /\ send'[d].kind = send[d].kind /\ send'[d].to = send[d].to
                            /\ send'[d] # Idle => send[d] # Idle
    BY <2>1, UnregisterRivals
  <2> QED
    BY <2>1, <2>2 DEF RivalInv, RivalsAreContested, SendersServe, RepliesStayHome
<1> QED
  BY <1>1, <1>2, <1>3, <1>4, <1>5 DEF Next

LEMMA RivalInvariant == Spec => []RivalInv
<1>1. IInv /\ RivalInv /\ [Next]_vars => RivalInv'
  BY RivalStep
<1> QED
  BY <1>1, RivalInit, Invariant, PTL DEF Spec

\* Whatever reconnects over a live handler, the capability index names what the
\* registered modules announced and, besides, only ids that were contested.
THEOREM GhostsCorrect == Spec => []GhostsAreContested
<1>1. RivalInv => GhostsAreContested
  BY DEF RivalInv
<1> QED
  BY <1>1, RivalInvariant, PTL

\* An answer or an error never goes to another id than its message came from, and
\* to another connection of that id only if the id was contested.
THEOREM RepliesCorrect == Spec => []RepliesStayHome
<1>1. RivalInv => RepliesStayHome
  BY DEF RivalInv
<1> QED
  BY <1>1, RivalInvariant, PTL

-----------------------------------------------------------------------------
(* Who unregisters.                                                        *)

\* The steps that leave every entry of the registry to the connection it names.
LEMMA KeepsRegistered ==
  ASSUME NEW c \in Conns,
         \A m \in ModuleIds : modules[m] = c => modules'[m] = c
  PROVE  IsRegistered(c) => IsRegistered(c)'
BY DEF IsRegistered

LEMMA WhoUnregisters ==
  ASSUME IInv, RivalInv, Next, NEW c \in Conns, IsRegistered(c), ~IsRegistered(c)'
  PROVE  \/ phase'[c] = "closed"
         \/ status[mid[c]] = "offline" /\ age[mid[c]] = "stale"
         \/ mid[c] \in contested'
<1>1. PICK m \in ModuleIds : modules[m] = c /\ modules'[m] # c
  BY KeepsRegistered
<1>2. m \in Registered /\ mid[c] = m
  BY <1>1, HubAssumption DEF Registered, IInv, RegistryInv, RegisteredIsServed
<1>3. ASSUME NEW S, Unregister(S), m \notin S PROVE FALSE
  BY <1>1, <1>3 DEF Unregister
<1>4. ASSUME NEW d \in Conns, Lifecycle(d) PROVE phase'[c] = "closed" \/ m \in contested'
  <2>1. CASE AuthFail(d) \/ Acked(d) \/ PeerCloses(d)
    BY <1>1, <2>1 DEF AuthFail, Acked, PeerCloses
  <2>2. ASSUME NEW n \in ModuleIds, BadCapabilities(d, n) PROVE m \in contested'
    <3>1. n = m
      BY <2>2, <1>3 DEF BadCapabilities
    <3> QED
      BY <2>2, <3>1, <1>2, ClaimContests DEF BadCapabilities
  <2>3. ASSUME NEW n \in ModuleIds, NEW C \in SUBSET Capabilities, Register(d, n, C)
        PROVE  m \in contested'
    <3>1. n = m
      BY <2>3, <1>1 DEF Register, IInv, RegistryInv
    <3> QED
      BY <2>3, <3>1, <1>2, ClaimContests DEF Register
  <2>4. CASE Finish(d)
    <3>1. m \in Leaving(d)
      BY <2>4, <1>3 DEF Finish
    <3>2. mid[d] = m /\ mid[d] # NoModule
      BY <3>1, HubAssumption DEF Leaving
    <3>3. d = c \/ m \in contested
      BY <3>2, <1>2 DEF RivalInv, RivalsAreContested
    <3> QED
      BY <2>4, <3>3 DEF Finish, IInv, RegistryInv
  <2> QED
    BY <1>4, <2>1, <2>2, <2>3, <2>4 DEF Lifecycle
<1>5. ASSUME NEW d \in Conns, HandleMessage(d) PROVE FALSE
  <2>1. UNCHANGED modules
    BY <1>5 DEF HandleMessage, Invalid, Malformed, Heartbeat, CapabilityQuery,
                CapabilityAnnounce, StreamStart, StreamData, StreamEnd, RouteDirect,
                RouteCached, RouteSelected, RouteFails, Broadcast, Handles
  <2> QED
    BY <2>1, <1>1
<1>6. ASSUME NEW d \in Conns, SendOk(d) \/ SendFails(d) PROVE FALSE
  BY <1>1, <1>6 DEF SendOk, SendFails
<1>7. ASSUME HeartbeatMonitor \/ \E n \in ModuleIds : Elapse(n) PROVE FALSE
  BY <1>1, <1>7 DEF HeartbeatMonitor, Elapse
<1>8. CASE CleanupStale
  <2>1. m \in Abandoned
    BY <1>8, <1>3 DEF CleanupStale
  <2> QED
    BY <2>1, <1>2 DEF Abandoned
<1> QED
  BY <1>2, <1>4, <1>5, <1>6, <1>7, <1>8 DEF Next

\* A connection loses its entry by the end of its own handler or, offline and stale,
\* by the cleanup task; to anybody else only under an id that was contested.
THEOREM UnregisteringCorrect == Spec => OnlyRivalsUnregister
<1> DEFINE A == \A c \in Conns :
                  IsRegistered(c) /\ ~IsRegistered(c)' =>
                    \/ phase'[c] = "closed"
                    \/ status[mid[c]] = "offline" /\ age[mid[c]] = "stale"
                    \/ mid[c] \in contested'
<1>1. IInv /\ RivalInv /\ [Next]_vars => [A]_vars
  BY WhoUnregisters
<1>2. Spec => [][A]_vars
  BY <1>1, Invariant, RivalInvariant, PTL DEF Spec
<1> QED
  BY <1>2 DEF OnlyRivalsUnregister
=============================================================================
