--------------------------- MODULE SdkModuleProofs ---------------------------
(***************************************************************************)
(* What is proved of SdkModule for any modules and any number of sockets   *)
(* and calls.  The table of calls is an invariant by itself once the types *)
(* are known: a call notes its caller exactly as long as it has an entry.  *)
(* That a live connection is known as one takes what loops and calls have  *)
(* to do with each other (LoopInv).                                        *)
(***************************************************************************)
EXTENDS SdkModule, TLAPS

IInv == TypeOK /\ HandlersAreCalls

Links == {"none", "up", "broken", "closed"}
LoopStates == {"none", "connecting", "receiving", "handling", "calling", "ended"}

\* TypeOK with names for its parts.
Typed ==
  /\ socket \in [Modules -> 0..MaxSockets]
  /\ connected \in [Modules -> BOOLEAN]
  /\ handlers \in [Modules -> SUBSET Calls]
  /\ link \in [Modules -> [Sockets -> Links]]
  /\ inbox \in [Modules -> [Sockets -> Seq(Calls)]]
  /\ loop \in [Modules -> [Sockets -> LoopStates]]
  /\ call \in [Calls -> CallStates]

LEMMA TypeNames == TypeOK <=> Typed
BY DEF TypeOK, Typed, Links, LoopStates

\* What a call is, in each of its states.
LEMMA CallTypes ==
  /\ Unused \in CallStates /\ Over \in CallStates
  /\ Unused.from = NoModule /\ Over.from = NoModule
  /\ Unused.at = "unused" /\ Over.at = "over"
  /\ \A m \in Modules, k \in 0..MaxSockets :
       /\ CallRecord("sending", m, k) \in CallStates
       /\ CallRecord("sending", m, k).from = m
       /\ CallRecord("failed", m, 0) \in CallStates
       /\ CallRecord("failed", m, 0).from = m
  /\ \A s \in CallStates :
       s.at \in {"sending", "waiting"} =>
         /\ s.from \in Modules /\ s.loop \in 0..MaxSockets
         /\ [s EXCEPT !.at = "waiting"] \in CallStates
         /\ [s EXCEPT !.at = "waiting"].from = s.from
BY SdkAssumption DEF CallStates, Unused, Over, CallRecord

\* Changing a value of a function of modules and sockets.
LEMMA NestedUpdate ==
  ASSUME NEW S, NEW f \in [Modules -> [Sockets -> S]], NEW m \in Modules, NEW k \in Sockets,
         NEW v \in S
  PROVE  [f EXCEPT ![m][k] = v] \in [Modules -> [Sockets -> S]]
OBVIOUS

LEMMA InitHolds == Init => IInv
<1> SUFFICES ASSUME Init PROVE IInv
  OBVIOUS
<1>1. \A S, v : v \in S => Each(v) \in [Modules -> [Sockets -> S]]
  BY DEF Each
<1>2. <<>> \in Seq(Calls)
  OBVIOUS
<1>3. /\ link \in [Modules -> [Sockets -> Links]]
      /\ inbox \in [Modules -> [Sockets -> Seq(Calls)]]
      /\ loop \in [Modules -> [Sockets -> LoopStates]]
  BY <1>1, <1>2 DEF Init, Links, LoopStates
<1>4. call \in [Calls -> CallStates] /\ \A r \in Calls : call[r].from = NoModule
  BY CallTypes DEF Init
<1>5. TypeOK
  BY <1>3, <1>4, SdkAssumption, TypeNames DEF Init, Typed
<1>6. HandlersAreCalls
  BY <1>4, SdkAssumption DEF Init, HandlersAreCalls
<1> QED
  BY <1>5, <1>6 DEF IInv

-----------------------------------------------------------------------------
(* Types.                                                                  *)

\* What a delivery makes of the inboxes.
LEMMA DeliverTypes ==
  ASSUME TypeOK, NEW r \in Calls, NEW to \in Modules, Deliver(r, to)
  PROVE  inbox' \in [Modules -> [Sockets -> Seq(Calls)]]
<1>1. inbox \in [Modules -> [Sockets -> Seq(Calls)]]
  BY DEF TypeOK
<1>2. ASSUME NEW k \in Sockets, inbox' = [inbox EXCEPT ![to][k] = Append(@, r)]
      PROVE  inbox' \in [Modules -> [Sockets -> Seq(Calls)]]
  <2>1. inbox[to][k] \in Seq(Calls) /\ Append(inbox[to][k], r) \in Seq(Calls)
    BY <1>1
  <2>2. inbox' = [inbox EXCEPT ![to][k] = Append(inbox[to][k], r)]
    BY <1>1, <1>2
  <2> QED
    BY <1>1, <2>1, <2>2, NestedUpdate
<1> QED
  BY <1>1, <1>2 DEF Deliver

\* A call that starts, whether or not its request is sent.
LEMMA StartTypes ==
  ASSUME TypeOK, NEW r \in Calls, NEW m \in Modules, NEW to \in Modules,
         NEW k \in 0..MaxSockets, Sends(r, m, to, k) \/ SendRaises(r, m)
  PROVE  /\ call[r] = Unused
         /\ handlers' = [handlers EXCEPT ![m] = @ \cup {r}]
         /\ \E s \in CallStates : s.from = m /\ call' = [call EXCEPT ![r] = s]
         /\ inbox' \in [Modules -> [Sockets -> Seq(Calls)]]
         /\ UNCHANGED <<socket, connected, link>>
<1>1. CASE Sends(r, m, to, k)
  BY <1>1, CallTypes, DeliverTypes DEF Sends, IsNext
<1>2. CASE SendRaises(r, m)
  BY <1>2, CallTypes, SdkAssumption DEF SendRaises, IsNext, TypeOK
<1> QED
  BY <1>1, <1>2

\* A call that comes to an end lets the loop go on that waits with its handler.
LEMMA ResumesTypes ==
  ASSUME TypeOK, NEW r \in Calls, call[r].at \in {"sending", "waiting"}, Resumes(r)
  PROVE  loop' \in [Modules -> [Sockets -> LoopStates]]
<1>1. loop \in [Modules -> [Sockets -> LoopStates]] /\ call[r] \in CallStates
  BY TypeNames DEF Typed
<1>2. call[r].from \in Modules /\ call[r].loop \in 0..MaxSockets
  BY <1>1, CallTypes
<1>3. CASE call[r].loop = 0
  BY <1>1, <1>3 DEF Resumes
<1>4. CASE call[r].loop # 0
  <2>1. call[r].loop \in Sockets
    BY <1>2, <1>4, SdkAssumption DEF Sockets
  <2> QED
    BY <1>1, <1>2, <1>4, <2>1, NestedUpdate DEF Resumes, LoopStates
<1> QED
  BY <1>3, <1>4

\* The steps of a connection and of a loop, none of which touches a call.
LEMMA SocketStepTypes ==
  ASSUME TypeOK, NEW m \in Modules,
         \/ Connect(m) \/ Disconnected(m)
         \/ \E k \in Sockets :
              \/ Acknowledged(m, k) \/ ConnectFails(m, k) \/ Break(m, k) \/ Close(m, k)
              \/ LoopEnds(m, k) \/ Receive(m, k) \/ HandlerEnds(m, k)
  PROVE  TypeOK' /\ UNCHANGED <<handlers, call>>
<1> USE TypeNames
<1>1. Typed
  OBVIOUS
<1> SUFFICES Typed' /\ UNCHANGED <<handlers, call>>
  BY DEF TypeOK, Typed, Links, LoopStates
<1>2. CASE Connect(m)
  <2>1. PICK k \in Sockets :
          /\ socket' = [socket EXCEPT ![m] = k]
          /\ link' = [link EXCEPT ![m][k] = "up"]
          /\ loop' = [loop EXCEPT ![m][k] = "connecting"]
    BY <1>2 DEF Connect
  <2>2. /\ link' \in [Modules -> [Sockets -> Links]]
        /\ loop' \in [Modules -> [Sockets -> LoopStates]]
    BY <1>1, <2>1, NestedUpdate DEF Typed, Links, LoopStates
  <2>3. socket' \in [Modules -> 0..MaxSockets]
    BY <1>1, <2>1, SdkAssumption DEF Typed, Sockets
  <2> QED
    BY <1>1, <1>2, <2>2, <2>3 DEF Connect, Typed
<1>3. CASE Disconnected(m)
  BY <1>1, <1>3 DEF Disconnected, Typed
<1>4. ASSUME NEW k \in Sockets,
             \/ Acknowledged(m, k) \/ ConnectFails(m, k) \/ LoopEnds(m, k) \/ HandlerEnds(m, k)
      PROVE  Typed' /\ UNCHANGED <<handlers, call>>
  <2>1. loop' \in [Modules -> [Sockets -> LoopStates]]
    <3>1. PICK v \in LoopStates : loop' = [loop EXCEPT ![m][k] = v]
      BY <1>4 DEF Acknowledged, ConnectFails, LoopEnds, HandlerEnds, LoopStates
    <3> QED
      BY <1>1, <3>1, NestedUpdate DEF Typed
  <2>2. connected' \in [Modules -> BOOLEAN]
    BY <1>1, <1>4
    DEF Acknowledged, ConnectFails, LoopEnds, NoticesBreak, HandlerEnds, Typed
  <2> QED
    BY <1>1, <1>4, <2>1, <2>2
    DEF Acknowledged, ConnectFails, LoopEnds, HandlerEnds, Typed
<1>5. ASSUME NEW k \in Sockets, NEW how \in {"broken", "closed"}, Goes(m, k, how)
      PROVE  Typed' /\ UNCHANGED <<handlers, call>>
  <2>1. PICK n \in 0..Len(inbox[m][k]) : inbox' = [inbox EXCEPT ![m][k] = SubSeq(@, 1, n)]
    BY <1>5 DEF Goes
  <2>2. inbox[m][k] \in Seq(Calls)
    BY <1>1 DEF Typed
  <2>3. SubSeq(inbox[m][k], 1, n) \in Seq(Calls)
    BY <2>1, <2>2
  <2>4. inbox' = [inbox EXCEPT ![m][k] = SubSeq(inbox[m][k], 1, n)]
    BY <1>1, <2>1 DEF Typed
  <2>5. inbox' \in [Modules -> [Sockets -> Seq(Calls)]]
    BY <1>1, <2>3, <2>4, NestedUpdate DEF Typed
  <2>6. link' \in [Modules -> [Sockets -> Links]]
    BY <1>1, <1>5, NestedUpdate DEF Goes, Typed, Links
  <2> QED
    BY <1>1, <1>5, <2>5, <2>6 DEF Goes, Typed
<1>6. ASSUME NEW k \in Sockets, Receive(m, k)
      PROVE  Typed' /\ UNCHANGED <<handlers, call>>
  <2>1. inbox[m][k] \in Seq(Calls) /\ Tail(inbox[m][k]) \in Seq(Calls)
    BY <1>1, <1>6 DEF Receive, Typed
  <2>2. inbox' = [inbox EXCEPT ![m][k] = Tail(inbox[m][k])]
    BY <1>1, <1>6 DEF Receive, Typed
  <2>3. inbox' \in [Modules -> [Sockets -> Seq(Calls)]]
    BY <1>1, <2>1, <2>2, NestedUpdate DEF Typed
  <2>4. loop' \in [Modules -> [Sockets -> LoopStates]]
    BY <1>1, <1>6, NestedUpdate DEF Receive, Typed, LoopStates
  <2> QED
    BY <1>1, <1>6, <2>3, <2>4 DEF Receive, Typed
<1> QED
  BY <1>2, <1>3, <1>4, <1>5, <1>6 DEF Break, Close

\* The step of an application or of a handler that calls.
LEMMA CallStep ==
  ASSUME TypeOK, NEW m \in Modules, NEW to \in Modules,
         CallFromApp(m, to) \/ \E k \in Sockets : CallFromHandler(m, k, to)
  PROVE  /\ TypeOK'
         /\ \E r \in Calls, s \in CallStates :
              /\ call[r] = Unused /\ s.from = m
              /\ handlers' = [handlers EXCEPT ![m] = @ \cup {r}]
              /\ call' = [call EXCEPT ![r] = s]
<1>1. Typed
  BY TypeNames
<1>2. ASSUME NEW r \in Calls, NEW k \in 0..MaxSockets,
             Sends(r, m, to, k) \/ SendRaises(r, m),
             loop' \in [Modules -> [Sockets -> LoopStates]]
      PROVE  /\ Typed'
             /\ \E q \in Calls, s \in CallStates :
                  /\ call[q] = Unused /\ s.from = m
                  /\ handlers' = [handlers EXCEPT ![m] = @ \cup {q}]
                  /\ call' = [call EXCEPT ![q] = s]
  <2>1. PICK s \in CallStates : s.from = m /\ call' = [call EXCEPT ![r] = s]
    BY <1>2, StartTypes
  <2>2. /\ call[r] = Unused
        /\ handlers' = [handlers EXCEPT ![m] = @ \cup {r}]
        /\ inbox' \in [Modules -> [Sockets -> Seq(Calls)]]
        /\ UNCHANGED <<socket, connected, link>>
    BY <1>2, StartTypes
  <2>3. Typed'
    BY <1>1, <1>2, <2>1, <2>2 DEF Typed
  <2> QED
    BY <2>1, <2>2, <2>3
<1>3. TypeOK' <=> Typed'
  BY DEF TypeOK, Typed, Links, LoopStates
<1>4. CASE CallFromApp(m, to)
  <2>1. PICK r \in Calls : Sends(r, m, to, 0) \/ SendRaises(r, m)
    BY <1>4 DEF CallFromApp
  <2>2. loop' \in [Modules -> [Sockets -> LoopStates]] /\ 0 \in 0..MaxSockets
    BY <1>1, <1>4, SdkAssumption DEF CallFromApp, Typed
  <2> QED
    BY <1>2, <1>3, <2>1, <2>2
<1>5. ASSUME NEW k \in Sockets, CallFromHandler(m, k, to)
      PROVE  /\ TypeOK'
             /\ \E r \in Calls, s \in CallStates :
                  /\ call[r] = Unused /\ s.from = m
                  /\ handlers' = [handlers EXCEPT ![m] = @ \cup {r}]
                  /\ call' = [call EXCEPT ![r] = s]
  <2>1. PICK r \in Calls : Sends(r, m, to, k) \/ SendRaises(r, m)
    BY <1>5 DEF CallFromHandler
  <2>2. k \in 0..MaxSockets
    BY SdkAssumption DEF Sockets
  <2>3. [loop EXCEPT ![m][k] = "calling"] \in [Modules -> [Sockets -> LoopStates]]
    BY <1>1, NestedUpdate DEF Typed, LoopStates
  <2>4. loop' \in [Modules -> [Sockets -> LoopStates]]
    BY <1>1, <1>5, <2>3 DEF CallFromHandler, Typed
  <2> QED
    BY <1>2, <1>3, <2>1, <2>2, <2>4
<1> QED
  BY <1>4, <1>5

\* A send that returns, one that does not, and the end of a wait.
LEMMA OutcomeStep ==
  ASSUME TypeOK, NEW r \in Calls, Sent(r) \/ SendBreaks(r) \/ TimesOut(r)
  PROVE  /\ TypeOK'
         /\ call[r].from \in Modules
         /\ \E s \in CallStates :
              /\ call' = [call EXCEPT ![r] = s]
              /\ \/ s.from = call[r].from /\ UNCHANGED handlers
                 \/ s.from = NoModule /\ handlers' = Cleaned(r)
<1>1. Typed /\ call[r] \in CallStates
  BY TypeNames DEF Typed
<1>2. TypeOK' <=> Typed'
  BY DEF TypeOK, Typed, Links, LoopStates
<1>3. call[r].at \in {"sending", "waiting"} /\ call[r].from \in Modules
  BY <1>1, CallTypes DEF Sent, SendBreaks, TimesOut, MayTimeOut
<1>4. CASE Sent(r)
  <2> DEFINE s == [call[r] EXCEPT !.at = "waiting"]
  <2>1. s \in CallStates /\ s.from = call[r].from
    BY <1>1, <1>3, CallTypes
  <2>2. call' = [call EXCEPT ![r] = s] /\ UNCHANGED handlers
    BY <1>1, <1>4 DEF Sent, Typed
  <2>3. Typed'
    BY <1>1, <1>4, <2>1, <2>2 DEF Sent, Typed
  <2> QED
    BY <1>2, <1>3, <2>1, <2>2, <2>3
<1>5. CASE SendBreaks(r)
  <2> DEFINE s == CallRecord("failed", call[r].from, 0)
  <2>1. s \in CallStates /\ s.from = call[r].from
    BY <1>3, CallTypes, SdkAssumption
  <2>2. call' = [call EXCEPT ![r] = s] /\ UNCHANGED handlers
    BY <1>5 DEF SendBreaks
  <2>3. loop' \in [Modules -> [Sockets -> LoopStates]]
    BY <1>3, <1>5, ResumesTypes DEF SendBreaks
  <2>4. Typed'
    BY <1>1, <1>5, <2>1, <2>2, <2>3 DEF SendBreaks, Typed
  <2> QED
    BY <1>2, <1>3, <2>1, <2>2, <2>4
<1>6. CASE TimesOut(r)
  <2>1. Over \in CallStates /\ Over.from = NoModule
    BY CallTypes
  <2>2. call' = [call EXCEPT ![r] = Over] /\ handlers' = Cleaned(r)
    BY <1>6 DEF TimesOut, OverOf
  <2>3. loop' \in [Modules -> [Sockets -> LoopStates]]
    BY <1>3, <1>6, ResumesTypes DEF TimesOut
  <2>4. handlers' \in [Modules -> SUBSET Calls]
    BY <1>1, <2>2 DEF Typed, Cleaned
  <2>5. call' \in [Calls -> CallStates]
    BY <1>1, <2>1, <2>2 DEF Typed
  <2>6. Typed'
    BY <1>1, <1>6, <2>3, <2>4, <2>5 DEF TimesOut, Typed
  <2> QED
    BY <1>2, <1>3, <2>1, <2>2, <2>6
<1> QED
  BY <1>4, <1>5, <1>6

-----------------------------------------------------------------------------
(* The table of calls.                                                     *)

LEMMA StepHolds == IInv /\ [Next]_vars => IInv'
<1> SUFFICES ASSUME IInv, [Next]_vars PROVE IInv'
  OBVIOUS
<1>1. /\ TypeOK /\ HandlersAreCalls
      /\ handlers \in [Modules -> SUBSET Calls]
      /\ call \in [Calls -> CallStates]
      /\ NoModule \notin Modules
  BY SdkAssumption DEF IInv, TypeOK
<1>2. ASSUME TypeOK', UNCHANGED <<handlers, call>> PROVE IInv'
  BY <1>1, <1>2 DEF IInv, HandlersAreCalls
<1>3. CASE UNCHANGED vars
  <2>1. TypeOK'
    BY <1>1, <1>3 DEF vars, TypeOK
  <2> QED
    BY <1>2, <1>3, <2>1 DEF vars
<1>4. ASSUME NEW m \in Modules,
             \/ Connect(m) \/ Disconnected(m)
             \/ \E k \in Sockets :
                  \/ Acknowledged(m, k) \/ ConnectFails(m, k) \/ Break(m, k) \/ Close(m, k)
                  \/ LoopEnds(m, k) \/ Receive(m, k) \/ HandlerEnds(m, k)
      PROVE  IInv'
  BY <1>1, <1>2, <1>4, SocketStepTypes
<1>5. ASSUME NEW m \in Modules, NEW to \in Modules,
             CallFromApp(m, to) \/ \E k \in Sockets : CallFromHandler(m, k, to)
      PROVE  IInv'
  <2>1. PICK r \in Calls, s \in CallStates :
          /\ call[r] = Unused /\ s.from = m
          /\ handlers' = [handlers EXCEPT ![m] = @ \cup {r}]
          /\ call' = [call EXCEPT ![r] = s]
    BY <1>1, <1>5, CallStep
  <2>2. call[r].from = NoModule
    BY <2>1, CallTypes
  <2>3. HandlersAreCalls'
    BY <1>1, <2>1, <2>2 DEF HandlersAreCalls
  <2> QED
    BY <1>1, <1>5, <2>3, CallStep DEF IInv
<1>6. ASSUME NEW r \in Calls, Sent(r) \/ SendBreaks(r) \/ TimesOut(r)
      PROVE  IInv'
  <2>1. PICK s \in CallStates :
          /\ call' = [call EXCEPT ![r] = s]
          /\ \/ s.from = call[r].from /\ UNCHANGED handlers
             \/ s.from = NoModule /\ handlers' = Cleaned(r)
    BY <1>1, <1>6, OutcomeStep
  <2>2. call[r].from \in Modules /\ TypeOK'
    BY <1>1, <1>6, OutcomeStep
  <2>3. s.from = call[r].from /\ UNCHANGED handlers => HandlersAreCalls'
    BY <1>1, <2>1 DEF HandlersAreCalls
  <2>4. s.from = NoModule /\ handlers' = Cleaned(r) => HandlersAreCalls'
    BY <1>1, <2>1, <2>2 DEF HandlersAreCalls, Cleaned
  <2> QED
    BY <2>1, <2>2, <2>3, <2>4 DEF IInv
<1> QED
  BY <1>3, <1>4, <1>5, <1>6 DEF Next

LEMMA InvHolds == Spec => []IInv
BY InitHolds, StepHolds, PTL DEF Spec

\* The variables of the SDK modules keep their types.
THEOREM TypeCorrect == Spec => []TypeOK
BY InvHolds, PTL DEF IInv

\* For any modules, sockets and calls, message_handlers has exactly the calls of
\* the module that are under way and those whose send did not return.
THEOREM TableCorrect == Spec => []HandlersAreCalls
BY InvHolds, PTL DEF IInv

-----------------------------------------------------------------------------
(* Live connections.                                                       *)

\* A handler that waits for its call holds up its loop, and waits for one.
CallersWait ==
  \A r \in Calls : Pending(r) /\ call[r].loop # 0 =>
    loop[call[r].from][call[r].loop] = "calling"

OneCallAtATime ==
  \A q, r \in Calls :
    /\ Pending(q) /\ Pending(r)
    /\ call[r].loop # 0
    /\ call[q].from = call[r].from /\ call[q].loop = call[r].loop
    => q = r

LoopsHaveSockets ==
  \A m \in Modules, k \in Sockets : loop[m][k] # "none" => link[m][k] # "none"

LoopInv == CallersWait /\ OneCallAtATime /\ LoopsHaveSockets /\ LiveIsConnected

LEMMA NestedAt ==
  ASSUME NEW S, NEW f \in [Modules -> [Sockets -> S]], NEW m \in Modules, NEW k \in Sockets,
         NEW v
  PROVE  \A n \in Modules, j \in Sockets :
           [f EXCEPT ![m][k] = v][n][j] = IF n = m /\ j = k THEN v ELSE f[n][j]
OBVIOUS

\* Where a pending call of a handler comes from.
LEMMA CallerTypes ==
  ASSUME TypeOK, NEW r \in Calls, Pending(r)
  PROVE  /\ call[r].from \in Modules
         /\ call[r].loop # 0 => call[r].loop \in Sockets
<1>1. call[r] \in CallStates
  BY DEF TypeOK
<1>2. call[r].from \in Modules /\ call[r].loop \in 0..MaxSockets
  BY <1>1, CallTypes DEF Pending
<1> QED
  BY <1>2, SdkAssumption DEF Sockets

LEMMA LoopInit == Init => LoopInv
<1> SUFFICES ASSUME Init PROVE LoopInv
  OBVIOUS
<1>1. \A r \in Calls : ~Pending(r)
  BY DEF Init, Pending, Unused, CallRecord
<1>2. \A m \in Modules, k \in Sockets : loop[m][k] = "none"
  BY DEF Init, Each
<1>3. \A m \in Modules : ~Running(m, socket[m]) \/ ~Up(m, socket[m])
  BY <1>2 DEF Running, Up
<1> QED
  BY <1>1, <1>2, <1>3
  DEF LoopInv, CallersWait, OneCallAtATime, LoopsHaveSockets, LiveIsConnected

\* A new socket is nobody's: no loop is on it, and no call was made from there.
LEMMA ConnectLoops ==
  ASSUME TypeOK, LoopInv, NEW m \in Modules, Connect(m)
  PROVE  LoopInv'
<1>1. Typed
  BY TypeNames
<1>2. PICK k \in Sockets :
        /\ ~Made(k)
        /\ socket' = [socket EXCEPT ![m] = k]
        /\ link' = [link EXCEPT ![m][k] = "up"]
        /\ loop' = [loop EXCEPT ![m][k] = "connecting"]
  BY DEF Connect
<1>3. UNCHANGED <<connected, call>>
  BY DEF Connect
<1>4. \A n \in Modules, j \in Sockets :
        /\ link'[n][j] = IF n = m /\ j = k THEN "up" ELSE link[n][j]
        /\ loop'[n][j] = IF n = m /\ j = k THEN "connecting" ELSE loop[n][j]
  BY <1>1, <1>2, NestedAt DEF Typed
<1>5. link[m][k] = "none" /\ loop[m][k] = "none"
  BY <1>2 DEF Made, LoopInv, LoopsHaveSockets
<1>6. CallersWait' /\ OneCallAtATime'
  <2>1. \A r \in Calls : Pending(r)' <=> Pending(r)
    BY <1>3 DEF Pending
  <2> QED
    BY <1>3, <1>4, <1>5, <2>1, CallerTypes DEF LoopInv, CallersWait, OneCallAtATime
<1>7. LoopsHaveSockets'
  BY <1>4 DEF LoopInv, LoopsHaveSockets
<1>8. LiveIsConnected'
  <2>1. /\ socket'[m] = k
        /\ \A n \in Modules \ {m} : socket'[n] = socket[n]
    BY <1>1, <1>2 DEF Typed
  <2>2. ~Running(m, k)'
    BY <1>4 DEF Running
  <2>3. \A n \in Modules \ {m} :
          Up(n, socket[n])' /\ Running(n, socket[n])' => Up(n, socket[n]) /\ Running(n, socket[n])
    BY <1>4, <2>1 DEF Up, Running
  <2>4. \A n \in Modules \ {m}, j \in Sockets : Gone(n, j) => Gone(n, j)'
    BY <1>4 DEF Gone
  <2> QED
    BY <1>3, <2>1, <2>2, <2>3, <2>4 DEF LoopInv, LiveIsConnected, Up, Running, Gone
<1> QED
  BY <1>6, <1>7, <1>8 DEF LoopInv

\* A connection is acknowledged, refused, closed or found closed, and a request is
\* taken up or done with: no loop stops waiting for a call or begins to.
LEMMA ConnectionLoops ==
  ASSUME TypeOK, LoopInv, NEW m \in Modules, NEW k \in Sockets,
         \/ Acknowledged(m, k) \/ ConnectFails(m, k) \/ Break(m, k) \/ Close(m, k)
         \/ LoopEnds(m, k) \/ Receive(m, k) \/ HandlerEnds(m, k)
  PROVE  LoopInv'
<1>1. Typed
  BY TypeNames
<1>2. UNCHANGED <<socket, call>>
  BY DEF Acknowledged, ConnectFails, Break, Close, Goes, LoopEnds, Receive, HandlerEnds
<1>3. /\ \A n \in Modules, j \in Sockets :
           n # m \/ j # k => loop'[n][j] = loop[n][j] /\ link'[n][j] = link[n][j]
      /\ \A n \in Modules : n # m => connected'[n] = connected[n]
  BY <1>1, NestedAt
  DEF Acknowledged, ConnectFails, Break, Close, Goes, LoopEnds, NoticesBreak, Receive,
      HandlerEnds, Typed
<1>4. /\ link[m][k] # "none" => link'[m][k] # "none"
      /\ Gone(m, k) => Gone(m, k)'
      /\ Up(m, k)' => Up(m, k)
      /\ loop[m][k] = "none" => loop'[m][k] = "none"
      /\ loop[m][k] = "calling" => loop'[m][k] = "calling"
  BY <1>1, NestedAt
  DEF Acknowledged, ConnectFails, Break, Close, Goes, LoopEnds, Receive, HandlerEnds,
      Typed, Gone, Up
<1>5. \/ connected'[m]
      \/ connected'[m] = connected[m] /\ (Running(m, k)' => Running(m, k))
      \/ Gone(m, k) /\ ~Running(m, k)'
  BY <1>1, NestedAt
  DEF Acknowledged, ConnectFails, Break, Close, Goes, LoopEnds, NoticesBreak, Receive,
      HandlerEnds, Typed, Gone, Running
<1>6. CallersWait' /\ OneCallAtATime'
  <2>1. \A r \in Calls : Pending(r)' <=> Pending(r)
    BY <1>2 DEF Pending
  <2> QED
    BY <1>2, <1>3, <1>4, <2>1, CallerTypes DEF LoopInv, CallersWait, OneCallAtATime
<1>7. LoopsHaveSockets'
  BY <1>3, <1>4 DEF LoopInv, LoopsHaveSockets
<1>8. LiveIsConnected'
  <2>1. \A n \in Modules, j \in Sockets :
          (Gone(n, j) => Gone(n, j)') /\ (Up(n, j)' => Up(n, j))
    BY <1>3, <1>4 DEF Gone, Up
  <2>2. \A n \in Modules, j \in Sockets : n # m \/ j # k => Running(n, j)' = Running(n, j)
    BY <1>3 DEF Running
  <2> SUFFICES ASSUME NEW n \in Modules, Up(n, socket[n])', Running(n, socket[n])',
                      ~connected'[n]
               PROVE  \E j \in Sockets \ {socket[n]} : Gone(n, j)'
    BY <1>2 DEF LiveIsConnected, Gone
  <2>3. socket[n] \in Sockets /\ Up(n, socket[n])' /\ Running(n, socket[n])'
    BY <1>2 DEF Up, Running
  <2>4. CASE connected'[n] = connected[n] /\ Running(n, socket[n])
    <3>1. Up(n, socket[n])
      BY <1>2, <2>1, <2>3 DEF Up
    <3>2. PICK j \in Sockets \ {socket[n]} : Gone(n, j)
      BY <2>4, <3>1 DEF LoopInv, LiveIsConnected
    <3> QED
      BY <2>1, <3>2
  <2>5. CASE n = m /\ Gone(m, k) /\ socket[m] # k
    BY <2>1, <2>5
  <2> QED
    BY <1>2, <1>3, <1>5, <2>2, <2>3, <2>4, <2>5
<1> QED
  BY <1>6, <1>7, <1>8 DEF LoopInv

LEMMA DisconnectLoops ==
  ASSUME TypeOK, LoopInv, NEW m \in Modules, Disconnected(m)
  PROVE  LoopInv'
<1>1. connected \in [Modules -> BOOLEAN]
  BY DEF TypeOK
<1>2. /\ UNCHANGED <<socket, link, loop, call>>
      /\ \A n \in Modules \ {m} : connected'[n] = connected[n]
      /\ \E k \in Sockets : Gone(m, k)
  BY <1>1 DEF Disconnected, HasClosed
<1>3. CallersWait' /\ OneCallAtATime' /\ LoopsHaveSockets'
  BY <1>2 DEF LoopInv, CallersWait, OneCallAtATime, LoopsHaveSockets, Pending
<1>4. LiveIsConnected'
  BY <1>2 DEF LoopInv, LiveIsConnected, Up, Running, Gone
<1> QED
  BY <1>3, <1>4 DEF LoopInv

\* What no call touches: a module's connections stay as live as they are.
LEMMA LiveStays ==
  ASSUME LoopInv, UNCHANGED <<socket, connected, link>>,
         \A m \in Modules, k \in Sockets :
           /\ Running(m, k)' = Running(m, k)
           /\ loop'[m][k] # "none" => loop[m][k] # "none"
  PROVE  LoopsHaveSockets' /\ LiveIsConnected'
<1>1. LoopsHaveSockets'
  BY DEF LoopInv, LoopsHaveSockets
<1>2. ASSUME NEW m \in Modules, (Up(m, socket[m]) /\ Running(m, socket[m]) /\ ~connected[m])'
      PROVE  \E k \in Sockets \ {socket[m]} : Gone(m, k)'
  <2>1. socket'[m] = socket[m] /\ socket[m] \in Sockets /\ Up(m, socket[m]) /\ ~connected[m]
    BY <1>2 DEF Up
  <2>2. Running(m, socket[m])
    BY <1>2, <2>1 DEF Running
  <2> QED
    BY <2>1, <2>2 DEF LoopInv, LiveIsConnected, Gone
<1> QED
  BY <1>1, <1>2 DEF LiveIsConnected, Gone

\* A call of the application or of a handler starts.
LEMMA CallLoops ==
  ASSUME TypeOK, LoopInv, NEW m \in Modules, NEW to \in Modules,
         CallFromApp(m, to) \/ \E k \in Sockets : CallFromHandler(m, k, to)
  PROVE  LoopInv'
<1>1. Typed
  BY TypeNames
<1>2. CASE CallFromApp(m, to)
  <2>1. PICK r \in Calls : Sends(r, m, to, 0) \/ SendRaises(r, m)
    BY <1>2 DEF CallFromApp
  <2>2. /\ UNCHANGED <<socket, connected, link, loop>>
        /\ \A q \in Calls \ {r} : call'[q] = call[q]
        /\ Pending(r)' => call'[r].loop = 0
    BY <1>1, <1>2, <2>1
    DEF CallFromApp, Sends, SendRaises, CallRecord, Pending, Typed
  <2>3. \A q \in Calls \ {r} : Pending(q)' = Pending(q)
    BY <2>2 DEF Pending
  <2>4. CallersWait' /\ OneCallAtATime'
    BY <2>2, <2>3 DEF LoopInv, CallersWait, OneCallAtATime
  <2>5. LoopsHaveSockets' /\ LiveIsConnected'
    BY <2>2, LiveStays DEF Running
  <2> QED
    BY <2>4, <2>5 DEF LoopInv
<1>3. ASSUME NEW k \in Sockets, CallFromHandler(m, k, to) PROVE LoopInv'
  <2>1. PICK r \in Calls :
          \/ Sends(r, m, to, k) /\ loop' = [loop EXCEPT ![m][k] = "calling"]
          \/ SendRaises(r, m) /\ UNCHANGED loop
    BY <1>3 DEF CallFromHandler
  <2>2. /\ UNCHANGED <<socket, connected, link>>
        /\ loop[m][k] = "handling"
        /\ \A q \in Calls \ {r} : call'[q] = call[q]
    BY <1>1, <1>3, <2>1 DEF CallFromHandler, Sends, SendRaises, Typed
  <2>3. \A q \in Calls \ {r} : Pending(q)' = Pending(q)
    BY <2>2 DEF Pending
  <2>4. \A q \in Calls : Pending(q) /\ call[q].loop # 0 => ~(call[q].from = m /\ call[q].loop = k)
    BY <2>2 DEF LoopInv, CallersWait
  <2>5. CASE Sends(r, m, to, k) /\ loop' = [loop EXCEPT ![m][k] = "calling"]
    <3>1. call'[r].from = m /\ call'[r].loop = k
      BY <1>1, <2>5 DEF Sends, CallRecord, Typed
    <3>2. \A n \in Modules, j \in Sockets :
            loop'[n][j] = IF n = m /\ j = k THEN "calling" ELSE loop[n][j]
      BY <1>1, <2>5, NestedAt DEF Typed
    <3>3. CallersWait'
      BY <2>2, <2>3, <2>4, <3>1, <3>2, CallerTypes DEF LoopInv, CallersWait
    <3>4. OneCallAtATime'
      BY <2>2, <2>3, <2>4, <3>1, SdkAssumption DEF LoopInv, OneCallAtATime, Sockets
    <3>5. LoopsHaveSockets' /\ LiveIsConnected'
      BY <2>2, <3>2, LiveStays DEF Running
    <3> QED
      BY <3>3, <3>4, <3>5 DEF LoopInv
  <2>6. CASE SendRaises(r, m) /\ UNCHANGED loop
    <3>1. ~Pending(r)'
      BY <1>1, <2>6 DEF SendRaises, CallRecord, Pending, Typed
    <3>2. CallersWait' /\ OneCallAtATime'
      BY <2>2, <2>3, <2>6, <3>1 DEF LoopInv, CallersWait, OneCallAtATime
    <3>3. LoopsHaveSockets' /\ LiveIsConnected'
      BY <2>2, <2>6, LiveStays DEF Running
    <3> QED
      BY <3>2, <3>3 DEF LoopInv
  <2> QED
    BY <2>1, <2>5, <2>6
<1> QED
  BY <1>2, <1>3

\* A send returns, or a call ends and the loop of its handler goes on, which no other
\* call holds up.
LEMMA OutcomeLoops ==
  ASSUME TypeOK, LoopInv, NEW r \in Calls, Sent(r) \/ SendBreaks(r) \/ TimesOut(r)
  PROVE  LoopInv'
<1>1. Typed
  BY TypeNames
<1>2. /\ Pending(r)
      /\ UNCHANGED <<socket, connected, link>>
      /\ \A q \in Calls \ {r} : call'[q] = call[q]
  BY <1>1 DEF Sent, SendBreaks, TimesOut, MayTimeOut, OverOf, Pending, Typed
<1>3. \A q \in Calls \ {r} : Pending(q)' = Pending(q)
  BY <1>2 DEF Pending
<1>4. CASE Sent(r)
  <2>1. call'[r].from = call[r].from /\ call'[r].loop = call[r].loop /\ UNCHANGED loop
    <3>1. call[r] \in CallStates /\ call[r].at = "sending"
      BY <1>1, <1>4 DEF Sent, Typed
    <3>2. /\ [call[r] EXCEPT !.at = "waiting"].from = call[r].from
          /\ [call[r] EXCEPT !.at = "waiting"].loop = call[r].loop
      BY <3>1 DEF CallStates, Unused, Over, CallRecord
    <3>3. call'[r] = [call[r] EXCEPT !.at = "waiting"]
      BY <1>1, <1>4 DEF Sent, Typed
    <3> QED
      BY <1>4, <3>2, <3>3 DEF Sent
  <2>2. CallersWait' /\ OneCallAtATime'
    BY <1>2, <1>3, <2>1 DEF LoopInv, CallersWait, OneCallAtATime
  <2>3. LoopsHaveSockets' /\ LiveIsConnected'
    BY <1>2, <2>1, LiveStays DEF Running
  <2> QED
    BY <2>2, <2>3 DEF LoopInv
<1>5. CASE SendBreaks(r) \/ TimesOut(r)
  <2>1. ~Pending(r)' /\ Resumes(r)
    BY <1>1, <1>5 DEF SendBreaks, TimesOut, OverOf, Over, CallRecord, Pending, Typed
  <2>2. OneCallAtATime'
    BY <1>2, <1>3, <2>1 DEF LoopInv, OneCallAtATime
  <2>3. CASE call[r].loop = 0
    <3>1. UNCHANGED loop
      BY <2>1, <2>3 DEF Resumes
    <3>2. CallersWait'
      BY <1>2, <1>3, <2>1, <3>1 DEF LoopInv, CallersWait
    <3>3. LoopsHaveSockets' /\ LiveIsConnected'
      BY <1>2, <3>1, LiveStays DEF Running
    <3> QED
      BY <2>2, <3>2, <3>3 DEF LoopInv
  <2>4. CASE call[r].loop # 0
    <3> DEFINE m == call[r].from
               k == call[r].loop
    <3>1. m \in Modules /\ k \in Sockets /\ loop[m][k] = "calling"
      BY <1>2, <2>4, CallerTypes DEF LoopInv, CallersWait
    <3>2. loop' = [loop EXCEPT ![m][k] = "handling"]
      BY <2>1, <2>4 DEF Resumes
    <3> HIDE DEF m, k
    <3>3. \A n \in Modules, j \in Sockets :
            loop'[n][j] = IF n = m /\ j = k THEN "handling" ELSE loop[n][j]
      BY <1>1, <3>1, <3>2, NestedAt DEF Typed
    <3>4. \A q \in Calls \ {r} :
            Pending(q) /\ call[q].loop # 0 => call[q].from # m \/ call[q].loop # k
      BY <1>2, <2>4 DEF LoopInv, OneCallAtATime, m, k
    <3>5. CallersWait'
      BY <1>2, <1>3, <2>1, <3>3, <3>4, CallerTypes DEF LoopInv, CallersWait
    <3>6. LoopsHaveSockets' /\ LiveIsConnected'
      BY <1>2, <3>1, <3>3, LiveStays DEF Running
    <3> QED
      BY <2>2, <3>5, <3>6 DEF LoopInv
  <2> QED
    BY <2>3, <2>4
<1> QED
  BY <1>4, <1>5

LEMMA LoopStep == IInv /\ LoopInv /\ [Next]_vars => LoopInv'
<1> SUFFICES ASSUME IInv, LoopInv, [Next]_vars PROVE LoopInv'
  OBVIOUS
<1>1. TypeOK
  BY DEF IInv
<1>2. CASE UNCHANGED vars
  BY <1>2 DEF vars, LoopInv, CallersWait, OneCallAtATime, LoopsHaveSockets, LiveIsConnected,
              Pending, Up, Running, Gone
<1>3. ASSUME NEW m \in Modules, Connect(m) \/ Disconnected(m) PROVE LoopInv'
  BY <1>1, <1>3, ConnectLoops, DisconnectLoops
<1>4. ASSUME NEW m \in Modules, NEW k \in Sockets,
             \/ Acknowledged(m, k) \/ ConnectFails(m, k) \/ Break(m, k) \/ Close(m, k)
             \/ LoopEnds(m, k) \/ Receive(m, k) \/ HandlerEnds(m, k)
      PROVE  LoopInv'
  BY <1>1, <1>4, ConnectionLoops
<1>5. ASSUME NEW m \in Modules, NEW to \in Modules,
             CallFromApp(m, to) \/ \E k \in Sockets : CallFromHandler(m, k, to)
      PROVE  LoopInv'
  BY <1>1, <1>5, CallLoops
<1>6. ASSUME NEW r \in Calls, Sent(r) \/ SendBreaks(r) \/ TimesOut(r) PROVE LoopInv'
  BY <1>1, <1>6, OutcomeLoops
<1> QED
  BY <1>2, <1>3, <1>4, <1>5, <1>6 DEF Next

\* A module whose last connection is up and read by its loop is taken for
\* disconnected only if another connection of it is gone.
THEOREM LiveCorrect == Spec => []LiveIsConnected
BY InitHolds, StepHolds, LoopInit, LoopStep, PTL DEF Spec, LoopInv
=============================================================================
