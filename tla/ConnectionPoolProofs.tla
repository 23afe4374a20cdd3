------------------------ MODULE ConnectionPoolProofs -------------------------
(***************************************************************************)
(* Proofs about ConnectionPool, for any finite set of tasks and pools of   *)
(* any size.  The strengthening says how many connections a task holds at  *)
(* each step of its operation, and that all are of its own service's pool. *)
(***************************************************************************)
EXTENDS ConnectionPool, FiniteSetTheorems, TLAPS

Pool == AuthConns \cup BillingConns

\* The connections held after so many acquisitions and releases.
Depths ==
  [query     |-> <<0, 1>>,
   change    |-> <<0, 1, 2, 1>>,
   login     |-> <<0, 1, 2, 1, 2, 1>>,
   flush     |-> <<0, 1>>,
   summary   |-> <<0, 1, 2, 1>>,
   invoicing |-> <<0, 1, 2, 3, 2, 1, 2, 1, 2, 1>>,
   paying    |-> <<0, 1, 2, 1>>]

Depth(o, n) == Depths[o][n + 1]

HoldsItsDepth ==
  \A t \in Tasks :
    IF Running(t)
    THEN Holds(t) \subseteq ConnsOf(op[t]) /\ Cardinality(Holds(t)) = Depth(op[t], step[t])
    ELSE Holds(t) = {}

SweepsAreAlone ==
  \A t, u \in Tasks : Running(t) /\ op[t] \in Sweeps /\ op[u] = op[t] => u = t

IInv == TypeOK /\ HoldsItsDepth /\ SweepsAreAlone

-----------------------------------------------------------------------------
(* Scripts.                                                                *)

LEMMA OperationNames ==
  /\ AuthOps = {"query", "change", "login"}
  /\ BillingOps = {"flush", "summary", "invoicing", "paying"}
BY DEF AuthOps, BillingOps, AuthScripts, BillingScripts

LEMMA Scripts ==
  /\ Script("query") = <<A, R>>
  /\ Script("change") = <<A, A, R, R>>
  /\ Script("login") = <<A, A, R, A, R, R>>
  /\ Script("flush") = <<A, R>>
  /\ Script("summary") = <<A, A, R, R>>
  /\ Script("invoicing") = <<A, A, A, R, R, A, R, A, R, R>>
  /\ Script("paying") = <<A, A, R, R>>
BY OperationNames
   DEF Script, AuthScripts, BillingScripts, Query, Change, Login, Flush, Summary,
       Generator, Paying

\* What each step of a script does to the depth; the last is a release.
StepsDeepen(o, last) ==
  /\ Len(Script(o)) = last + 1
  /\ Depth(o, 0) = 0 /\ Depth(o, last) = 1
  /\ \A n \in 0..last :
       \/ /\ Script(o)[n + 1] = A
          /\ n # last
          /\ Depth(o, n + 1) = Depth(o, n) + 1
          /\ Depth(o, n) <= Nesting(o)
       \/ /\ Script(o)[n + 1] = R
          /\ Depth(o, n) > 0
          /\ n # last => Depth(o, n + 1) = Depth(o, n) - 1
  /\ \A n \in 0..last : Depth(o, n) \in Nat

LEMMA ScriptsDeepen == \A o \in Operations : \E last \in Nat : StepsDeepen(o, last)
<1>1. StepsDeepen("query", 1)
  <2>1. Depth("query", 0) = 0 /\ Depth("query", 1) = 1
    BY DEF Depth, Depths
  <2>2. /\ Len(Script("query")) = 2
        /\ \A n \in {1} : Script("query")[n] = A
        /\ \A n \in {2} : Script("query")[n] = R
    BY Scripts
  <2>3. Nesting("query") = 0
    BY DEF Nesting
  <2> QED
    BY <2>1, <2>2, <2>3 DEF StepsDeepen
<1>2. StepsDeepen("change", 3)
  <2>1. Depth("change", 0) = 0 /\ Depth("change", 1) = 1 /\ Depth("change", 2) = 2 /\ Depth("change", 3) = 1
    BY DEF Depth, Depths
  <2>2. /\ Len(Script("change")) = 4
        /\ \A n \in {1, 2} : Script("change")[n] = A
        /\ \A n \in {3, 4} : Script("change")[n] = R
    BY Scripts
  <2>3. Nesting("change") = 1
    BY DEF Nesting
  <2> QED
    BY <2>1, <2>2, <2>3 DEF StepsDeepen
<1>3. StepsDeepen("login", 5)
  <2>1. Depth("login", 0) = 0 /\ Depth("login", 1) = 1 /\ Depth("login", 2) = 2 /\ Depth("login", 3) = 1
    BY DEF Depth, Depths
  <2>2. Depth("login", 4) = 2 /\ Depth("login", 5) = 1
    BY DEF Depth, Depths
  <2>3. /\ Len(Script("login")) = 6
        /\ \A n \in {1, 2, 4} : Script("login")[n] = A
        /\ \A n \in {3, 5, 6} : Script("login")[n] = R
    BY Scripts
  <2>4. Nesting("login") = 1
    BY DEF Nesting
  <2> QED
    BY <2>1, <2>2, <2>3, <2>4 DEF StepsDeepen
<1>4. StepsDeepen("flush", 1)
  <2>1. Depth("flush", 0) = 0 /\ Depth("flush", 1) = 1
    BY DEF Depth, Depths
  <2>2. /\ Len(Script("flush")) = 2
        /\ \A n \in {1} : Script("flush")[n] = A
        /\ \A n \in {2} : Script("flush")[n] = R
    BY Scripts
  <2>3. Nesting("flush") = 0
    BY DEF Nesting
  <2> QED
    BY <2>1, <2>2, <2>3 DEF StepsDeepen
<1>5. StepsDeepen("summary", 3)
  <2>1. Depth("summary", 0) = 0 /\ Depth("summary", 1) = 1 /\ Depth("summary", 2) = 2 /\ Depth("summary", 3) = 1
    BY DEF Depth, Depths
  <2>2. /\ Len(Script("summary")) = 4
        /\ \A n \in {1, 2} : Script("summary")[n] = A
        /\ \A n \in {3, 4} : Script("summary")[n] = R
    BY Scripts
  <2>3. Nesting("summary") = 1
    BY DEF Nesting
  <2> QED
    BY <2>1, <2>2, <2>3 DEF StepsDeepen
<1>6. StepsDeepen("invoicing", 9)
  <2>1. Depth("invoicing", 0) = 0 /\ Depth("invoicing", 1) = 1 /\ Depth("invoicing", 2) = 2 /\ Depth("invoicing", 3) = 3
    BY DEF Depth, Depths
  <2>2. Depth("invoicing", 4) = 2 /\ Depth("invoicing", 5) = 1 /\ Depth("invoicing", 6) = 2 /\ Depth("invoicing", 7) = 1
    BY DEF Depth, Depths
  <2>3. Depth("invoicing", 8) = 2 /\ Depth("invoicing", 9) = 1
    BY DEF Depth, Depths
  <2>4. /\ Len(Script("invoicing")) = 10
        /\ \A n \in {1, 2, 3, 6, 8} : Script("invoicing")[n] = A
        /\ \A n \in {4, 5, 7, 9, 10} : Script("invoicing")[n] = R
    BY Scripts
  <2>5. Nesting("invoicing") = 2
    BY DEF Nesting
  <2> QED
    BY <2>1, <2>2, <2>3, <2>4, <2>5 DEF StepsDeepen
<1>7. StepsDeepen("paying", 3)
  <2>1. Depth("paying", 0) = 0 /\ Depth("paying", 1) = 1 /\ Depth("paying", 2) = 2 /\ Depth("paying", 3) = 1
    BY DEF Depth, Depths
  <2>2. /\ Len(Script("paying")) = 4
        /\ \A n \in {1, 2} : Script("paying")[n] = A
        /\ \A n \in {3, 4} : Script("paying")[n] = R
    BY Scripts
  <2>3. Nesting("paying") = 1
    BY DEF Nesting
  <2> QED
    BY <2>1, <2>2, <2>3 DEF StepsDeepen
<1> QED
  BY <1>1, <1>2, <1>3, <1>4, <1>5, <1>6, <1>7, OperationNames DEF Operations
-----------------------------------------------------------------------------
(* Tasks.                                                                  *)

\* Where a running task is, and what its next step does.
LEMMA AtStep ==
  ASSUME TypeOK, NEW t \in Tasks, Running(t)
  PROVE  \E last \in Nat :
           /\ op[t] \in Operations
           /\ StepsDeepen(op[t], last)
           /\ step[t] \in 0..last
<1>1. op[t] \in Operations
  BY DEF TypeOK, Running
<1>2. PICK last \in Nat : StepsDeepen(op[t], last)
  BY <1>1, ScriptsDeepen
<1>3. Len(Script(op[t])) - 1 = last
  BY <1>2 DEF StepsDeepen
<1>4. step[t] \in 0..last
  BY <1>3 DEF TypeOK
<1> QED
  BY <1>1, <1>2, <1>4

LEMMA Asking ==
  ASSUME TypeOK, NEW t \in Tasks, Asks(t)
  PROVE  /\ step[t] + 1 \in 0..Len(Script(op[t])) - 1
         /\ Depth(op[t], step[t]) \in Nat
         /\ Depth(op[t], step[t] + 1) = Depth(op[t], step[t]) + 1
         /\ Depth(op[t], step[t]) <= Nesting(op[t])
<1>1. PICK last \in Nat : op[t] \in Operations /\ StepsDeepen(op[t], last) /\ step[t] \in 0..last
  BY AtStep DEF Asks
<1>2. Len(Script(op[t])) - 1 = last
  BY <1>1 DEF StepsDeepen
<1>3. Script(op[t])[step[t] + 1] = A /\ A # R
  BY DEF Asks, A, R
<1>4. /\ step[t] # last
      /\ Depth(op[t], step[t]) \in Nat
      /\ Depth(op[t], step[t] + 1) = Depth(op[t], step[t]) + 1
      /\ Depth(op[t], step[t]) <= Nesting(op[t])
  BY <1>1, <1>3 DEF StepsDeepen
<1>5. step[t] + 1 \in 0..last
  BY <1>1, <1>4
<1> QED
  BY <1>2, <1>4, <1>5

LEMMA Releasing ==
  ASSUME TypeOK, NEW t \in Tasks, Running(t), ~Asks(t)
  PROVE  /\ Depth(op[t], step[t]) \in Nat \ {0}
         /\ Ends(t) => Depth(op[t], step[t]) = 1
         /\ ~Ends(t) => /\ step[t] + 1 \in 0..Len(Script(op[t])) - 1
                        /\ Depth(op[t], step[t] + 1) = Depth(op[t], step[t]) - 1
<1>1. PICK last \in Nat : op[t] \in Operations /\ StepsDeepen(op[t], last) /\ step[t] \in 0..last
  BY AtStep
<1>2. Len(Script(op[t])) = last + 1
  BY <1>1 DEF StepsDeepen
<1>3. Script(op[t])[step[t] + 1] # A
  BY DEF Asks
<1>4. Ends(t) <=> step[t] = last
  BY <1>1, <1>2 DEF Ends
<1>5. Depth(op[t], step[t]) \in Nat /\ Depth(op[t], step[t]) > 0 /\ Depth(op[t], last) = 1
  BY <1>1, <1>3 DEF StepsDeepen
<1>6. step[t] # last => Depth(op[t], step[t] + 1) = Depth(op[t], step[t]) - 1
  BY <1>1, <1>3 DEF StepsDeepen
<1>7. step[t] # last => step[t] + 1 \in 0..last
  BY <1>1
<1>8. Len(Script(op[t])) - 1 = last
  BY <1>2
<1> QED
  BY <1>4, <1>5, <1>6, <1>7, <1>8

\* At the last step one connection is left.
LEMMA LastStep ==
  ASSUME TypeOK, NEW t \in Tasks, Running(t)
  PROVE  /\ Len(Script(op[t])) - 1 \in Nat
         /\ Depth(op[t], Len(Script(op[t])) - 1) = 1
<1>1. PICK last \in Nat : StepsDeepen(op[t], last)
  BY AtStep
<1>2. Len(Script(op[t])) - 1 = last
  BY <1>1 DEF StepsDeepen
<1> QED
  BY <1>1, <1>2 DEF StepsDeepen

LEMMA HeldAreFinite ==
  ASSUME TypeOK, NEW t
  PROVE  /\ IsFiniteSet(Holds(t)) /\ Holds(t) \subseteq Pool
         /\ Holds(t) = {c \in Pool : owner[c] = t}
<1>1. DOMAIN owner = Pool
  BY DEF TypeOK, Pool
<1>2. IsFiniteSet(Pool)
  BY PoolAssumption, FS_Union DEF Pool
<1> QED
  BY <1>1, <1>2, FS_Subset DEF Holds

\* What a task has left when it gives back all but kept.
LEMMA Left ==
  ASSUME TypeOK, NEW t \in Tasks, NEW kept \in SUBSET Holds(t), owner' = LeftBy(t, kept)
  PROVE  /\ owner' \in [Pool -> Tasks \cup {NoTask}]
         /\ Holds(t)' = kept
         /\ \A u \in Tasks \ {t} : Holds(u)' = Holds(u)
<1>1. DOMAIN owner = Pool /\ owner \in [Pool -> Tasks \cup {NoTask}]
  BY DEF TypeOK, Pool
<1>2. owner' = [c \in Pool |-> IF c \in Holds(t) \ kept THEN NoTask ELSE owner[c]]
  BY <1>1 DEF LeftBy
<1>3. owner' \in [Pool -> Tasks \cup {NoTask}]
  BY <1>1, <1>2
<1>4. DOMAIN owner' = Pool
  BY <1>2
<1>5. \A u \in Tasks : Holds(u) = {c \in Pool : owner[c] = u}
  BY HeldAreFinite
<1>6. \A u \in Tasks : Holds(u)' = {c \in Pool : owner'[c] = u}
  BY <1>4 DEF Holds
<1>7. Holds(t)' = kept
  BY <1>2, <1>5, <1>6, PoolAssumption
<1>8. \A u \in Tasks \ {t} : Holds(u)' = Holds(u)
  BY <1>2, <1>5, <1>6, PoolAssumption
<1> QED
  BY <1>3, <1>7, <1>8

-----------------------------------------------------------------------------
(* The steps.                                                              *)

LEMMA InitHolds == Init => IInv
<1> SUFFICES ASSUME Init PROVE IInv
  OBVIOUS
<1>1. \A t \in Tasks : ~Running(t)
  BY DEF Init, Running
<1>2. TypeOK
  BY <1>1 DEF Init, TypeOK
<1>3. \A t \in Tasks : Holds(t) = {}
  BY PoolAssumption DEF Init, Holds
<1>4. SweepsAreAlone
  BY <1>1 DEF SweepsAreAlone
<1> QED
  BY <1>1, <1>2, <1>3, <1>4 DEF IInv, HoldsItsDepth

\* A step of one task leaves the others as they are.
LEMMA OneTask ==
  ASSUME IInv, NEW t \in Tasks,
         \A u \in Tasks \ {t} :
           op'[u] = op[u] /\ step'[u] = step[u] /\ Holds(u)' = Holds(u),
         Running(t)' =>
           /\ Holds(t)' \subseteq ConnsOf(op'[t])
           /\ Cardinality(Holds(t)') = Depth(op'[t], step'[t]),
         ~Running(t)' => Holds(t)' = {}
  PROVE  HoldsItsDepth'
<1> SUFFICES ASSUME NEW u \in Tasks
             PROVE  IF Running(u)'
                    THEN /\ Holds(u)' \subseteq ConnsOf(op'[u])
                         /\ Cardinality(Holds(u)') = Depth(op'[u], step'[u])
                    ELSE Holds(u)' = {}
  BY DEF HoldsItsDepth
<1>1. CASE u = t
  BY <1>1
<1>2. CASE u # t
  BY <1>2 DEF IInv, HoldsItsDepth, Running
<1> QED
  BY <1>1, <1>2

LEMMA BeginHolds ==
  ASSUME IInv, NEW t \in Tasks, NEW o \in Operations, Begin(t, o)
  PROVE  IInv'
<1> USE DEF IInv
<1>1. /\ op' = [op EXCEPT ![t] = o] /\ op'[t] = o /\ step' = step /\ owner' = owner
      /\ step[t] = 0 /\ Holds(t) = {}
  BY DEF Begin, TypeOK, HoldsItsDepth
<1>2. PICK last \in Nat : StepsDeepen(o, last)
  BY ScriptsDeepen
<1>3. Len(Script(o)) - 1 \in Nat /\ Depth(o, 0) = 0
  <2>1. Len(Script(o)) - 1 = last
    BY <1>2 DEF StepsDeepen
  <2> QED
    BY <1>2, <2>1 DEF StepsDeepen
<1>4. \A u \in Tasks \ {t} : op'[u] = op[u]
  BY <1>1 DEF TypeOK
<1>5. TypeOK'
  BY <1>1, <1>3, <1>4 DEF TypeOK, Running
<1>6. \A u \in Tasks : Holds(u)' = Holds(u)
  BY <1>1 DEF Holds
<1>7. HoldsItsDepth'
  BY <1>1, <1>3, <1>4, <1>6, OneTask, FS_EmptySet
<1>8. SweepsAreAlone'
  BY <1>1, <1>4 DEF SweepsAreAlone, Begin, Running
<1> QED
  BY <1>5, <1>7, <1>8

LEMMA AcquireHolds ==
  ASSUME IInv, NEW t \in Tasks, Acquire(t)
  PROVE  IInv'
<1> USE DEF IInv
<1>1. PICK c \in ConnsOf(op[t]) : owner[c] = NoTask /\ owner' = [owner EXCEPT ![c] = t]
  BY DEF Acquire
<1>2. Asks(t) /\ Running(t) /\ op' = op /\ step' = [step EXCEPT ![t] = @ + 1]
  BY DEF Acquire, Asks
<1>3. c \in Pool
  BY DEF ConnsOf, Pool
<1>4. /\ \A u \in Tasks \ {t} : step'[u] = step[u] /\ Holds(u)' = Holds(u)
      /\ Holds(t)' = Holds(t) \cup {c} /\ c \notin Holds(t)
      /\ owner' \in [Pool -> Tasks \cup {NoTask}]
  <2>1. owner \in [Pool -> Tasks \cup {NoTask}]
    BY DEF TypeOK, Pool
  <2>2. \A u : Holds(u) = {d \in Pool : owner[d] = u}
    BY HeldAreFinite
  <2>3. \A u : Holds(u)' = {d \in Pool : owner'[d] = u}
    BY <2>1, <1>1 DEF Holds
  <2>4. \A u \in Tasks \ {t} : Holds(u)' = Holds(u)
    BY <2>1, <2>2, <2>3, <1>1, <1>3, PoolAssumption
  <2>5. Holds(t)' = Holds(t) \cup {c} /\ c \notin Holds(t)
    BY <2>1, <2>2, <2>3, <1>1, <1>3, PoolAssumption
  <2>6. \A u \in Tasks \ {t} : step'[u] = step[u]
    BY <1>2 DEF TypeOK
  <2>7. owner' \in [Pool -> Tasks \cup {NoTask}]
    BY <2>1, <1>1
  <2> QED
    BY <2>4, <2>5, <2>6, <2>7
<1>5. step'[t] = step[t] + 1
  BY <1>2 DEF TypeOK
<1>6. TypeOK'
  BY <1>2, <1>4, <1>5, Asking DEF TypeOK, Running, Pool
<1>7. Cardinality(Holds(t)') = Depth(op[t], step[t]) + 1
  <2>1. Cardinality(Holds(t) \cup {c}) = Cardinality(Holds(t)) + 1
    BY <1>4, HeldAreFinite, FS_AddElement
  <2>2. Cardinality(Holds(t)) = Depth(op[t], step[t])
    BY <1>2 DEF HoldsItsDepth
  <2> QED
    BY <2>1, <2>2, <1>4
<1>8. HoldsItsDepth'
  <2>1. Holds(t)' \subseteq ConnsOf(op'[t])
    BY <1>1, <1>2, <1>4 DEF HoldsItsDepth
  <2>2. Cardinality(Holds(t)') = Depth(op'[t], step'[t])
    BY <1>2, <1>5, <1>7, Asking
  <2>3. Running(t)'
    BY <1>2 DEF Running
  <2> QED
    BY <2>1, <2>2, <2>3, <1>2, <1>4, OneTask
<1>9. SweepsAreAlone'
  BY <1>2 DEF SweepsAreAlone, Running
<1> QED
  BY <1>6, <1>8, <1>9

LEMMA ReleaseHolds ==
  ASSUME IInv, NEW t \in Tasks, Release(t)
  PROVE  IInv'
<1> USE DEF IInv
<1>1. Running(t) /\ ~Asks(t)
  BY DEF Release
<1>2. PICK c \in Holds(t) : owner' = [owner EXCEPT ![c] = NoTask]
  BY DEF Release
<1>3. owner' = LeftBy(t, Holds(t) \ {c})
  <2>1. owner \in [Pool -> Tasks \cup {NoTask}] /\ DOMAIN owner = Pool
    BY DEF TypeOK, Pool
  <2>2. Holds(t) \ (Holds(t) \ {c}) = {c} /\ c \in Pool
    BY HeldAreFinite
  <2> QED
    BY <2>1, <2>2, <1>2 DEF LeftBy
<1>4. /\ owner' \in [Pool -> Tasks \cup {NoTask}]
      /\ Holds(t)' = Holds(t) \ {c}
      /\ \A u \in Tasks \ {t} : Holds(u)' = Holds(u)
  BY <1>3, Left
<1>5. Cardinality(Holds(t)') = Depth(op[t], step[t]) - 1
  <2>1. Cardinality(Holds(t) \ {c}) = Cardinality(Holds(t)) - 1
    BY HeldAreFinite, FS_RemoveElement
  <2>2. Cardinality(Holds(t)) = Depth(op[t], step[t])
    BY <1>1 DEF HoldsItsDepth
  <2> QED
    BY <2>1, <2>2, <1>4
<1>6. CASE Ends(t)
  <2>1. /\ op' = [op EXCEPT ![t] = NoOp] /\ step' = [step EXCEPT ![t] = 0]
        /\ op'[t] = NoOp /\ step'[t] = 0
        /\ \A u \in Tasks \ {t} : op'[u] = op[u] /\ step'[u] = step[u]
    BY <1>6 DEF Release, TypeOK
  <2>2. Holds(t)' = {}
    <3>1. Cardinality(Holds(t)') = 0
      BY <1>1, <1>5, <1>6, Releasing
    <3>2. IsFiniteSet(Holds(t)')
      BY <1>4, HeldAreFinite, FS_Subset
    <3> QED
      BY <3>1, <3>2, FS_EmptySet
  <2>3. TypeOK'
    BY <2>1, <1>4 DEF TypeOK, Running, Pool
  <2>4. HoldsItsDepth'
    BY <2>1, <2>2, <1>4, OneTask DEF Running
  <2>5. SweepsAreAlone'
    BY <2>1 DEF SweepsAreAlone, Running
  <2> QED
    BY <2>3, <2>4, <2>5
<1>7. CASE ~Ends(t)
  <2>1. /\ op' = op /\ step' = [step EXCEPT ![t] = step[t] + 1]
        /\ step'[t] = step[t] + 1
        /\ \A u \in Tasks \ {t} : op'[u] = op[u] /\ step'[u] = step[u]
    BY <1>7 DEF Release, TypeOK
  <2>2. Running(t)'
    BY <2>1, <1>1 DEF Running
  <2>3. /\ step[t] + 1 \in 0..Len(Script(op[t])) - 1
        /\ Depth(op[t], step[t] + 1) = Depth(op[t], step[t]) - 1
    BY <1>1, <1>7, Releasing
  <2>4. TypeOK'
    BY <2>1, <2>3, <1>1, <1>4 DEF TypeOK, Running, Pool
  <2>5. Holds(t)' \subseteq ConnsOf(op'[t])
    BY <2>1, <1>1, <1>4 DEF HoldsItsDepth
  <2>6. Cardinality(Holds(t)') = Depth(op'[t], step'[t])
    BY <2>1, <2>3, <1>5
  <2>7. HoldsItsDepth'
    BY <2>1, <2>2, <2>5, <2>6, <1>4, OneTask
  <2>8. SweepsAreAlone'
    BY <2>1 DEF SweepsAreAlone, Running
  <2> QED
    BY <2>4, <2>7, <2>8
<1> QED
  BY <1>6, <1>7

LEMMA FailHolds ==
  ASSUME IInv, NEW t \in Tasks, Fail(t)
  PROVE  IInv'
<1> USE DEF IInv
<1>1. Running(t) /\ ~Asks(t)
  BY DEF Fail
<1>2. CASE /\ owner' = LeftBy(t, {})
           /\ op' = [op EXCEPT ![t] = NoOp]
           /\ step' = [step EXCEPT ![t] = 0]
  <2>1. /\ owner' \in [Pool -> Tasks \cup {NoTask}]
        /\ Holds(t)' = {}
        /\ \A u \in Tasks \ {t} : Holds(u)' = Holds(u)
    BY <1>2, Left
  <2>2. /\ op'[t] = NoOp /\ step'[t] = 0
        /\ \A u \in Tasks \ {t} : op'[u] = op[u] /\ step'[u] = step[u]
    BY <1>2 DEF TypeOK
  <2>3. TypeOK'
    BY <2>1, <2>2, <1>2 DEF TypeOK, Running, Pool
  <2>4. HoldsItsDepth'
    BY <2>1, <2>2, OneTask DEF Running
  <2>5. SweepsAreAlone'
    BY <2>2 DEF SweepsAreAlone, Running
  <2> QED
    BY <2>3, <2>4, <2>5
<1>3. CASE /\ \E c \in Holds(t) : owner' = LeftBy(t, {c})
           /\ step' = [step EXCEPT ![t] = Len(Script(op[t])) - 1]
           /\ UNCHANGED op
  <2>1. PICK c \in Holds(t) : owner' = LeftBy(t, {c})
    BY <1>3
  <2>2. /\ owner' \in [Pool -> Tasks \cup {NoTask}]
        /\ Holds(t)' = {c}
        /\ \A u \in Tasks \ {t} : Holds(u)' = Holds(u)
    BY <2>1, Left
  <2>3. /\ op' = op /\ step'[t] = Len(Script(op[t])) - 1
        /\ \A u \in Tasks \ {t} : op'[u] = op[u] /\ step'[u] = step[u]
    BY <1>3 DEF TypeOK
  <2>4. Running(t)'
    BY <2>3, <1>1 DEF Running
  <2>5. Len(Script(op[t])) - 1 \in Nat /\ Depth(op[t], Len(Script(op[t])) - 1) = 1
    BY <1>1, LastStep
  <2>6. TypeOK'
    <3>1. step' \in [Tasks -> Nat]
      BY <2>5, <1>3 DEF TypeOK
    <3>2. ASSUME NEW u \in Tasks
          PROVE  step'[u] \in 0..(IF Running(u)' THEN Len(Script(op'[u])) - 1 ELSE 0)
      <4>1. CASE u = t
        <5>1. step'[t] \in 0..Len(Script(op'[t])) - 1
          BY <2>3, <2>5
        <5> QED
          BY <5>1, <4>1, <2>4
      <4>2. CASE u # t
        BY <4>2, <2>3 DEF TypeOK, Running
      <4> QED
        BY <4>1, <4>2
    <3> QED
      BY <3>1, <3>2, <2>2, <2>3 DEF TypeOK, Pool
  <2>7. Holds(t)' \subseteq ConnsOf(op'[t]) /\ Cardinality(Holds(t)') = Depth(op'[t], step'[t])
    BY <2>2, <2>3, <2>5, <1>1, FS_Singleton DEF HoldsItsDepth
  <2>8. HoldsItsDepth'
    BY <2>2, <2>3, <2>4, <2>7, OneTask
  <2>9. SweepsAreAlone'
    BY <2>3 DEF SweepsAreAlone, Running
  <2> QED
    BY <2>6, <2>8, <2>9
<1> QED
  BY <1>2, <1>3 DEF Fail

LEMMA StepHolds == IInv /\ [Next]_vars => IInv'
<1> SUFFICES ASSUME IInv, [Next]_vars PROVE IInv'
  OBVIOUS
<1>1. ASSUME NEW t \in Tasks, NEW o \in Operations, Begin(t, o) PROVE IInv'
  BY <1>1, BeginHolds
<1>2. ASSUME NEW t \in Tasks, Acquire(t) \/ Release(t) \/ Fail(t) PROVE IInv'
  BY <1>2, AcquireHolds, ReleaseHolds, FailHolds
<1>3. CASE UNCHANGED vars
  BY <1>3 DEF vars, IInv, TypeOK, HoldsItsDepth, SweepsAreAlone, Running, Holds
<1> QED
  BY <1>1, <1>2, <1>3 DEF Next

LEMMA Invariant == Spec => []IInv
BY InitHolds, StepHolds, PTL DEF Spec

\* Every task of a process is where its script says, and every connection is free
\* or held by a task, for any pools.
THEOREM TypeCorrect == Spec => []TypeOK
<1>1. IInv => TypeOK
  BY DEF IInv
<1> QED
  BY <1>1, Invariant, PTL

-----------------------------------------------------------------------------
(* Deadlock.                                                               *)

\* The tasks that Load counts once and twice.
Nested(ops, n) == {t \in Tasks : op[t] \in ops /\ Nesting(op[t]) = n}

LEMMA Nestings == \A o \in Operations : Nesting(o) \in {0, 1, 2} /\ (Nesting(o) = 2 <=> o = "invoicing")
BY OperationNames DEF Operations, Nesting

\* Who asks while holding connections of a stuck pool is nested, and holds no
\* more than its nesting allows.
LEMMA HolderIsNested ==
  ASSUME IInv, NEW P \in SUBSET Pool, NEW ops \in SUBSET Operations,
         \A o \in Operations : ConnsOf(o) \cap P # {} => o \in ops,
         Stuck(P), NEW c \in P
  PROVE  /\ owner[c] \in Nested(ops, 1) \cup Nested(ops, 2)
         /\ c \in Holds(owner[c])
         /\ Cardinality(Holds(owner[c])) \in Nat
         /\ Cardinality(Holds(owner[c])) <= Nesting(op[owner[c]])
<1> DEFINE t == owner[c]
<1>1. t \in Tasks /\ Asks(t) /\ Running(t)
  BY DEF Stuck, IInv, TypeOK, Pool, Asks
<1>2. c \in Holds(t)
  BY <1>1, HeldAreFinite DEF IInv
<1>3. op[t] \in ops /\ op[t] \in Operations
  <2>1. c \in ConnsOf(op[t])
    BY <1>1, <1>2 DEF IInv, HoldsItsDepth
  <2>2. op[t] \in Operations
    BY <1>1 DEF IInv, TypeOK, Running
  <2> QED
    BY <2>1, <2>2
<1>4. Cardinality(Holds(t)) \in Nat /\ Cardinality(Holds(t)) <= Nesting(op[t])
  BY <1>1, Asking DEF IInv, HoldsItsDepth
<1>5. Cardinality(Holds(t)) # 0
  BY <1>2, HeldAreFinite, FS_EmptySet DEF IInv
<1>6. Nesting(op[t]) \in {1, 2}
  BY <1>3, <1>4, <1>5, Nestings
<1> QED
  BY <1>1, <1>2, <1>3, <1>4, <1>6 DEF Nested

\* One connection belongs to each task that Load counts once.
LEMMA OnceNested ==
  ASSUME IInv, NEW P \in SUBSET Pool, NEW ops \in SUBSET Operations,
         \A o \in Operations : ConnsOf(o) \cap P # {} => o \in ops,
         Stuck(P)
  PROVE  Cardinality({c \in P : owner[c] \in Nested(ops, 1)}) <= Cardinality(Nested(ops, 1))
<1> DEFINE S == {c \in P : owner[c] \in Nested(ops, 1)}
           T == Nested(ops, 1)
           f == [c \in S |-> owner[c]]
<1>1. f \in [S -> T]
  OBVIOUS
<1>2. ASSUME NEW c \in S, NEW d \in S, f[c] = f[d] PROVE c = d
  <2> DEFINE t == owner[c]
  <2>1. c \in Holds(t) /\ d \in Holds(t)
    BY <1>2, HolderIsNested
  <2>2. Nesting(op[t]) = 1
    BY DEF Nested
  <2>3. Cardinality(Holds(t)) \in Nat /\ Cardinality(Holds(t)) <= 1
    BY <2>2, HolderIsNested
  <2>4. IsFiniteSet(Holds(t))
    BY HeldAreFinite DEF IInv
  <2>5. Cardinality(Holds(t)) # 0
    BY <2>1, <2>4, FS_EmptySet
  <2>6. \E x : Holds(t) = {x}
    <3>1. Cardinality(Holds(t)) = 1
      BY <2>3, <2>5
    <3> QED
      BY <2>4, <3>1, FS_Singleton
  <2> QED
    BY <2>1, <2>6
<1>3. f \in Injection(S, T)
  BY <1>1, <1>2 DEF Injection, IsInjective
<1>4. IsFiniteSet(T)
  BY PoolAssumption, FS_Subset DEF Nested
<1> QED
  BY <1>3, <1>4, FS_Injection

\* At most two connections belong to the one task that Load counts twice.
LEMMA TwiceNested ==
  ASSUME IInv, NEW P \in SUBSET Pool, NEW ops \in SUBSET Operations,
         \A o \in Operations : ConnsOf(o) \cap P # {} => o \in ops,
         Stuck(P)
  PROVE  Cardinality({c \in P : owner[c] \in Nested(ops, 2)}) <= 2 * Cardinality(Nested(ops, 2))
<1> DEFINE S == {c \in P : owner[c] \in Nested(ops, 2)}
<1>1. CASE S = {}
  <2>1. IsFiniteSet(Nested(ops, 2))
    BY PoolAssumption, FS_Subset DEF Nested
  <2>2. Cardinality(Nested(ops, 2)) \in Nat
    BY <2>1, FS_CardinalityType
  <2>3. Cardinality(S) = 0
    BY <1>1, FS_EmptySet
  <2> QED
    BY <2>2, <2>3
<1>2. ASSUME NEW d \in S PROVE Cardinality(S) <= 2 * Cardinality(Nested(ops, 2))
  <2> DEFINE g == owner[d]
  <2>1. g \in Nested(ops, 2)
    OBVIOUS
  <2>2. Nested(ops, 2) = {g}
    <3>1. \A t \in Nested(ops, 2) : t \in Tasks /\ op[t] = "invoicing"
      BY Nestings DEF Nested
    <3>2. Running(g) /\ "invoicing" \in Sweeps
      BY DEF Stuck, Asks, Sweeps
    <3>3. \A t \in Nested(ops, 2) : t = g
      BY <2>1, <3>1, <3>2 DEF IInv, SweepsAreAlone
    <3> QED
      BY <2>1, <3>3
  <2>3. Cardinality(Holds(g)) \in Nat /\ Cardinality(Holds(g)) <= 2
    BY <2>1, HolderIsNested DEF Nested
  <2>4. S \subseteq Holds(g)
    BY <2>2, HolderIsNested
  <2>5. Cardinality(S) <= Cardinality(Holds(g)) /\ IsFiniteSet(S)
    BY <2>4, HeldAreFinite, FS_Subset DEF IInv
  <2>6. Cardinality(S) \in Nat
    BY <2>5, FS_CardinalityType
  <2>7. Cardinality(Nested(ops, 2)) = 1
    BY <2>2, FS_Singleton
  <2> QED
    BY <2>3, <2>5, <2>6, <2>7
<1> QED
  BY <1>1, <1>2

LEMMA StuckIsLoaded ==
  ASSUME IInv, NEW P \in SUBSET Pool, NEW ops \in SUBSET Operations,
         \A o \in Operations : ConnsOf(o) \cap P # {} => o \in ops,
         Stuck(P)
  PROVE  Load(ops) >= Cardinality(P)
<1> DEFINE S(n) == {c \in P : owner[c] \in Nested(ops, n)}
<1>1. P = S(1) \cup S(2)
  BY HolderIsNested
<1>2. IsFiniteSet(P)
  BY PoolAssumption, FS_Union, FS_Subset DEF Pool
<1>3. IsFiniteSet(S(1)) /\ IsFiniteSet(S(2))
  BY <1>2, FS_Subset
<1>4. IsFiniteSet(S(1) \cap S(2))
  BY <1>3, FS_Subset
<1>5. /\ Cardinality(P) \in Nat /\ Cardinality(S(1)) \in Nat /\ Cardinality(S(2)) \in Nat
      /\ Cardinality(S(1) \cap S(2)) \in Nat
  BY <1>2, <1>3, <1>4, FS_CardinalityType
<1>6. Cardinality(P) = Cardinality(S(1)) + Cardinality(S(2)) - Cardinality(S(1) \cap S(2))
  <2>1. Cardinality(S(1) \cup S(2)) = Cardinality(S(1)) + Cardinality(S(2)) - Cardinality(S(1) \cap S(2))
    BY <1>3, FS_Union
  <2> QED
    BY <1>1, <2>1
<1>7. /\ Cardinality(S(1)) <= Cardinality(Nested(ops, 1))
      /\ Cardinality(S(2)) <= 2 * Cardinality(Nested(ops, 2))
  BY OnceNested, TwiceNested
<1>8. Cardinality(Nested(ops, 1)) \in Nat /\ Cardinality(Nested(ops, 2)) \in Nat
  BY PoolAssumption, FS_Subset, FS_CardinalityType DEF Nested
<1>9. Load(ops) = Cardinality(Nested(ops, 1)) + 2 * Cardinality(Nested(ops, 2))
  BY DEF Load, Nested
<1> HIDE DEF S
<1> QED
  BY <1>5, <1>6, <1>7, <1>8, <1>9

LEMMA PoolsAreSeparate ==
  /\ AuthOps \subseteq Operations /\ BillingOps \subseteq Operations
  /\ \A o \in Operations : ConnsOf(o) \cap AuthConns # {} => o \in AuthOps
  /\ \A o \in Operations : ConnsOf(o) \cap BillingConns # {} => o \in BillingOps
BY OperationNames, PoolAssumption DEF Operations, ConnsOf

\* For any number of tasks and pools of any size, a pool in which nobody can go on
\* has at least as many nested operations under way as connections, the invoice
\* generator counting for two: below that load nested acquisition does not
\* deadlock, however the tasks interleave and fail.
THEOREM DeadlockNeedsLoad == Spec => []StuckIsOverloaded
<1>1. IInv => StuckIsOverloaded
  BY StuckIsLoaded, PoolsAreSeparate DEF StuckIsOverloaded, Pool
<1> QED
  BY <1>1, Invariant, PTL
=============================================================================
