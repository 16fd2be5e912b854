-------------------------- MODULE SemaphoreProofs --------------------------
(***************************************************************************)
(* Proofs about Semaphore, for every set of clients, every limit and every *)
(* set of weights: the typing, the accounting of slots and of waiters, and *)
(* that the counter implements SlotPool.                                   *)
(*                                                                         *)
(* The inductive invariant IInv adds to the properties what they rest on:  *)
(* where a client may be while its slots are taken (so that the argument n *)
(* of its call no longer changes) and what its callbacks may be doing.     *)
(***************************************************************************)
EXTENDS Semaphore, SlotLemmas

-----------------------------------------------------------------------------
\* A client whose slots are taken has made its call and has not given them
\* back, and one that Acquire has answered with nil has them.
TakenPlaces ==
  \A c \in Clients :
    /\ c \in took => at[c] \in {"joining", "held", "failed"}
    /\ at[c] = "held" => c \in took

\* The callbacks of a client run only from StartWaiting to g.Wait().
CallbackPlaces ==
  \A c \in Clients :
    /\ at[c] \in {"idle", "full"} => cb[c] = "none"
    /\ at[c] \in {"waiting", "joining"} => cb[c] # "none"
    /\ at[c] \in {"held", "failed", "released"} => cb[c] # "running"

\* A call that was made has one of the weights as its argument.
NeedIsWeight == \A c \in Clients : at[c] # "idle" => need[c] \in Weights

\* The slots are counted and within the limit.
SlotsCounted ==
  /\ IsFiniteSet(Owned(took, need))
  /\ count = Cardinality(Owned(took, need))
  /\ count <= Limit

IInv == TypeOK /\ TakenPlaces /\ CallbackPlaces /\ NeedIsWeight /\ SlotsCounted /\ WaitersExact

\* The invariant holds of a new semaphore.
LEMMA InitIInv == Init => IInv
<1> SUFFICES ASSUME Init PROVE IInv
  OBVIOUS
<1>1. TypeOK /\ TakenPlaces /\ CallbackPlaces /\ NeedIsWeight
  BY DEF Init, TypeOK, Places, TakenPlaces, CallbackPlaces, NeedIsWeight
<1>2. Owned(took, need) = {}
  BY DEF Init, Owned
<1>3. SlotsCounted
  BY <1>2, FS_EmptySet, SemaphoreAssumption DEF Init, SlotsCounted
<1>4. Waiting = {}
  BY DEF Init, Waiting
<1>5. WaitersExact
  BY <1>4, FS_EmptySet DEF Init, WaitersExact
<1> QED BY <1>1, <1>3, <1>5 DEF IInv

-----------------------------------------------------------------------------
\* The steps that touch slots.

\* A grant adds its slots to the count.
LEMMA GrantCounted ==
  ASSUME IInv, NEW c \in Clients, c \notin took, NEW n \in Weights,
         Grant(c, n), need' \in [Clients -> Nat], need'[c] = n,
         \A x \in Clients : x # c => need'[x] = need[x]
  PROVE  SlotsCounted'
<1>1. n \in Nat
  BY SemaphoreAssumption
<1>2. \A x \in took : need'[x] = need[x]
  BY DEF IInv, TypeOK
<1>3. IsFiniteSet(Owned(took, need))
  BY DEF IInv, SlotsCounted
<1>4. /\ IsFiniteSet(Owned(took \cup {c}, need'))
      /\ Cardinality(Owned(took \cup {c}, need')) = Cardinality(Owned(took, need)) + need'[c]
  BY <1>1, <1>2, <1>3, AddOwner
<1>5. Owned(took, need)' = Owned(took \cup {c}, need')
  BY DEF Grant, Owned
<1> QED BY <1>4, <1>5 DEF IInv, SlotsCounted, Grant, Fits

\* A release takes them off.
LEMMA ReleaseCounted ==
  ASSUME IInv, NEW c \in Clients, Release(c, need[c])
  PROVE  SlotsCounted' /\ count' \in Nat
<1>1. c \in took /\ need[c] \in Nat
  BY DEF IInv, TypeOK, TakenPlaces, Release
<1>2. /\ IsFiniteSet(Owned(took \ {c}, need))
      /\ Cardinality(Owned(took \ {c}, need)) = Cardinality(Owned(took, need)) - need[c]
      /\ need[c] <= Cardinality(Owned(took, need))
  BY <1>1, RemoveOwner DEF IInv, SlotsCounted
<1>3. Owned(took, need)' = Owned(took \ {c}, need)
  BY DEF Release, Owned
<1>4. count \in Nat /\ Limit \in Nat
  BY SemaphoreAssumption DEF IInv, TypeOK
<1> QED BY <1>1, <1>2, <1>3, <1>4 DEF IInv, SlotsCounted, Release

\* Nothing happens to the slots.
LEMMA KeepCounted ==
  ASSUME IInv, UNCHANGED <<count, took>>,
         \A x \in took : need'[x] = need[x]
  PROVE  SlotsCounted'
<1>1. Owned(took, need)' = Owned(took, need)
  BY DEF Owned
<1> QED BY <1>1 DEF IInv, SlotsCounted

-----------------------------------------------------------------------------
\* The steps that touch the counter of waiters.

\* The waiting clients can be counted.
LEMMA WaitingFinite == IsFiniteSet(Waiting) /\ Cardinality(Waiting) \in Nat
<1>1. Waiting \subseteq Clients
  BY DEF Waiting
<1> QED BY <1>1, FS_Subset, FS_CardinalityType, SemaphoreAssumption

\* A client that moves, but neither into the wait nor out of it, does not change
\* how many wait.
LEMMA KeepWaiting ==
  ASSUME IInv, waiters' = waiters, NEW c \in Clients, NEW p, Move(c, p),
         at[c] \in {"waiting", "joining"} <=> p \in {"waiting", "joining"}
  PROVE  WaitersExact'
<1>1. Waiting' = Waiting
  BY DEF Waiting, IInv, TypeOK, Move
<1> QED BY <1>1 DEF IInv, WaitersExact

\* Nor does a step that moves nobody.
LEMMA KeepPlaces ==
  ASSUME IInv, UNCHANGED <<waiters, at>>
  PROVE  WaitersExact'
<1>1. Waiting' = Waiting
  BY DEF Waiting
<1> QED BY <1>1 DEF IInv, WaitersExact

\* One more waits.
LEMMA StartCounted ==
  ASSUME IInv, NEW c \in Clients, StartWaiting(c)
  PROVE  WaitersExact' /\ waiters' \in Nat
<1>1. Waiting' = Waiting \cup {c} /\ c \notin Waiting
  BY DEF Waiting, IInv, TypeOK, StartWaiting, OneMoreWaiter, Move
<1>2. Cardinality(Waiting \cup {c}) = Cardinality(Waiting) + 1
  BY <1>1, WaitingFinite, FS_AddElement
<1> QED BY <1>1, <1>2, WaitingFinite DEF IInv, WaitersExact, StartWaiting, OneMoreWaiter

\* One less waits.
LEMMA ReturnCounted ==
  ASSUME IInv, NEW c \in Clients, Return(c)
  PROVE  WaitersExact' /\ waiters' \in Nat
<1>1. Waiting' = Waiting \ {c} /\ c \in Waiting
  BY DEF Waiting, IInv, TypeOK, Return, CallbacksEnded, OneWaiterLess, Succeeds, Move
<1>2. /\ IsFiniteSet(Waiting \ {c})
      /\ Cardinality(Waiting \ {c}) = Cardinality(Waiting) - 1
  BY <1>1, WaitingFinite, FS_RemoveElement
<1>3. Cardinality(Waiting \ {c}) \in Nat
  BY <1>2, FS_CardinalityType
<1> QED BY <1>1, <1>2, <1>3, WaitingFinite
  DEF IInv, WaitersExact, Return, CallbacksEnded, OneWaiterLess, Succeeds

-----------------------------------------------------------------------------
\* Every step preserves the invariant, one action at a time.

\* TryAcquire keeps the invariant.
LEMMA TryAcquireIInv ==
  ASSUME IInv, NEW c \in Clients, NEW n \in Weights, TryAcquire(c, n)
  PROVE  IInv'
<1> USE DEF TryAcquire, AfterGrant, Move
<1>1. n \in Nat /\ c \notin took
  BY SemaphoreAssumption DEF IInv, TakenPlaces
<1>2. /\ need' \in [Clients -> Nat]
      /\ need'[c] = n
      /\ \A x \in Clients : x # c => need'[x] = need[x]
  BY <1>1 DEF IInv, TypeOK
<1>3. CASE Grant(c, n) /\ Move(c, "held")
  <2>1. TypeOK'
    BY <1>1, <1>2, <1>3, SemaphoreAssumption DEF IInv, TypeOK, Places, Grant
  <2>2. TakenPlaces' /\ CallbackPlaces' /\ NeedIsWeight'
    BY <1>2, <1>3 DEF IInv, TypeOK, Grant, TakenPlaces, CallbackPlaces, NeedIsWeight
  <2>3. SlotsCounted'
    BY <1>1, <1>2, <1>3, GrantCounted
  <2>4. WaitersExact'
    <3>1. waiters' = waiters /\ Move(c, "held") /\ at[c] = "idle"
      BY <1>3
    <3> QED BY <3>1, KeepWaiting
  <2> QED BY <2>1, <2>2, <2>3, <2>4 DEF IInv
<1>4. CASE ~Fits(n) /\ Move(c, "full") /\ UNCHANGED <<count, took>>
  <2>1. TypeOK'
    BY <1>2, <1>4 DEF IInv, TypeOK, Places
  <2>2. TakenPlaces' /\ CallbackPlaces' /\ NeedIsWeight'
    BY <1>1, <1>2, <1>4 DEF IInv, TypeOK, TakenPlaces, CallbackPlaces, NeedIsWeight
  <2>3. SlotsCounted'
    <3>1. \A x \in took : need'[x] = need[x]
      BY <1>1, <1>2 DEF IInv, TypeOK
    <3> QED BY <1>4, <3>1, KeepCounted
  <2>4. WaitersExact'
    <3>1. waiters' = waiters /\ Move(c, "full") /\ at[c] = "idle"
      BY <1>4
    <3> QED BY <3>1, KeepWaiting
  <2> QED BY <2>1, <2>2, <2>3, <2>4 DEF IInv
<1> QED BY <1>3, <1>4

\* StartWaiting keeps the invariant.
LEMMA StartWaitingIInv ==
  ASSUME IInv, NEW c \in Clients, StartWaiting(c)
  PROVE  IInv'
<1> USE DEF StartWaiting, OneMoreWaiter, Move
<1>1. WaitersExact' /\ waiters' \in Nat
  BY StartCounted
<1>2. TypeOK'
  BY <1>1 DEF IInv, TypeOK, Places
<1>3. TakenPlaces' /\ CallbackPlaces' /\ NeedIsWeight'
  BY DEF IInv, TypeOK, TakenPlaces, CallbackPlaces, NeedIsWeight
<1>4. SlotsCounted'
  BY KeepCounted
<1> QED BY <1>1, <1>2, <1>3, <1>4 DEF IInv

\* CallbackDone keeps the invariant.
LEMMA CallbackDoneIInv ==
  ASSUME IInv, NEW c \in Clients, NEW res \in CallbackResults, CallbackDone(c, res)
  PROVE  IInv'
<1> USE DEF CallbackDone
<1>1. res \in {"ok", "err"}
  BY SemaphoreAssumption
<1>2. TypeOK'
  BY <1>1 DEF IInv, TypeOK
<1>3. TakenPlaces' /\ CallbackPlaces' /\ NeedIsWeight'
  BY <1>1 DEF IInv, TypeOK, TakenPlaces, CallbackPlaces, NeedIsWeight
<1>4. SlotsCounted'
  BY KeepCounted
<1>5. WaitersExact'
  BY KeepPlaces
<1> QED BY <1>2, <1>3, <1>4, <1>5 DEF IInv

\* Acquire keeps the invariant.
LEMMA AcquireIInv ==
  ASSUME IInv, NEW c \in Clients, Acquire(c)
  PROVE  IInv'
<1> USE DEF Acquire, Move
<1>1. need[c] \in Weights /\ need[c] \in Nat /\ c \notin took
  BY DEF IInv, TypeOK, NeedIsWeight, TakenPlaces
<1>2. TypeOK'
  BY <1>1 DEF IInv, TypeOK, Places, Grant
<1>3. TakenPlaces' /\ CallbackPlaces' /\ NeedIsWeight'
  BY DEF IInv, TypeOK, Grant, TakenPlaces, CallbackPlaces, NeedIsWeight
<1>4. SlotsCounted'
  <2>1. need' \in [Clients -> Nat] /\ need'[c] = need[c]
    BY DEF IInv, TypeOK
  <2> QED BY <1>1, <2>1, GrantCounted
<1>5. WaitersExact'
  <2>1. waiters' = waiters /\ Move(c, "joining") /\ at[c] = "waiting"
    OBVIOUS
  <2> QED BY <2>1, KeepWaiting
<1> QED BY <1>2, <1>3, <1>4, <1>5 DEF IInv

\* GiveUp keeps the invariant.
LEMMA GiveUpIInv ==
  ASSUME IInv, NEW c \in Clients, GiveUp(c)
  PROVE  IInv'
<1> USE DEF GiveUp, GroupDone, Move
<1>1. TypeOK'
  BY DEF IInv, TypeOK, Places
<1>2. TakenPlaces' /\ CallbackPlaces' /\ NeedIsWeight'
  BY DEF IInv, TypeOK, TakenPlaces, CallbackPlaces, NeedIsWeight
<1>3. SlotsCounted'
  BY KeepCounted
<1>4. WaitersExact'
  <2>1. waiters' = waiters /\ Move(c, "joining") /\ at[c] = "waiting"
    OBVIOUS
  <2> QED BY <2>1, KeepWaiting
<1> QED BY <1>1, <1>2, <1>3, <1>4 DEF IInv

\* Return keeps the invariant.
LEMMA ReturnIInv ==
  ASSUME IInv, NEW c \in Clients, Return(c)
  PROVE  IInv'
<1> USE DEF Return, CallbacksEnded, OneWaiterLess, Succeeds, Move
<1>1. WaitersExact' /\ waiters' \in Nat
  BY ReturnCounted
<1>2. TypeOK'
  BY <1>1 DEF IInv, TypeOK, Places
<1>3. TakenPlaces' /\ CallbackPlaces' /\ NeedIsWeight'
  BY DEF IInv, TypeOK, TakenPlaces, CallbackPlaces, NeedIsWeight
<1>4. SlotsCounted'
  BY KeepCounted
<1> QED BY <1>1, <1>2, <1>3, <1>4 DEF IInv

\* Release keeps the invariant.
LEMMA ReleaseIInv ==
  ASSUME IInv, NEW c \in Clients, Release(c, need[c])
  PROVE  IInv'
<1> USE DEF Release, Move
<1>1. SlotsCounted' /\ count' \in Nat
  BY ReleaseCounted
<1>2. TypeOK'
  BY <1>1 DEF IInv, TypeOK, Places
<1>3. TakenPlaces' /\ CallbackPlaces' /\ NeedIsWeight'
  BY DEF IInv, TypeOK, TakenPlaces, CallbackPlaces, NeedIsWeight
<1>4. WaitersExact'
  <2>1. waiters' = waiters /\ Move(c, "released") /\ at[c] = "held"
    OBVIOUS
  <2> QED BY <2>1, KeepWaiting
<1> QED BY <1>1, <1>2, <1>3, <1>4 DEF IInv

\* EndContext keeps the invariant.
LEMMA EndContextIInv ==
  ASSUME IInv, NEW c \in Clients, NEW err \in {"deadline", "canceled"}, EndContext(c, err)
  PROVE  IInv'
<1> USE DEF EndContext
<1>1. TypeOK'
  BY DEF IInv, TypeOK
<1>2. TakenPlaces' /\ CallbackPlaces' /\ NeedIsWeight'
  BY DEF IInv, TakenPlaces, CallbackPlaces, NeedIsWeight
<1>3. SlotsCounted'
  BY KeepCounted
<1>4. WaitersExact'
  BY KeepPlaces
<1> QED BY <1>1, <1>2, <1>3, <1>4 DEF IInv

\* A step that changes nothing keeps the invariant.
LEMMA StutterIInv ==
  ASSUME IInv, UNCHANGED vars
  PROVE  IInv'
<1> USE DEF vars
<1>1. TypeOK' /\ TakenPlaces' /\ CallbackPlaces' /\ NeedIsWeight'
  BY DEF IInv, TypeOK, TakenPlaces, CallbackPlaces, NeedIsWeight
<1>2. SlotsCounted' /\ WaitersExact'
  BY KeepCounted, KeepPlaces
<1> QED BY <1>1, <1>2 DEF IInv

\* Every step keeps the invariant.
LEMMA NextIInv == IInv /\ [Next]_vars => IInv'
<1> SUFFICES ASSUME IInv, [Next]_vars PROVE IInv'
  OBVIOUS
<1>1. ASSUME NEW c \in Clients, NEW n \in Weights, TryAcquire(c, n) PROVE IInv'
  BY <1>1, TryAcquireIInv
<1>2. ASSUME NEW c \in Clients, StartWaiting(c) PROVE IInv'
  BY <1>2, StartWaitingIInv
<1>3. ASSUME NEW c \in Clients, NEW res \in CallbackResults, CallbackDone(c, res) PROVE IInv'
  BY <1>3, CallbackDoneIInv
<1>4. ASSUME NEW c \in Clients, Acquire(c) PROVE IInv'
  BY <1>4, AcquireIInv
<1>5. ASSUME NEW c \in Clients, GiveUp(c) PROVE IInv'
  BY <1>5, GiveUpIInv
<1>6. ASSUME NEW c \in Clients, Return(c) PROVE IInv'
  BY <1>6, ReturnIInv
<1>7. ASSUME NEW c \in Clients, Release(c, need[c]) PROVE IInv'
  BY <1>7, ReleaseIInv
<1>8. ASSUME NEW c \in Clients, NEW err \in {"deadline", "canceled"}, EndContext(c, err)
      PROVE  IInv'
  BY <1>8, EndContextIInv
<1>9. CASE Finished
  BY <1>9, StutterIInv DEF Finished
<1>10. CASE UNCHANGED vars
  BY <1>10, StutterIInv
<1> QED BY <1>1, <1>2, <1>3, <1>4, <1>5, <1>6, <1>7, <1>8, <1>9, <1>10 DEF Next

\* Semaphore never leaves its inductive invariant.
THEOREM Invariance == Spec => []IInv
BY InitIInv, NextIInv, PTL DEF Spec

-----------------------------------------------------------------------------
\* Every variable keeps its type; in particular count and waiters, which are
\* unsigned in the code, never go below zero.
THEOREM TypeCorrect == Spec => []TypeOK
<1>1. IInv => TypeOK
  BY DEF IInv
<1> QED BY <1>1, Invariance, PTL

\* The count of the library is the number of slots taken and stays within the
\* limit, whatever the interleaving of TryAcquire, Acquire and Release.
THEOREM SlotsAlwaysAccounted == Spec => []SlotsAccounted
<1>1. TakenSlots = Owned(took, need)
  BY DEF TakenSlots, Slots, Owned
<1>2. IInv => SlotsAccounted
  BY <1>1 DEF IInv, SlotsCounted, SlotsAccounted
<1> QED BY <1>2, Invariance, PTL

\* Waiters() is the number of goroutines that are blocked in Acquire.
THEOREM WaitersAlwaysExact == Spec => []WaitersExact
<1>1. IInv => WaitersExact
  BY DEF IInv
<1> QED BY <1>1, Invariance, PTL

\* Acquire has returned only when its callbacks have.
THEOREM CallbacksAlwaysOver == Spec => []CallbacksOver
<1>1. IInv => CallbacksOver
  BY DEF IInv, CallbackPlaces, CallbacksOver
<1> QED BY <1>1, Invariance, PTL

-----------------------------------------------------------------------------
\* What the answer of Acquire tells about the slots depends on the callbacks:
\* the error of one would hide a grant. The handler's callback never fails.

NoCallbackFails ==
  \A c \in Clients :
    /\ cb[c] \in {"none", "running", "ok"}
    /\ at[c] = "failed" => c \notin took

\* No callback ever fails, where none can.
LEMMA CallbackInv ==
  ASSUME CallbackResults = {"ok"}, IInv, NoCallbackFails, [Next]_vars
  PROVE  NoCallbackFails'
<1> USE DEF NoCallbackFails, Move, IInv, TypeOK
<1>1. ASSUME NEW c \in Clients, NEW n \in Weights, TryAcquire(c, n) PROVE NoCallbackFails'
  BY <1>1 DEF TryAcquire, AfterGrant, Grant
<1>2. ASSUME NEW c \in Clients, StartWaiting(c) PROVE NoCallbackFails'
  BY <1>2 DEF StartWaiting, OneMoreWaiter
<1>3. ASSUME NEW c \in Clients, CallbackDone(c, "ok") PROVE NoCallbackFails'
  BY <1>3 DEF CallbackDone
<1>4. ASSUME NEW c \in Clients, Acquire(c) PROVE NoCallbackFails'
  BY <1>4 DEF Acquire, Grant
<1>5. ASSUME NEW c \in Clients, GiveUp(c) PROVE NoCallbackFails'
  BY <1>5 DEF GiveUp, GroupDone
<1>6. ASSUME NEW c \in Clients, Return(c) PROVE NoCallbackFails'
  BY <1>6 DEF Return, CallbacksEnded, OneWaiterLess, Succeeds, CallbackPlaces
<1>7. ASSUME NEW c \in Clients, Release(c, need[c]) PROVE NoCallbackFails'
  BY <1>7 DEF Release
<1>8. ASSUME NEW c \in Clients, NEW err \in {"deadline", "canceled"}, EndContext(c, err)
      PROVE  NoCallbackFails'
  BY <1>8 DEF EndContext
<1>9. CASE UNCHANGED vars
  BY <1>9 DEF vars
<1> QED BY <1>1, <1>2, <1>3, <1>4, <1>5, <1>6, <1>7, <1>8, <1>9 DEF Next, Finished

\* When no callback fails, a client that Acquire has answered with nil has its
\* slots and one that it has answered with an error has none: the handler,
\* which releases in the first case only, neither loses slots nor invents them.
THEOREM ResultAlwaysTellsSlots ==
  ASSUME CallbackResults = {"ok"}
  PROVE  Spec => []ResultTellsSlots
<1>1. Init => NoCallbackFails
  BY DEF Init, NoCallbackFails
<1>2. IInv /\ NoCallbackFails /\ [Next]_vars => NoCallbackFails'
  BY CallbackInv
<1>3. IInv /\ NoCallbackFails => ResultTellsSlots
  BY DEF IInv, TakenPlaces, NoCallbackFails, ResultTellsSlots
<1> QED BY <1>1, <1>2, <1>3, Invariance, PTL DEF Spec

-----------------------------------------------------------------------------
\* The refinement of the pool.

\* The number of slots each client holds, as SlotPool sees it.
Held == [c \in Clients |-> IF c \in took THEN need[c] ELSE 0]

\* The slots the pool says are held are the ones the semaphore counts.
LEMMA PoolSlots ==
  ASSUME IInv
  PROVE  Pool!HeldSlots = Owned(took, need)
<1>1. ASSUME NEW c \in Clients
      PROVE  1..(IF c \in took THEN need[c] ELSE 0) = IF c \in took THEN 1..need[c] ELSE {}
  BY DEF IInv, TypeOK
<1>2. took \subseteq Clients
  BY DEF IInv, TypeOK
<1> QED BY <1>1, <1>2 DEF Pool!HeldSlots, Owned

\* A grant is a Take of the pool.
LEMMA GrantIsTake ==
  ASSUME IInv, NEW c \in Clients, c \notin took, NEW n \in Weights, Grant(c, n),
         need' \in [Clients -> Nat], need'[c] = n,
         \A x \in Clients : x # c => need'[x] = need[x]
  PROVE  Pool!Take(c, n)
<1>1. Held[c] = 0
  BY DEF Held
<1>2. Pool!Cardinality(Pool!HeldSlots) + n <= Limit
  <2>1. Cardinality(Pool!HeldSlots) + n <= Limit
    BY PoolSlots DEF IInv, SlotsCounted, Grant, Fits
  <2> QED BY <2>1 DEF Cardinality, Pool!Cardinality
<1>3. Held' = [Held EXCEPT ![c] = n]
  BY DEF Held, Grant, IInv, TypeOK
<1> QED BY <1>1, <1>2, <1>3 DEF Pool!Take, Held

\* A release is a GiveBack of the pool.
LEMMA ReleaseIsGiveBack ==
  ASSUME IInv, NEW c \in Clients, Release(c, need[c])
  PROVE  Pool!GiveBack(c)
<1>1. c \in took /\ at[c] # "idle"
  BY DEF IInv, TakenPlaces, Release
<1>2. Held[c] # 0
  BY <1>1, SemaphoreAssumption DEF Held, IInv, NeedIsWeight
<1>3. Held' = [Held EXCEPT ![c] = 0]
  BY DEF Held, Release, IInv, TypeOK
<1> QED BY <1>2, <1>3 DEF Pool!GiveBack, Held

\* Every step is a step of the pool or is not seen from outside.
LEMMA NextIsPool == IInv /\ [Next]_vars => [Pool!Next]_Held
<1> SUFFICES ASSUME IInv, [Next]_vars PROVE Pool!Next \/ UNCHANGED Held
  OBVIOUS
<1>1. ASSUME NEW c \in Clients, NEW n \in Weights, TryAcquire(c, n)
      PROVE  Pool!Next \/ UNCHANGED Held
  <2>1. c \notin took /\ n \in Nat
    BY <1>1, SemaphoreAssumption DEF IInv, TakenPlaces, TryAcquire, AfterGrant
  <2>2. /\ need' \in [Clients -> Nat]
        /\ need'[c] = n
        /\ \A x \in Clients : x # c => need'[x] = need[x]
    BY <1>1, <2>1 DEF IInv, TypeOK, TryAcquire, AfterGrant
  <2>3. CASE Grant(c, n)
    BY <2>1, <2>2, <2>3, GrantIsTake DEF Pool!Next
  <2>4. CASE UNCHANGED took
    BY <2>1, <2>2, <2>4 DEF Held, IInv, TypeOK
  <2> QED BY <1>1, <2>3, <2>4 DEF TryAcquire, AfterGrant
<1>2. ASSUME NEW c \in Clients, Acquire(c)
      PROVE  Pool!Next \/ UNCHANGED Held
  <2>1. c \notin took /\ need[c] \in Weights /\ need' = need /\ need \in [Clients -> Nat]
    BY <1>2 DEF IInv, TypeOK, TakenPlaces, NeedIsWeight, Acquire
  <2> QED BY <1>2, <2>1, GrantIsTake DEF Acquire, Pool!Next
<1>3. ASSUME NEW c \in Clients, Release(c, need[c])
      PROVE  Pool!Next \/ UNCHANGED Held
  BY <1>3, ReleaseIsGiveBack DEF Pool!Next
<1>4. ASSUME UNCHANGED <<need, took>>
      PROVE  Pool!Next \/ UNCHANGED Held
  BY <1>4 DEF Held
<1> QED
  BY <1>1, <1>2, <1>3, <1>4
  DEF Next, StartWaiting, OneMoreWaiter, CallbackDone, GiveUp, GroupDone, Return, CallbacksEnded, OneWaiterLess, Succeeds, EndContext, Finished, vars

\* The counter implements the pool of slots: seen through the clients' holdings
\* every behaviour of the semaphore is one in which each taking leaves the sum
\* of what the clients hold within the limit.
THEOREM PoolImplemented == Spec => ImplementsPool
<1>1. Init => Pool!Init
  BY DEF Init, Pool!Init
<1>2. IInv /\ [Next]_vars => [Pool!Next]_Held
  BY NextIsPool
<1> QED BY <1>1, <1>2, Invariance, PTL DEF Spec, ImplementsPool, Pool!Spec, Held
=============================================================================
