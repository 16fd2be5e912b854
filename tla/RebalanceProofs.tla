--------------------------- MODULE RebalanceProofs ---------------------------
(***************************************************************************)
(* Proofs about Rebalance, for any uploads, connections and limits: an     *)
(* upload that holds slots can divide by the count, however many others    *)
(* take slots or give them back between its two loads; every rate in use,  *)
(* stored, on its way or on a socket, is a share of the limit; and an      *)
(* update that no other update or slot comes across leaves all sockets     *)
(* with the exact share.                                                   *)
(***************************************************************************)
EXTENDS Rebalance, SlotLemmas

\* Where an upload is between its acquisition and its last update.
Phases == {"queued", "starting", "transferring", "ending", "done"}

\* What is said of each upload.
Shapes ==
  /\ phase \in [Updaters -> Phases]
  /\ holds \in [Updaters -> Nat]
  /\ pacer \in [Updaters -> {"out", "dividing", "targeted", "called", "panicked"}]

\* An upload holds slots from the acquisition to the release, no longer.
HoldsInPhase ==
  \A u \in Updaters : holds[u] > 0 <=> phase[u] \in {"starting", "transferring"}

\* The count is the slots that are held.
CountIsHeld ==
  /\ IsFiniteSet(Owned(Updaters, holds))
  /\ count = Cardinality(Owned(Updaters, holds))

\* The inductive invariant: of the count, and of those who divide by it.
Inv == Shapes /\ HoldsInPhase /\ CountIsHeld /\ HolderNeverPanics

\* While an upload holds slots, the count is not zero.
LEMMA HolderCounted ==
  ASSUME Inv, NEW u \in Updaters, phase[u] = "starting"
  PROVE  count # 0
<1>1. holds[u] > 0 /\ holds[u] \in Nat
  BY DEF Inv, Shapes, HoldsInPhase
<1>2. holds[u] <= Cardinality(Owned(Updaters, holds))
  BY <1>1, RemoveOwner DEF Inv, CountIsHeld
<1> QED BY <1>1, <1>2 DEF Inv, CountIsHeld

\* One upload that comes to hold another number of slots changes the sum by
\* the difference.
LEMMA HoldsChanged ==
  ASSUME Inv, NEW u \in Updaters, NEW n \in Nat, holds' = [holds EXCEPT ![u] = n],
         count' = count - holds[u] + n
  PROVE  CountIsHeld'
<1> DEFINE others == Updaters \ {u}
           new == holds'
<1>1. holds[u] \in Nat /\ new[u] = n
  BY DEF Inv, Shapes
<1>2. \A v \in others : new[v] = holds[v]
  BY DEF Inv, Shapes
<1> HIDE DEF new
<1>3. /\ IsFiniteSet(Owned(others, holds))
      /\ Cardinality(Owned(others, holds)) = count - holds[u]
  BY <1>1, RemoveOwner DEF Inv, CountIsHeld
<1>4. u \notin others /\ new[u] \in Nat
  BY <1>1
<1>5. others \cup {u} = Updaters
  OBVIOUS
<1> HIDE DEF others
<1>6. /\ IsFiniteSet(Owned(others \cup {u}, new))
      /\ Cardinality(Owned(others \cup {u}, new)) = Cardinality(Owned(others, holds)) + new[u]
  BY <1>2, <1>3, <1>4, AddOwner
<1>7. /\ IsFiniteSet(Owned(Updaters, new))
      /\ Cardinality(Owned(Updaters, new)) = count'
  BY <1>1, <1>3, <1>5, <1>6
<1> QED BY <1>7 DEF CountIsHeld, new

\* The invariant holds at the start.
LEMMA InvInit == RInit => Inv
<1> SUFFICES ASSUME RInit PROVE Inv
  OBVIOUS
<1>1. Owned(Updaters, holds) = {}
  BY DEF RInit, Owned
<1>2. CountIsHeld
  BY <1>1, FS_EmptySet DEF RInit, CountIsHeld
<1> QED BY <1>2 DEF RInit, Init, Inv, Shapes, Phases, HoldsInPhase, HolderNeverPanics, Panicked

\* Every step keeps it.
LEMMA InvKept == Inv /\ [RNext]_allVars => Inv'
<1> SUFFICES ASSUME Inv, [RNext]_allVars PROVE Inv'
  OBVIOUS
<1> USE DEF Phase, Pacer, Phases
<1>1. Shapes /\ HoldsInPhase /\ CountIsHeld /\ HolderNeverPanics
  BY DEF Inv
<1>2. ASSUME UNCHANGED <<count, pacer, phase, holds>>
      PROVE  Inv'
  BY <1>1, <1>2 DEF Inv, Shapes, HoldsInPhase, CountIsHeld, HolderNeverPanics, Panicked, Owned
<1>3. ASSUME NEW u \in Updaters, TakeSlots(u)
      PROVE  Inv'
  <2>1. PICK n \in PartCounts : /\ phase[u] = "queued" /\ phase' = [phase EXCEPT ![u] = "starting"]
                                /\ count' = count + n /\ holds' = [holds EXCEPT ![u] = n]
                                /\ pacer' = pacer
    BY <1>3 DEF TakeSlots, vars, updateVars
  <2>2. n \in Nat /\ n > 0
    BY RebalanceAssumption
  <2>3. holds[u] = 0
    BY <1>1, <2>1 DEF Shapes, HoldsInPhase
  <2>4. CountIsHeld'
    <3>1. count \in Nat
      BY <1>1, FS_CardinalityType DEF CountIsHeld
    <3>2. count' = count - holds[u] + n
      BY <2>1, <2>2, <2>3, <3>1
    <3> QED BY <2>1, <2>2, <3>2, HoldsChanged
  <2>5. Shapes' /\ HoldsInPhase'
    BY <1>1, <2>1, <2>2 DEF Shapes, HoldsInPhase
  <2>6. HolderNeverPanics'
    BY <1>1, <2>1 DEF Shapes, HolderNeverPanics, Panicked
  <2> QED BY <2>4, <2>5, <2>6 DEF Inv
<1>4. ASSUME NEW u \in Updaters, RunUpdate(u)
      PROVE  Inv'
  <2>1. UNCHANGED <<phase, holds>> /\ phase[u] \in {"starting", "ending"}
    BY <1>4 DEF RunUpdate, Updating
  <2>2. CASE Divide(u)
    <3>1. phase[u] = "starting" => count # 0
      BY HolderCounted
    <3>2. /\ count' = count
          /\ pacer' \in {[pacer EXCEPT ![u] = "panicked"], [pacer EXCEPT ![u] = "targeted"]}
          /\ count # 0 => pacer' = [pacer EXCEPT ![u] = "targeted"]
      BY <2>2 DEF Divide
    <3> QED BY <1>1, <2>1, <3>1, <3>2
            DEF Inv, Shapes, HoldsInPhase, CountIsHeld, HolderNeverPanics, Panicked, Owned
  <2>3. CASE LookAtCount(u)
    BY <1>1, <2>1, <2>3
    DEF LookAtCount, Inv, Shapes, HoldsInPhase, CountIsHeld, HolderNeverPanics, Panicked, Owned
  <2>4. CASE CallTracker(u)
    BY <1>1, <2>1, <2>4
    DEF CallTracker, Inv, Shapes, HoldsInPhase, CountIsHeld, HolderNeverPanics, Panicked, Owned
  <2>5. CASE TrackerStep(u)
    BY <1>2, <2>1, <2>5 DEF TrackerStep, updateVars
  <2> QED BY <1>4, <2>2, <2>3, <2>4, <2>5 DEF RunUpdate, UpdateStep
<1>5. ASSUME NEW u \in Updaters, Updated(u)
      PROVE  Inv'
  <2>1. UNCHANGED <<count, holds>> /\ pacer' = [pacer EXCEPT ![u] = "out"]
    BY <1>5 DEF Updated, UpdateReturns
  <2>2. \/ phase[u] = "starting" /\ phase' = [phase EXCEPT ![u] = "transferring"]
        \/ phase[u] = "ending" /\ phase' = [phase EXCEPT ![u] = "done"]
    BY <1>5 DEF Updated
  <2>3. CountIsHeld'
    BY <1>1, <2>1 DEF CountIsHeld, Owned
  <2> QED BY <1>1, <2>1, <2>2, <2>3 DEF Inv, Shapes, HoldsInPhase, HolderNeverPanics, Panicked
<1>6. ASSUME NEW u \in Updaters, GiveSlotsBack(u)
      PROVE  Inv'
  <2>1. /\ phase[u] = "transferring" /\ phase' = [phase EXCEPT ![u] = "ending"]
        /\ count' = count - holds[u] /\ holds' = [holds EXCEPT ![u] = 0] /\ pacer' = pacer
    BY <1>6 DEF GiveSlotsBack, GivenBack, vars, updateVars
  <2>2. CountIsHeld'
    <3>1. count \in Nat /\ holds[u] \in Nat
      BY <1>1, FS_CardinalityType DEF CountIsHeld, Shapes
    <3>2. 0 \in Nat /\ count' = count - holds[u] + 0
      BY <2>1, <3>1
    <3> QED BY <2>1, <3>2, HoldsChanged
  <2> QED BY <1>1, <2>1, <2>2 DEF Inv, Shapes, HoldsInPhase, HolderNeverPanics, Panicked
<1>7. ASSUME NEW k \in Conns, Transport(k)
      PROVE  Inv'
  BY <1>2, <1>7 DEF Transport, ConnStep, updateVars
<1>8. CASE UNCHANGED allVars
  BY <1>2, <1>8 DEF allVars, vars, updateVars
<1> QED BY <1>3, <1>4, <1>5, <1>6, <1>7, <1>8 DEF RNext, Finished

\* The update before the transfer never panics (handler.go:576), with any number
\* of uploads, connections and slots: only the deferred one can lose an answer.
THEOREM HoldersNeverPanic == RSpec => []HolderNeverPanics
<1>1. Inv => HolderNeverPanics
  BY DEF Inv
<1> QED BY <1>1, InvInit, InvKept, PTL DEF RSpec

-----------------------------------------------------------------------------
\* The rates of a limit are numbers that are not zero, and no more than it.
Rates == 1..BwLimitBytes

\* Every rate in use is one of them, wherever it is kept.
RatesOfLimit ==
  /\ uploadPace \in Rates
  /\ \A u \in Updaters : pacer[u] = "targeted" => share[u] \in Rates
  /\ \A u \in Updaters : setter[u] # "idle" => target[u] \in Rates
  /\ \A k \in Conns : dial[k] = "setting" => loaded[k] \in Rates
  /\ \A k \in Conns : dial[k] = "ready" => sockPace[k] \in Rates

\* Where an update is says whether it is in SetPacingRate.
UpdatePlaces ==
  \A u \in Updaters :
    /\ setter[u] # "idle" => pacer[u] = "called"
    /\ pacer[u] \notin {"out", "panicked"} => phase[u] \in {"starting", "ending"}
    /\ BwLimitBytes = 0 => pacer[u] = "out"

\* The share of the slots that are taken.
Exact == IF count = 0 THEN BwLimitBytes ELSE DivCeil(BwLimitBytes, count)

\* An update that overlaps no other finds the count as it was when it began, and
\* the rate it computes is on its way.
OnItsWay(u) ==
  /\ pacer[u] = "dividing" => count # 0
  /\ pacer[u] = "targeted" => share[u] = Exact
  /\ pacer[u] = "called" =>
       /\ setter[u] = "storing" => target[u] = Exact
       /\ setter[u] # "storing" => uploadPace = Exact
  /\ phase[u] \in {"transferring", "done"} => uploadPace = Exact
  /\ phase[u] # "queued"
  /\ ~ Panicked(u)

\* The invariant of an update that overlaps no other.
LoneUpdate ==
  /\ lone \subseteq Updaters
  /\ BwLimitBytes # 0 =>
       \A u \in lone :
         /\ lone = {u}
         /\ \A v \in Updaters \ {u} : ~ Updating(v)
         /\ OnItsWay(u)

-----------------------------------------------------------------------------
\* A share of a limit is a rate: never zero, never more than the limit.
LEMMA ShareOfLimit ==
  ASSUME NEW limit \in Nat, NEW n \in Nat \ {0}
  PROVE  /\ DivCeil(limit, n) \in Nat
         /\ limit > 0 => DivCeil(limit, n) \in 1..limit
<1> DEFINE a == limit + n - 1
           q == a \div n
<1>1. a \in Nat
  OBVIOUS
<1> HIDE DEF a
<1>2. q \in Int /\ n * q <= a /\ a < n * q + n
  BY <1>1
<1> HIDE DEF q
<1>3. q >= 0
  <2> SUFFICES ASSUME q <= -1 PROVE FALSE
    BY <1>2
  <2>1. n * q <= n * (-1)
    BY <1>2
  <2> QED BY <1>1, <1>2, <2>1
<1>4. ASSUME limit > 0 PROVE q >= 1 /\ q <= limit
  <2>1. q # 0
    BY <1>2, <1>4 DEF a
  <2>2. ASSUME q >= limit + 1 PROVE FALSE
    <3>1. n * q >= n * (limit + 1)
      BY <1>2, <2>2
    <3>2. n * (limit + 1) = n * limit + n
      OBVIOUS
    <3>3. n * limit >= limit
      OBVIOUS
    <3> QED BY <1>2, <3>1, <3>2, <3>3 DEF a
  <2> QED BY <1>2, <1>3, <2>1, <2>2
<1> QED BY <1>2, <1>3, <1>4 DEF DivCeil, a, q

\* A rate on a socket is a number.
LEMMA SocketRate ==
  ASSUME NEW pace \in Nat
  PROVE  /\ CT!OnSocket(pace) \in Nat
         /\ pace < PaceWidth => CT!OnSocket(pace) = pace
BY PacingAssumption DEF CT!OnSocket

\* The steps of the updates and of the transport keep the types of the tracker.
LEMMA TrackerTypesKept ==
  ASSUME TypeOK, count \in Nat,
         (\E u \in Updaters : UpdateStep(u)) \/ (\E k \in Conns : ConnStep(k))
  PROVE  TypeOK'
<1> USE DEF TypeOK, CT!TypeOK, Pacer, CT!At, CT!Dialing, updateVars, trackerVars,
            CT!pacingVars, CT!dialVars, CT!trackVars, CT!infoVars
<1>1. ASSUME NEW u \in Updaters, LookAtCount(u) PROVE TypeOK'
  BY <1>1, PacingAssumption DEF LookAtCount, IdlePace
<1>2. ASSUME NEW u \in Updaters, Divide(u) PROVE TypeOK'
  <2>1. count # 0 => DivCeil(BwLimitBytes, count) \in Nat
    BY PacingAssumption, ShareOfLimit
  <2> QED BY <1>2, <2>1 DEF Divide
<1>3. ASSUME NEW u \in Updaters, CallTracker(u) PROVE TypeOK'
  BY <1>3 DEF CallTracker, CT!SetPacingRate
<1>4. ASSUME NEW u \in Updaters, TrackerStep(u) PROVE TypeOK'
  <2>1. CASE CT!StorePace(u)
    BY <1>4, <2>1 DEF TrackerStep, CT!StorePace
  <2>2. CASE CT!ApplyPace(u)
    <3>1. PICK missed \in CT!MayFail(active) :
            /\ sockPace' = [k \in Conns |-> IF k \in active \ missed
                                            THEN CT!OnSocket(target[u]) ELSE sockPace[k]]
            /\ failed' = failed \cup (missed \X {"setsockopt"})
      BY <2>2 DEF CT!ApplyPace
    <3>2. missed \subseteq Conns
      BY DEF CT!MayFail
    <3>3. sockPace' \in [Conns -> Nat \cup {CT!Unpaced}]
      BY <3>1, SocketRate
    <3>4. failed' \subseteq Conns \X {"setsockopt", "TCP_INFO"}
      BY <3>1, <3>2
    <3> QED BY <1>4, <2>2, <3>3, <3>4 DEF TrackerStep, CT!ApplyPace
  <2> QED BY <1>4, <2>1, <2>2 DEF TrackerStep
<1>5. ASSUME NEW k \in Conns, CT!Track(k), UNCHANGED updateVars PROVE TypeOK'
  BY <1>5 DEF CT!Track, CT!Entered
<1>6. ASSUME NEW k \in Conns, CT!CheckPace(k), UNCHANGED updateVars PROVE TypeOK'
  BY <1>6 DEF CT!CheckPace
<1>7. ASSUME NEW k \in Conns, CT!LoadPace(k), UNCHANGED updateVars PROVE TypeOK'
  BY <1>7 DEF CT!LoadPace
<1>8. ASSUME NEW k \in Conns, CT!PaceDialed(k), UNCHANGED updateVars PROVE TypeOK'
  <2>1. sockPace' \in [Conns -> Nat \cup {CT!Unpaced}]
    BY <1>8, SocketRate DEF CT!PaceDialed
  <2>2. failed' \subseteq Conns \X {"setsockopt", "TCP_INFO"}
    BY <1>8 DEF CT!PaceDialed
  <2> QED BY <1>8, <2>1, <2>2 DEF CT!PaceDialed
<1>9. ASSUME NEW k \in Conns, CT!MarkClosed(k), UNCHANGED updateVars PROVE TypeOK'
  <2>1. sumClosed' \in Nat
    BY <1>9, PacingAssumption DEF CT!MarkClosed, CT!Kept
  <2>2. failed' \subseteq Conns \X {"setsockopt", "TCP_INFO"}
    BY <1>9 DEF CT!MarkClosed
  <2> QED BY <1>9, <2>1, <2>2 DEF CT!MarkClosed
<1>10. ASSUME NEW k \in Conns, CT!CloseSocket(k), UNCHANGED updateVars PROVE TypeOK'
  BY <1>10 DEF CT!CloseSocket
<1> QED BY <1>1, <1>2, <1>3, <1>4, <1>5, <1>6, <1>7, <1>8, <1>9, <1>10 DEF UpdateStep, ConnStep

\* The types hold at the start.
LEMMA TypesInit == RInit => RTypeOK
<1> SUFFICES ASSUME RInit PROVE RTypeOK
  OBVIOUS
<1>1. TypeOK
  BY PacingAssumption DEF RInit, Init, TypeOK, CT!InitPaced, CT!TypeOK, CT!Unpaced
<1> QED BY <1>1, PacingAssumption DEF RInit, RTypeOK

\* Every step keeps the types.
LEMMA TypesKept == Inv /\ Inv' /\ RTypeOK /\ [RNext]_allVars => RTypeOK'
<1> SUFFICES ASSUME Inv, Inv', RTypeOK, [RNext]_allVars PROVE RTypeOK'
  OBVIOUS
<1>1. count \in Nat /\ count' \in Nat /\ count <= MaxSlots /\ MaxSlots \in Nat
  BY FS_CardinalityType, PacingAssumption DEF Inv, CountIsHeld, RTypeOK
<1>2. ASSUME UNCHANGED vars PROVE TypeOK'
  BY <1>2 DEF RTypeOK, TypeOK, CT!TypeOK, vars, updateVars, trackerVars
<1> USE DEF RTypeOK, Phase, BeginUpdate
<1>3. ASSUME NEW u \in Updaters, TakeSlots(u) PROVE RTypeOK'
  <2>1. PICK n \in PartCounts : /\ count + n <= MaxSlots /\ count' = count + n
                                /\ holds' = [holds EXCEPT ![u] = n]
    BY <1>3 DEF TakeSlots
  <2>2. n \in 0..MaxSlots /\ count' \in 0..MaxSlots
    BY <1>1, <2>1, RebalanceAssumption
  <2>3. holds' \in [Updaters -> 0..MaxSlots]
    BY <2>1, <2>2
  <2> QED BY <1>2, <1>3, <2>2, <2>3 DEF TakeSlots
<1>4. ASSUME NEW u \in Updaters, RunUpdate(u) PROVE RTypeOK'
  <2>1. TypeOK'
    BY <1>1, <1>4, TrackerTypesKept DEF RunUpdate
  <2>2. count' = count
    BY <1>4 DEF RunUpdate, UpdateStep, LookAtCount, Divide, CallTracker, TrackerStep
  <2> QED BY <1>4, <2>1, <2>2 DEF RunUpdate
<1>5. ASSUME NEW u \in Updaters, Updated(u) PROVE RTypeOK'
  <2>1. TypeOK'
    BY <1>5 DEF Updated, UpdateReturns, Pacer, TypeOK, CT!TypeOK, trackerVars
  <2> QED BY <1>5, <2>1 DEF Updated
<1>6. ASSUME NEW u \in Updaters, GiveSlotsBack(u) PROVE RTypeOK'
  <2>1. count' \in 0..MaxSlots
    BY <1>1, <1>6 DEF GiveSlotsBack, GivenBack
  <2>2. holds' \in [Updaters -> 0..MaxSlots]
    BY <1>1, <1>6 DEF GiveSlotsBack
  <2> QED BY <1>2, <1>6, <2>1, <2>2 DEF GiveSlotsBack
<1>7. ASSUME NEW k \in Conns, Transport(k) PROVE RTypeOK'
  <2>1. TypeOK'
    BY <1>1, <1>7, TrackerTypesKept DEF Transport
  <2> QED BY <1>7, <2>1 DEF Transport, ConnStep
<1>8. CASE UNCHANGED allVars
  BY <1>2, <1>8 DEF allVars
<1> QED BY <1>3, <1>4, <1>5, <1>6, <1>7, <1>8 DEF RNext, Finished

\* The slots that are taken are never more than there are, nor negative, and
\* every rate is a number, whatever overlaps (handler.go:564-576, 722-744).
THEOREM RebalanceTypes == RSpec => []RTypeOK
BY InvInit, InvKept, TypesInit, TypesKept, PTL DEF RSpec

-----------------------------------------------------------------------------
\* No rate is in use but the first one.
LEMMA RatesInit ==
  ASSUME BwLimitBytes # 0, RInit
  PROVE  RatesOfLimit
BY PacingAssumption DEF RInit, Init, CT!InitPaced, RatesOfLimit, Rates

\* A step hands rates of the limit on, and the cut to 32 bits changes none.
LEMMA RatesKept ==
  ASSUME RTypeOK, RatesOfLimit, BwLimitBytes # 0, BwLimitBytes < PaceWidth, [RNext]_allVars
  PROVE  RatesOfLimit'
<1>1. TypeOK /\ CT!TypeOK /\ count \in Nat
  BY PacingAssumption DEF RTypeOK, TypeOK
<1>2. /\ \A u \in Updaters : share[u] \in Nat /\ target[u] \in Nat
      /\ \A pace \in Rates : CT!OnSocket(pace) = pace
  BY <1>1, PacingAssumption, SocketRate DEF TypeOK, CT!TypeOK, Rates
<1>3. ASSUME UNCHANGED vars PROVE RatesOfLimit'
  BY <1>3 DEF RatesOfLimit, vars, updateVars, trackerVars
<1> USE <1>1 DEF RatesOfLimit, Pacer, CT!At, CT!Dialing, updateVars, trackerVars,
                 CT!pacingVars, CT!dialVars, CT!trackVars, CT!infoVars
<1>4. ASSUME NEW u \in Updaters, RunUpdate(u) PROVE RatesOfLimit'
  <2>1. CASE LookAtCount(u)
    BY <2>1, PacingAssumption DEF LookAtCount, IdlePace, TypeOK, Rates
  <2>2. CASE Divide(u)
    <3>1. count # 0 => DivCeil(BwLimitBytes, count) \in Rates
      BY PacingAssumption, ShareOfLimit DEF Rates
    <3> QED BY <2>2, <3>1 DEF Divide, TypeOK
  <2>3. CASE CallTracker(u)
    BY <2>3 DEF CallTracker, CT!SetPacingRate, TypeOK, CT!TypeOK
  <2>4. CASE CT!StorePace(u) /\ UNCHANGED updateVars
    BY <2>4 DEF CT!StorePace, CT!TypeOK
  <2>5. CASE CT!ApplyPace(u) /\ UNCHANGED updateVars
    <3>1. PICK missed \in CT!MayFail(active) :
            sockPace' = [k \in Conns |-> IF k \in active \ missed
                                        THEN CT!OnSocket(target[u]) ELSE sockPace[k]]
      BY <2>5 DEF CT!ApplyPace
    <3>2. CT!OnSocket(target[u]) \in Rates
      BY <1>2, <2>5 DEF CT!ApplyPace
    <3>3. \A k \in Conns : dial[k] = "ready" => sockPace'[k] \in Rates
      BY <3>1, <3>2
    <3> QED BY <2>5, <3>3 DEF CT!ApplyPace, CT!TypeOK
  <2> QED BY <1>4, <2>1, <2>2, <2>3, <2>4, <2>5 DEF RunUpdate, UpdateStep, TrackerStep
<1>5. ASSUME NEW u \in Updaters, Updated(u) PROVE RatesOfLimit'
  BY <1>5 DEF Updated, UpdateReturns, TypeOK
<1>6. ASSUME NEW k \in Conns, Transport(k) PROVE RatesOfLimit'
  <2> USE <1>6 DEF Transport, ConnStep
  <2>1. CASE CT!Track(k)
    BY <2>1 DEF CT!Track, CT!TypeOK
  <2>2. CASE CT!CheckPace(k)
    <3>1. uploadPace > 0
      BY PacingAssumption DEF Rates
    <3> QED BY <2>2, <3>1 DEF CT!CheckPace, CT!TypeOK
  <2>3. CASE CT!LoadPace(k)
    BY <2>3 DEF CT!LoadPace, CT!TypeOK
  <2>4. CASE CT!PaceDialed(k)
    <3>1. dial[k] = "setting" /\ CT!OnSocket(loaded[k]) \in Rates
      BY <1>2, <2>4 DEF CT!PaceDialed
    <3> QED BY <2>4, <3>1 DEF CT!PaceDialed, CT!TypeOK
  <2>5. CASE CT!MarkClosed(k)
    BY <2>5 DEF CT!MarkClosed, CT!TypeOK
  <2>6. CASE CT!CloseSocket(k)
    BY <2>6 DEF CT!CloseSocket, CT!TypeOK
  <2> QED BY <2>1, <2>2, <2>3, <2>4, <2>5, <2>6
<1> QED BY <1>3, <1>4, <1>5, <1>6 DEF RNext, TakeSlots, GiveSlotsBack, Finished, allVars

\* With a limit below 2^32 bytes a second, which is where the system call cuts
\* the rate, no connection is ever in use without a rate, with any number of
\* uploads, slots and connections and whatever overlaps (conntracker.go:136-142,
\* handler.go:397).
THEOREM AlwaysPaced ==
  ASSUME BwLimitBytes < PaceWidth
  PROVE  RSpec => []PacedFromTheStart
<1>1. RTypeOK /\ RatesOfLimit => PacedFromTheStart
  BY PacingAssumption DEF RatesOfLimit, Rates, PacedFromTheStart
<1>2. CASE BwLimitBytes = 0
  <2>1. RInit => PacedFromTheStart
    BY <1>2 DEF PacedFromTheStart
  <2>2. PacedFromTheStart /\ [RNext]_allVars => PacedFromTheStart'
    BY <1>2 DEF PacedFromTheStart
  <2> QED BY <2>1, <2>2, PTL DEF RSpec
<1>3. CASE BwLimitBytes # 0
  <2>1. RInit => RatesOfLimit
    BY <1>3, RatesInit
  <2>2. RTypeOK /\ RatesOfLimit /\ [RNext]_allVars => RatesOfLimit'
    BY <1>3, RatesKept
  <2> QED BY <1>1, <2>1, <2>2, RebalanceTypes, PTL DEF RSpec
<1> QED BY <1>2, <1>3

-----------------------------------------------------------------------------
\* Where an update is, in updatePacingRate and in SetPacingRate, fits together.
LEMMA PlacesKept ==
  ASSUME RTypeOK, UpdatePlaces, [RNext]_allVars
  PROVE  UpdatePlaces'
<1>1. /\ pacer \in [Updaters -> {"out", "dividing", "targeted", "called", "panicked"}]
      /\ setter \in [Updaters -> {"idle", "storing", "applying"}]
      /\ phase \in [Updaters -> Phases]
  BY DEF RTypeOK, TypeOK, CT!TypeOK, Phases
<1>2. ASSUME UNCHANGED <<pacer, setter, phase>> PROVE UpdatePlaces'
  BY <1>2 DEF UpdatePlaces
<1> USE <1>1 DEF UpdatePlaces, Pacer, Phase, CT!At, Phases
<1>3. ASSUME NEW u \in Updaters, TakeSlots(u) \/ GiveSlotsBack(u) PROVE UpdatePlaces'
  BY <1>3 DEF TakeSlots, GiveSlotsBack, vars, updateVars, trackerVars
<1>4. ASSUME NEW u \in Updaters, RunUpdate(u) PROVE UpdatePlaces'
  <2>1. UNCHANGED phase /\ phase[u] \in {"starting", "ending"}
    BY <1>4 DEF RunUpdate, Updating
  <2>2. CASE LookAtCount(u) \/ Divide(u)
    BY <2>1, <2>2 DEF LookAtCount, Divide, trackerVars
  <2>3. CASE CallTracker(u)
    BY <2>1, <2>3 DEF CallTracker, CT!SetPacingRate
  <2>4. CASE TrackerStep(u)
    BY <2>1, <2>4 DEF TrackerStep, CT!StorePace, CT!ApplyPace, updateVars
  <2> QED BY <1>4, <2>2, <2>3, <2>4 DEF RunUpdate, UpdateStep
<1>5. ASSUME NEW u \in Updaters, Updated(u) PROVE UpdatePlaces'
  <2>1. setter[u] = "idle"
    BY <1>5 DEF Updated, UpdateReturns
  <2> QED BY <1>5, <2>1 DEF Updated, UpdateReturns, trackerVars
<1>6. ASSUME NEW k \in Conns, Transport(k) PROVE UpdatePlaces'
  BY <1>2, <1>6
  DEF Transport, ConnStep, updateVars, CT!Track, CT!CheckPace, CT!LoadPace, CT!PaceDialed,
      CT!MarkClosed, CT!CloseSocket, CT!pacingVars
<1> QED BY <1>2, <1>3, <1>4, <1>5, <1>6 DEF RNext, Finished, allVars, vars, updateVars, trackerVars

\* An update that overlaps no other leaves the share of the slots that are taken.
LEMMA LoneKept ==
  ASSUME RTypeOK, HolderNeverPanics, UpdatePlaces, LoneUpdate, [RNext]_allVars
  PROVE  LoneUpdate'
<1>1. /\ pacer \in [Updaters -> {"out", "dividing", "targeted", "called", "panicked"}]
      /\ setter \in [Updaters -> {"idle", "storing", "applying"}]
      /\ phase \in [Updaters -> Phases]
      /\ share \in [Updaters -> Nat] /\ target \in [Updaters -> Nat]
      /\ lone \subseteq Updaters
  BY DEF RTypeOK, TypeOK, CT!TypeOK, Phases
<1>2. ASSUME UNCHANGED <<count, pacer, share, uploadPace, setter, target, phase, lone>>
      PROVE  LoneUpdate'
  BY <1>2 DEF LoneUpdate, OnItsWay, Exact, Updating, Panicked
<1> USE <1>1 DEF Pacer, Phase, CT!At, Phases, Updating, Panicked
<1>3. ASSUME NEW u \in Updaters, TakeSlots(u) \/ GiveSlotsBack(u) PROVE LoneUpdate'
  <2>1. /\ BeginUpdate(u) /\ UNCHANGED <<pacer, share, uploadPace, setter, target>>
        /\ phase[u] \in {"queued", "transferring"}
        /\ phase' \in {[phase EXCEPT ![u] = "starting"], [phase EXCEPT ![u] = "ending"]}
    BY <1>3 DEF TakeSlots, GiveSlotsBack, vars, updateVars, trackerVars
  <2>2. pacer[u] \in {"out", "panicked"}
    BY <2>1 DEF UpdatePlaces
  <2>3. pacer[u] # "panicked"
    BY <2>1 DEF HolderNeverPanics
  <2>4. CASE \E v \in Updaters \ {u} : Updating(v)
    BY <2>1, <2>4 DEF BeginUpdate, LoneUpdate
  <2>5. CASE ~ \E v \in Updaters \ {u} : Updating(v)
    <3>1. lone' = {u}
      BY <2>1, <2>5 DEF BeginUpdate
    <3>2. OnItsWay(u)'
      BY <2>1, <2>2, <2>3 DEF OnItsWay
    <3>3. \A v \in Updaters \ {u} : ~ Updating(v)'
      BY <2>1, <2>5
    <3> QED BY <3>1, <3>2, <3>3 DEF LoneUpdate
  <2> QED BY <2>4, <2>5
<1>4. ASSUME NEW u \in Updaters, RunUpdate(u), BwLimitBytes # 0, NEW w \in lone PROVE OnItsWay(w)'
  <2>1. /\ UNCHANGED <<phase, lone, count>> /\ phase[u] \in {"starting", "ending"}
        /\ Exact' = Exact
    BY <1>4 DEF RunUpdate, Updating, UpdateStep, LookAtCount, Divide, CallTracker, TrackerStep, Exact
  <2>2. w = u /\ OnItsWay(u)
    BY <1>4 DEF LoneUpdate, RunUpdate
  <2> USE <2>1, <2>2 DEF OnItsWay
  <2>3. CASE LookAtCount(u)
    <3>1. count = 0 => IdlePace = Exact
      BY DEF IdlePace, Exact
    <3> QED BY <2>3, <3>1 DEF LookAtCount, trackerVars
  <2>4. CASE Divide(u)
    <3>1. count # 0 /\ DivCeil(BwLimitBytes, count) = Exact
      BY <2>4 DEF Divide, Exact
    <3> QED BY <2>4, <3>1 DEF Divide, trackerVars
  <2>5. CASE CallTracker(u)
    <3>1. setter[u] = "idle" /\ share[u] = Exact /\ pacer' = [pacer EXCEPT ![u] = "called"]
          /\ uploadPace' = uploadPace
      BY <2>5 DEF CallTracker, CT!SetPacingRate
    <3>2. CASE CT!IsCurrent(share[u])
      BY <2>5, <3>1, <3>2 DEF CallTracker, CT!SetPacingRate, CT!IsCurrent
    <3>3. CASE ~ CT!IsCurrent(share[u])
      BY <2>5, <3>1, <3>3 DEF CallTracker, CT!SetPacingRate
    <3> QED BY <3>2, <3>3
  <2>6. CASE CT!StorePace(u) /\ UNCHANGED updateVars
    BY <2>6 DEF CT!StorePace, updateVars, UpdatePlaces
  <2>7. CASE CT!ApplyPace(u) /\ UNCHANGED updateVars
    BY <2>7 DEF CT!ApplyPace, updateVars, UpdatePlaces
  <2> QED BY <1>4, <2>3, <2>4, <2>5, <2>6, <2>7 DEF RunUpdate, UpdateStep, TrackerStep
<1>5. ASSUME NEW u \in Updaters, RunUpdate(u) PROVE LoneUpdate'
  <2>1. /\ UNCHANGED <<phase, lone>> /\ phase[u] \in {"starting", "ending"} /\ ~ Panicked(u)
        /\ \A v \in Updaters \ {u} : pacer'[v] = pacer[v]
    BY <1>5
    DEF RunUpdate, UpdateStep, LookAtCount, Divide, CallTracker, TrackerStep, updateVars
  <2>2. ASSUME BwLimitBytes # 0, NEW w \in lone PROVE w = u
    BY <1>5, <2>2 DEF LoneUpdate, RunUpdate
  <2> QED BY <1>4, <1>5, <2>1, <2>2 DEF LoneUpdate
<1>6. ASSUME NEW u \in Updaters, Updated(u) PROVE LoneUpdate'
  <2>1. /\ UNCHANGED <<count, lone, share, uploadPace, setter, target>>
        /\ pacer' = [pacer EXCEPT ![u] = "out"]
        /\ BwLimitBytes # 0 => pacer[u] = "called" /\ setter[u] = "idle"
        /\ phase[u] \in {"starting", "ending"}
        /\ phase' \in {[phase EXCEPT ![u] = "transferring"], [phase EXCEPT ![u] = "done"]}
    BY <1>6 DEF Updated, UpdateReturns, trackerVars
  <2>2. Exact' = Exact
    BY <2>1 DEF Exact
  <2>3. ASSUME BwLimitBytes # 0, NEW w \in lone
        PROVE  w = u /\ OnItsWay(u)' /\ \A v \in Updaters \ {u} : ~ Updating(v)'
    <3>1. w = u /\ OnItsWay(u) /\ \A v \in Updaters \ {u} : ~ Updating(v)
      BY <2>1, <2>3 DEF LoneUpdate
    <3>2. uploadPace = Exact
      BY <2>1, <2>3, <3>1 DEF OnItsWay
    <3>3. OnItsWay(u)'
      BY <2>1, <2>2, <3>2 DEF OnItsWay
    <3> QED BY <2>1, <3>1, <3>3
  <2> QED BY <2>1, <2>3 DEF LoneUpdate
<1>7. ASSUME NEW k \in Conns, Transport(k) PROVE LoneUpdate'
  BY <1>2, <1>7
  DEF Transport, ConnStep, updateVars, CT!Track, CT!CheckPace, CT!LoadPace, CT!PaceDialed,
      CT!MarkClosed, CT!CloseSocket, CT!pacingVars
<1> QED BY <1>2, <1>3, <1>5, <1>6, <1>7 DEF RNext, Finished, allVars, vars, updateVars, trackerVars

\* When the last update to begin overlapped no other, the rate is the share of
\* the slots that are taken, however many uploads came before (handler.go:722-744).
THEOREM LoneUpdateAlwaysExact == RSpec => []LoneUpdateExact
<1>1. RInit => UpdatePlaces /\ LoneUpdate
  BY DEF RInit, Init, CT!InitPaced, UpdatePlaces, LoneUpdate
<1>2. RTypeOK /\ LoneUpdate => LoneUpdateExact
  <2> SUFFICES ASSUME RTypeOK, LoneUpdate, Settled, BwLimitBytes # 0, NEW u \in lone
               PROVE  uploadPace = Exact
    BY DEF LoneUpdateExact, Exact
  <2>1. u \in Updaters /\ OnItsWay(u) /\ ~ Updating(u)
    BY DEF LoneUpdate, Settled
  <2>2. phase[u] \in Phases
    BY <2>1 DEF RTypeOK, Phases
  <2> QED BY <2>1, <2>2 DEF OnItsWay, Updating, Phases
<1>3. RTypeOK /\ UpdatePlaces /\ [RNext]_allVars => UpdatePlaces'
  BY PlacesKept
<1>4. RTypeOK /\ HolderNeverPanics /\ UpdatePlaces /\ LoneUpdate /\ [RNext]_allVars => LoneUpdate'
  BY LoneKept
<1> QED BY <1>1, <1>2, <1>3, <1>4, RebalanceTypes, HoldersNeverPanic, PTL DEF RSpec
=============================================================================
