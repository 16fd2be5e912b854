-------------------------- MODULE CollectorProofs --------------------------
(***************************************************************************)
(* Proofs about ConnTracker and Collector, for all connections, setters    *)
(* and rates. The invariants of the tracker are proved of ConnTracker by   *)
(* itself; that a tracker under scrapes is still a tracker carries them    *)
(* over to Collector. Its own invariant says that a scrape, holding mu,    *)
(* keeps every connection it has still to ask in the map, and what its     *)
(* total is worth at each point: between what was known when it began and  *)
(* what has been sent. Sums are compared as numbers of slots (SlotLemmas). *)
(***************************************************************************)
EXTENDS Collector, InductionLemmas

-----------------------------------------------------------------------------
\* A rate on a socket is a number.
LEMMA SocketRate ==
  ASSUME NEW pace \in Nat
  PROVE  OnSocket(pace) \in Nat
BY ConnTrackerAssumption DEF OnSocket

\* The tracker's variables keep their types; the unsigned counters and rates
\* are never negative (conntracker.go:20-32).
THEOREM TrackerTypes == Spec => []TypeOK
<1>1. Init => TypeOK
  BY ConnTrackerAssumption DEF Init, InitPaced, TypeOK, Unpaced
<1>2. TypeOK /\ [Next]_vars => TypeOK'
  <2> SUFFICES ASSUME TypeOK, [Next]_vars
               PROVE  TypeOK'
    OBVIOUS
  <2> USE ConnTrackerAssumption, SocketRate
      DEF TypeOK, At, Dialing, pacingVars, dialVars, trackVars, infoVars
  <2>1. ASSUME NEW t \in Setters, ApplyPace(t)
        PROVE  TypeOK'
    <3>1. PICK missed \in MayFail(active) :
            /\ sockPace' = [k \in Conns |-> IF k \in active \ missed
                                            THEN OnSocket(target[t]) ELSE sockPace[k]]
            /\ failed' = failed \cup (missed \X {"setsockopt"})
      BY <2>1 DEF ApplyPace
    <3>2. missed \subseteq Conns
      BY DEF MayFail
    <3>3. sockPace' \in [Conns -> Nat \cup {Unpaced}]
      BY <3>1
    <3>4. failed' \subseteq Conns \X {"setsockopt", "TCP_INFO"}
      BY <3>1, <3>2
    <3> QED BY <2>1, <3>3, <3>4 DEF ApplyPace
  <2>2. ASSUME NEW k \in Conns, Track(k)
        PROVE  TypeOK'
    BY <2>2 DEF Track, Entered
  <2>3. ASSUME NEW k \in Conns, MarkClosed(k)
        PROVE  TypeOK'
    <3>1. sumClosed' \in Nat
      BY <2>3 DEF MarkClosed, Kept
    <3>2. failed' \subseteq Conns \X {"setsockopt", "TCP_INFO"}
      BY <2>3 DEF MarkClosed
    <3> QED BY <2>3, <3>1, <3>2 DEF MarkClosed
  <2>4. ASSUME NEW t \in Setters, StorePace(t)
        PROVE  TypeOK'
    BY <2>4 DEF StorePace
  <2>5. ASSUME NEW t \in Setters, NEW pace \in Paces, SetPacingRate(t, pace)
        PROVE  TypeOK'
    BY <2>5 DEF SetPacingRate
  <2>6. ASSUME NEW k \in Conns, CheckPace(k)
        PROVE  TypeOK'
    BY <2>6 DEF CheckPace
  <2>7. ASSUME NEW k \in Conns, LoadPace(k)
        PROVE  TypeOK'
    BY <2>7 DEF LoadPace
  <2>8. ASSUME NEW k \in Conns, PaceDialed(k)
        PROVE  TypeOK'
    <3>1. sockPace' \in [Conns -> Nat \cup {Unpaced}]
      BY <2>8 DEF PaceDialed
    <3>2. failed' \subseteq Conns \X {"setsockopt", "TCP_INFO"}
      BY <2>8 DEF PaceDialed
    <3> QED BY <2>8, <3>1, <3>2 DEF PaceDialed
  <2>9. ASSUME NEW k \in Conns, CloseSocket(k)
        PROVE  TypeOK'
    BY <2>9 DEF CloseSocket
  <2>10. ASSUME NEW k \in Conns, Send(k)
         PROVE  TypeOK'
    BY <2>10 DEF Send
  <2>11. CASE UNCHANGED vars
    BY <2>11 DEF vars
  <2> QED BY <2>1, <2>2, <2>3, <2>4, <2>5, <2>6, <2>7, <2>8, <2>9, <2>10, <2>11
          DEF Next, LockingStep, LocklessStep
<1> QED BY <1>1, <1>2, PTL DEF Spec

-----------------------------------------------------------------------------
Mapped == {"tracked", "checked", "setting", "ready", "dropped"}
Dialed == {k \in Conns : dial[k] # "none"}
Marked == {k \in Conns : dial[k] \in {"closing", "closed"}}

\* Where a connection is in its life says whether it is in the map, whether it
\* is open, and whether it was counted as closed.
Lives ==
  /\ active = {k \in Conns : dial[k] \in Mapped}
  /\ open = {k \in Conns : dial[k] \notin {"none", "closed"}}
  /\ closed = Cardinality(Marked)

\* A connection in use without a rate, although there is one and the kernel has
\* refused nothing, is about to be reached by a setter that has stored the rate
\* and not yet gone through the map.
SetterComes ==
  \A k \in Conns :
    dial[k] = "ready" /\ <<k, "setsockopt">> \notin failed
      /\ sockPace[k] = Unpaced /\ uploadPace > 0
    => \E t \in Setters : setter[t] = "applying"

IInv == TypeOK /\ Lives /\ SetterComes

\* One more connection is marked: it was not before.
LEMMA OneMoreMarked ==
  ASSUME NEW k \in Conns, IsFiniteSet(Marked), k \notin Marked, Marked' = Marked \cup {k}
  PROVE  Cardinality(Marked') = Cardinality(Marked) + 1
BY FS_AddElement

\* The life of a connection is kept by every step.
LEMMA LivesKept == IInv /\ [Next]_vars => Lives'
<1> SUFFICES ASSUME IInv, [Next]_vars
             PROVE  Lives'
  OBVIOUS
<1> USE DEF IInv, TypeOK, Lives, Mapped, Dialing, pacingVars, dialVars, trackVars, infoVars
<1>0. IsFiniteSet(Marked)
  BY ConnTrackerAssumption, FS_Subset DEF Marked
<1>1. ASSUME NEW t \in Setters, ApplyPace(t) \/ StorePace(t)
      PROVE  Lives'
  BY <1>1 DEF ApplyPace, StorePace, Marked
<1>2. ASSUME NEW t \in Setters, NEW pace \in Paces, SetPacingRate(t, pace)
      PROVE  Lives'
  BY <1>2 DEF SetPacingRate, Marked
<1>3. ASSUME NEW k \in Conns, Track(k)
      PROVE  Lives'
  BY <1>3 DEF Track, Entered, Marked
<1>4. ASSUME NEW k \in Conns, MarkClosed(k)
      PROVE  Lives'
  <2>1. k \notin Marked /\ Marked' = Marked \cup {k}
    BY <1>4 DEF MarkClosed, Marked
  <2>2. closed' = Cardinality(Marked')
    BY <1>0, <1>4, <2>1, OneMoreMarked DEF MarkClosed
  <2>3. active' = {x \in Conns : dial'[x] \in Mapped}
    BY <1>4 DEF MarkClosed
  <2>4. open' = {x \in Conns : dial'[x] \notin {"none", "closed"}}
    BY <1>4 DEF MarkClosed
  <2> QED BY <2>2, <2>3, <2>4
<1>5. ASSUME NEW k \in Conns, CheckPace(k) \/ LoadPace(k) \/ PaceDialed(k)
      PROVE  Lives'
  <2>1. Marked' = Marked
    BY <1>5 DEF CheckPace, LoadPace, PaceDialed, Marked
  <2> QED BY <1>5, <2>1 DEF CheckPace, LoadPace, PaceDialed
<1>6. ASSUME NEW k \in Conns, CloseSocket(k)
      PROVE  Lives'
  <2>1. Marked' = Marked
    BY <1>6 DEF CloseSocket, MarkedClosed, Marked
  <2> QED BY <1>6, <2>1 DEF CloseSocket, MarkedClosed
<1>7. ASSUME NEW k \in Conns, Send(k)
      PROVE  Lives'
  BY <1>7 DEF Send, Marked
<1>8. CASE UNCHANGED vars
  BY <1>8 DEF vars, Marked
<1> QED BY <1>1, <1>2, <1>3, <1>4, <1>5, <1>6, <1>7, <1>8 DEF Next, LockingStep, LocklessStep

\* A dial puts its connection in the map before it looks at the rate, and a
\* setter stores the rate before it goes through the map.
LEMMA SetterComesKept == IInv /\ [Next]_vars => SetterComes'
<1> SUFFICES ASSUME IInv, [Next]_vars, NEW k \in Conns,
                    dial'[k] = "ready", <<k, "setsockopt">> \notin failed',
                    sockPace'[k] = Unpaced, uploadPace' > 0
             PROVE  \E t \in Setters : setter'[t] = "applying"
  BY DEF SetterComes
<1> USE DEF IInv, TypeOK, Dialing, At, pacingVars, dialVars, trackVars, infoVars
<1>1. ASSUME NEW t \in Setters, ApplyPace(t)
      PROVE  FALSE
  <2>1. k \in active
    BY <1>1 DEF ApplyPace, Lives, Mapped
  <2>2. sockPace'[k] = OnSocket(target[t])
    BY <1>1, <2>1 DEF ApplyPace, MayFail
  <2>3. OnSocket(target[t]) \in Nat
    BY SocketRate
  <2> QED BY <2>2, <2>3 DEF Unpaced
<1>2. ASSUME NEW t \in Setters, StorePace(t)
      PROVE  setter'[t] = "applying"
  BY <1>2 DEF StorePace
<1>3. ASSUME NEW t \in Setters, NEW pace \in Paces, SetPacingRate(t, pace)
      PROVE  \E s \in Setters : setter'[s] = "applying"
  <2>1. PICK s \in Setters : setter[s] = "applying"
    BY <1>3 DEF SetPacingRate, SetterComes
  <2>2. setter'[s] = "applying"
    BY <1>3, <2>1 DEF SetPacingRate
  <2> QED BY <2>2
<1>4. ASSUME NEW j \in Conns, PaceDialed(j)
      PROVE  \E t \in Setters : setter'[t] = "applying"
  <2>1. OnSocket(loaded[j]) \in Nat
    BY SocketRate
  <2>2. j # k
    BY <1>4, <2>1 DEF PaceDialed, Unpaced
  <2> QED BY <1>4, <2>2 DEF PaceDialed, SetterComes
<1>5. ASSUME NEW j \in Conns, CheckPace(j)
      PROVE  \E t \in Setters : setter'[t] = "applying"
  BY <1>5 DEF CheckPace, SetterComes
<1>6. ASSUME NEW j \in Conns,
             Track(j) \/ MarkClosed(j) \/ LoadPace(j) \/ CloseSocket(j) \/ Send(j)
      PROVE  \E t \in Setters : setter'[t] = "applying"
  <2>1. dial[k] = "ready" /\ <<k, "setsockopt">> \notin failed
    BY <1>6 DEF Track, MarkClosed, LoadPace, CloseSocket, Send
  <2>2. UNCHANGED <<sockPace, uploadPace, setter>>
    BY <1>6 DEF Track, MarkClosed, LoadPace, CloseSocket, Send
  <2> QED BY <2>1, <2>2 DEF SetterComes
<1>7. CASE UNCHANGED vars
  BY <1>7 DEF vars, SetterComes
<1> QED BY <1>1, <1>2, <1>3, <1>4, <1>5, <1>6, <1>7 DEF Next, LockingStep, LocklessStep

\* The two strengthenings hold of every state the tracker can be in.
THEOREM TrackerInvariant == Spec => [](Lives /\ SetterComes)
<1>1. Init => Lives /\ SetterComes
  <2> SUFFICES ASSUME Init
               PROVE  Lives /\ SetterComes
    OBVIOUS
  <2>1. Marked = {}
    BY DEF Init, InitPaced, Marked
  <2>2. Cardinality(Marked) = 0
    BY <2>1, FS_EmptySet
  <2> QED BY <2>2 DEF Init, InitPaced, Lives, SetterComes, Mapped
<1>2. IInv /\ [Next]_vars => (Lives /\ SetterComes)'
  BY LivesKept, SetterComesKept
<1>3. IInv <=> TypeOK /\ Lives /\ SetterComes
  BY DEF IInv
<1> QED BY <1>1, <1>2, <1>3, TrackerTypes, PTL DEF Spec

\* A connection in the map has an open descriptor: setsockopt and TCP_INFO
\* never hit one that is closed (Close, markClosed).
THEOREM ActiveAlwaysOpen == Spec => []ActiveAreOpen
<1>1. Lives => ActiveAreOpen
  BY DEF Lives, ActiveAreOpen, Mapped
<1> QED BY <1>1, TrackerInvariant, PTL

\* Every connection that was dialed is counted once, as active or as closed
\* (Connections, markClosed).
THEOREM ConnectionsAlwaysExact == Spec => []ConnectionsExact
<1>1. TypeOK /\ Lives => ConnectionsExact
  <2> SUFFICES ASSUME TypeOK, Lives
               PROVE  ConnectionsExact
    OBVIOUS
  <2>1. Dialed = active \cup Marked /\ active \cap Marked = {}
    BY DEF TypeOK, Lives, Mapped, Marked, Dialed
  <2>2. IsFiniteSet(active) /\ IsFiniteSet(Marked)
    BY ConnTrackerAssumption, FS_Subset DEF TypeOK, Marked
  <2>3. Cardinality(Dialed) = Cardinality(active) + Cardinality(Marked)
    <3>1. Cardinality(Dialed) = Cardinality(active) + Cardinality(Marked) - Cardinality({})
      BY <2>1, <2>2, FS_Union
    <3>2. Cardinality(active) \in Nat /\ Cardinality(Marked) \in Nat
      BY <2>2, FS_CardinalityType
    <3>3. Cardinality({}) = 0
      BY FS_EmptySet
    <3> QED BY <3>1, <3>2, <3>3
  <2> QED BY <2>3 DEF Lives, ConnectionsExact, Connections, Dialed
<1> QED BY <1>1, TrackerTypes, TrackerInvariant, PTL

\* At rest no connection in use is without a rate, once there is one and unless
\* the kernel refused it (SetPacingRate, DialContext).
THEOREM NeverUnpaced == Spec => []NoneUnpaced
<1>1. SetterComes => NoneUnpaced
  BY DEF SetterComes, NoneUnpaced, AtRest
<1> QED BY <1>1, TrackerInvariant, PTL

-----------------------------------------------------------------------------
\* Under scrapes the tracker is the tracker that was specified by itself: a
\* scrape changes nothing of it, and only keeps others from taking mu. What is
\* proved of ConnTracker holds of Collector.
THEOREM ScrapedTrackerIsTracker == CSpec => Spec
<1>1. CInit => Init
  BY DEF CInit
<1>2. [CNext]_allVars => [Next]_vars
  BY DEF CNext, TrackerStep, ScrapeStep, BeginTcpInfo, AskConn, AddClosed, CountConns, Export,
         Next, allVars
<1> QED BY <1>1, <1>2, PTL DEF CSpec, Spec

\* While TcpInfo has connections to ask, it holds mu, and they are in the map.
AskedAreActive ==
  /\ unasked \subseteq active
  /\ scraper # "asking" => unasked = {}

\* TcpInfo only asks connections that are in the map (Monkey).
THEOREM AlwaysAsksActive == CSpec => []AskedAreActive
<1>1. CInit => AskedAreActive
  BY DEF CInit, AskedAreActive
<1>2. AskedAreActive /\ [CNext]_allVars => AskedAreActive'
  <2> SUFFICES ASSUME AskedAreActive, [CNext]_allVars
               PROVE  AskedAreActive'
    OBVIOUS
  <2> USE DEF AskedAreActive, vars, trackVars
  <2>1. CASE BeginTcpInfo
    BY <2>1 DEF BeginTcpInfo
  <2>2. ASSUME NEW k \in Conns, AskConn(k)
        PROVE  AskedAreActive'
    BY <2>2 DEF AskConn
  <2>3. CASE AddClosed
    BY <2>3 DEF AddClosed
  <2>4. CASE CountConns
    BY <2>4 DEF CountConns
  <2>5. CASE Export
    BY <2>5 DEF Export
  <2>6. CASE ~ScrapeLocks /\ LockingStep /\ UNCHANGED scrapeVars
    BY <2>6 DEF ScrapeLocks, scrapeVars
  <2>7. CASE LocklessStep /\ UNCHANGED scrapeVars
    <3>1. UNCHANGED active
      BY <2>7 DEF LocklessStep, StorePace, SetPacingRate, CheckPace, LoadPace, PaceDialed,
                  CloseSocket, Send
    <3> QED BY <2>7, <3>1 DEF scrapeVars
  <2>8. CASE UNCHANGED allVars
    BY <2>8 DEF allVars, scrapeVars
  <2> QED BY <2>1, <2>2, <2>3, <2>4, <2>5, <2>6, <2>7, <2>8 DEF CNext, TrackerStep, ScrapeStep
<1> QED BY <1>1, <1>2, PTL DEF CSpec

\* TcpInfo never asks a closed connection (Monkey, Close).
THEOREM NeverEverAsksClosed == CSpec => []NeverAsksClosed
<1>1. AskedAreActive /\ ActiveAreOpen => NeverAsksClosed
  BY DEF AskedAreActive, ActiveAreOpen, NeverAsksClosed
<1> QED BY <1>1, AlwaysAsksActive, ScrapedTrackerIsTracker, ActiveAlwaysOpen, PTL

-----------------------------------------------------------------------------
\* The connections whose TCP_INFO failed when they were closed.
Failed == {k \in Conns : <<k, "TCP_INFO">> \in failed}

\* The bytes that connections have sent.
Bytes(conns) == Cardinality(Owned(conns, sent))

\* What is kept of the closed connections is no more than they have sent, and
\* only of closed ones was anything lost.
ClosedSent ==
  /\ sumClosed <= Bytes(Marked)
  /\ Failed \subseteq Marked

\* Where a scrape is says what its total is worth.
Totals ==
  /\ scraper = "asking" =>
       /\ total <= Bytes(active \ unasked)
       /\ ~ refused => knownBefore <= total + Bytes(unasked) + sumClosed
  /\ scraper \in {"counting", "exporting"} =>
       /\ knownBefore <= total
       /\ total <= Bytes(Conns)
       /\ total <= sumClosed + Bytes(active) + Bytes(Failed)

\* What was exported is still known, but for what failed connections had sent.
StillKnown ==
  /\ exported.sent <= sumClosed + Bytes(active) + Bytes(Failed)
  /\ scraper # "idle" => exported.sent <= knownBefore + Bytes(Failed)
  /\ exported.closed <= closed
  /\ scraper = "exporting" => exported.closed <= counted /\ counted <= closed

ScrapeInv == CTypeOK /\ AskedAreActive /\ ClosedSent /\ Totals /\ StillKnown

\* The bytes of some connections are a number, of more connections at least as
\* many, and add up for connections that are apart.
LEMMA BytesAdd ==
  ASSUME NEW f, \A k \in Conns : f[k] \in Nat
  PROVE  /\ \A S \in SUBSET Conns : \A T \in SUBSET S :
              /\ Cardinality(Owned(S, f)) \in Nat
              /\ Cardinality(Owned(T, f)) \in Nat
              /\ Cardinality(Owned(T, f)) <= Cardinality(Owned(S, f))
         /\ \A S, T \in SUBSET Conns :
              S \cap T = {} => Cardinality(Owned(S \cup T, f)) =
                               Cardinality(Owned(S, f)) + Cardinality(Owned(T, f))
         /\ \A S \in SUBSET Conns : \A k \in S :
              Cardinality(Owned(S \ {k}, f)) = Cardinality(Owned(S, f)) - f[k]
<1>1. \A S \in SUBSET Conns : IsFiniteSet(S)
  BY ConnTrackerAssumption, FS_Subset
<1>2. ASSUME NEW S \in SUBSET Conns, NEW T \in SUBSET S
      PROVE  /\ Cardinality(Owned(S, f)) \in Nat
             /\ Cardinality(Owned(T, f)) \in Nat
             /\ Cardinality(Owned(T, f)) <= Cardinality(Owned(S, f))
  <2>1. \A k \in S : f[k] \in Nat /\ f[k] <= f[k]
    OBVIOUS
  <2>2. (\A k \in S : f[k] \in Nat) /\ (\A k \in T : f[k] \in Nat /\ f[k] <= f[k])
    BY <2>1
  <2> QED BY <1>1, <2>2, OwnedGrows
<1>3. ASSUME NEW S \in SUBSET Conns, NEW T \in SUBSET Conns, S \cap T = {}
      PROVE  Cardinality(Owned(S \cup T, f)) =
               Cardinality(Owned(S, f)) + Cardinality(Owned(T, f))
  <2>1. \A k \in S \cup T : f[k] \in Nat
    OBVIOUS
  <2> QED BY <1>1, <1>3, <2>1, OwnedApart
<1>4. ASSUME NEW S \in SUBSET Conns, NEW k \in S
      PROVE  Cardinality(Owned(S \ {k}, f)) = Cardinality(Owned(S, f)) - f[k]
  <2>1. IsFiniteSet(Owned(S, f)) /\ f[k] \in Nat
    BY <1>1, OwnedFinite
  <2> QED BY <2>1, RemoveOwner
<1> QED BY <1>2, <1>3, <1>4

\* More was sent later.
LEMMA BytesGrow ==
  ASSUME NEW f, NEW g, \A k \in Conns : f[k] \in Nat /\ g[k] \in Nat /\ f[k] <= g[k],
         NEW S \in SUBSET Conns
  PROVE  Cardinality(Owned(S, f)) <= Cardinality(Owned(S, g))
<1>1. IsFiniteSet(S)
  BY ConnTrackerAssumption, FS_Subset
<1>2. (\A k \in S : g[k] \in Nat) /\ (\A k \in S : f[k] \in Nat /\ f[k] <= g[k])
  OBVIOUS
<1>3. S \in SUBSET S
  OBVIOUS
<1> QED BY <1>1, <1>2, <1>3, OwnedGrows

\* What a step of the tracker does to what was sent, kept and lost.
LEMMA TrackerMoves ==
  ASSUME TypeOK, TypeOK', Lives, ClosedSent, [Next]_vars
  PROVE  /\ \A k \in Conns : sent[k] \in Nat /\ sent'[k] \in Nat /\ sent[k] <= sent'[k]
         /\ \/ /\ active \subseteq active'
               /\ UNCHANGED <<sumClosed, closed, Failed, Marked>>
            \/ \E k \in active :
                 /\ active' = active \ {k}
                 /\ closed' = closed + 1
                 /\ sent' = sent
                 /\ k \notin Marked
                 /\ Marked' = Marked \cup {k}
                 /\ \/ sumClosed' = sumClosed + sent[k] /\ Failed' = Failed
                    \/ sumClosed' = sumClosed /\ Failed' = Failed \cup {k}
<1> DEFINE Moves ==
      \/ /\ active \subseteq active'
         /\ UNCHANGED <<sumClosed, closed, Failed, Marked>>
      \/ \E k \in active :
           /\ active' = active \ {k}
           /\ closed' = closed + 1
           /\ sent' = sent
           /\ k \notin Marked
           /\ Marked' = Marked \cup {k}
           /\ \/ sumClosed' = sumClosed + sent[k] /\ Failed' = Failed
              \/ sumClosed' = sumClosed /\ Failed' = Failed \cup {k}
<1>0. \A k \in Conns : sent[k] \in Nat /\ sent'[k] \in Nat
  BY ConnTrackerAssumption DEF TypeOK
<1> USE DEF TypeOK, Dialing, pacingVars, dialVars, trackVars, infoVars
<1>1. ASSUME NEW t \in Setters, ApplyPace(t)
      PROVE  sent' = sent /\ Moves
  <2>1. Failed' = Failed
    BY <1>1 DEF ApplyPace, Failed
  <2> QED BY <1>1, <2>1 DEF ApplyPace, Marked
<1>2. ASSUME NEW t \in Setters, StorePace(t) \/ \E pace \in Paces : SetPacingRate(t, pace)
      PROVE  sent' = sent /\ Moves
  BY <1>2 DEF StorePace, SetPacingRate, Failed, Marked
<1>3. ASSUME NEW k \in Conns, Track(k)
      PROVE  sent' = sent /\ Moves
  <2>1. Marked' = Marked /\ Failed' = Failed
    BY <1>3 DEF Track, Marked, Failed
  <2> QED BY <1>3, <2>1 DEF Track, Entered
<1>4. ASSUME NEW k \in Conns, MarkClosed(k)
      PROVE  sent' = sent /\ Moves
  <2>1. k \in active /\ k \notin Marked /\ Marked' = Marked \cup {k}
    BY <1>4 DEF MarkClosed, Marked, Lives, Mapped
  <2>2. \/ sumClosed' = sumClosed + sent[k] /\ Failed' = Failed
        \/ sumClosed' = sumClosed /\ Failed' = Failed \cup {k}
    BY <1>4 DEF MarkClosed, Kept, Failed
  <2> QED BY <1>4, <2>1, <2>2 DEF MarkClosed
<1>5. ASSUME NEW k \in Conns, CheckPace(k) \/ LoadPace(k) \/ PaceDialed(k)
      PROVE  sent' = sent /\ Moves
  <2>1. Marked' = Marked /\ Failed' = Failed
    BY <1>5 DEF CheckPace, LoadPace, PaceDialed, Marked, Failed
  <2> QED BY <1>5, <2>1 DEF CheckPace, LoadPace, PaceDialed
<1>6. ASSUME NEW k \in Conns, CloseSocket(k)
      PROVE  sent' = sent /\ Moves
  <2>1. Marked' = Marked /\ Failed' = Failed
    BY <1>6 DEF CloseSocket, MarkedClosed, Marked, Failed
  <2> QED BY <1>6, <2>1 DEF CloseSocket
<1>7. ASSUME NEW k \in Conns, Send(k)
      PROVE  (\A c \in Conns : sent[c] <= sent'[c]) /\ Moves
  <2>1. \A c \in Conns : sent[c] <= sent'[c]
    BY <1>0, <1>7 DEF Send
  <2> QED BY <1>7, <2>1 DEF Send, Marked, Failed
<1>8. ASSUME UNCHANGED vars
      PROVE  sent' = sent /\ Moves
  BY <1>8 DEF vars, Marked, Failed
<1>9. (\A c \in Conns : sent[c] <= sent'[c]) /\ Moves
  <2>1. sent' = sent => \A c \in Conns : sent[c] <= sent'[c]
    BY <1>0
  <2>2. (\A c \in Conns : sent[c] <= sent'[c]) \/ sent' = sent
    <3> HIDE DEF Moves
    <3> QED BY <1>1, <1>2, <1>3, <1>4, <1>5, <1>6, <1>7, <1>8
            DEF Next, LockingStep, LocklessStep, vars
  <2>3. Moves
    <3> HIDE DEF Moves
    <3>1. CASE LockingStep
      BY <1>1, <1>3, <1>4, <3>1 DEF LockingStep
    <3>2. CASE LocklessStep
      <4>1. CASE \E t \in Setters : StorePace(t) \/ \E pace \in Paces : SetPacingRate(t, pace)
        BY <1>2, <4>1, Zenon
      <4>2. CASE \E k \in Conns :
                   CheckPace(k) \/ LoadPace(k) \/ PaceDialed(k) \/ CloseSocket(k) \/ Send(k)
        BY <1>5, <1>6, <1>7, <4>2, Zenon
      <4> QED BY <3>2, <4>1, <4>2 DEF LocklessStep
    <3> QED BY <1>8, <3>1, <3>2 DEF Next, vars
  <2> QED BY <2>1, <2>2, <2>3
<1> QED BY <1>0, <1>9

\* The tracker never knows less, but for what failed connections had sent.
LEMMA TrackerGrows ==
  ASSUME TypeOK, TypeOK', Lives, ClosedSent, [Next]_vars
  PROVE  /\ ClosedSent'
         /\ \A S \in SUBSET Conns : Bytes(S) <= Cardinality(Owned(S, sent'))
         /\ Bytes(Failed) <= Bytes(Failed)'
         /\ sumClosed + Bytes(active) + Bytes(Failed)
              <= (sumClosed + Bytes(active) + Bytes(Failed))'
         /\ closed <= closed'
<1> DEFINE B(S) == Cardinality(Owned(S, sent))
           C(S) == Cardinality(Owned(S, sent'))
<1>1. \A k \in Conns : sent[k] \in Nat /\ sent'[k] \in Nat /\ sent[k] <= sent'[k]
  BY TrackerMoves
<1>2. /\ \A S \in SUBSET Conns : \A T \in SUBSET S : B(S) \in Nat /\ B(T) \in Nat /\ B(T) <= B(S)
      /\ \A S \in SUBSET Conns : \A k \in S : B(S \ {k}) = B(S) - sent[k]
  BY <1>1, BytesAdd
<1>3. \A S \in SUBSET Conns : \A T \in SUBSET S : C(S) \in Nat /\ C(T) \in Nat /\ C(T) <= C(S)
  <2> DEFINE g == sent'
  <2>1. \A k \in Conns : g[k] \in Nat
    BY <1>1
  <2> HIDE DEF g
  <2>2. \A S \in SUBSET Conns : \A T \in SUBSET S :
          /\ Cardinality(Owned(S, g)) \in Nat
          /\ Cardinality(Owned(T, g)) \in Nat
          /\ Cardinality(Owned(T, g)) <= Cardinality(Owned(S, g))
    BY <2>1, BytesAdd
  <2> QED BY <2>2 DEF g
<1>4. \A S \in SUBSET Conns : B(S) <= C(S)
  <2> DEFINE g == sent'
  <2>1. \A k \in Conns : sent[k] \in Nat /\ g[k] \in Nat /\ sent[k] <= g[k]
    BY <1>1
  <2> HIDE DEF g
  <2>2. \A S \in SUBSET Conns : Cardinality(Owned(S, sent)) <= Cardinality(Owned(S, g))
    BY <2>1, BytesGrow
  <2> QED BY <2>2 DEF g
<1>5. sent' = sent => \A S : C(S) = B(S)
  OBVIOUS
<1>6. /\ active \in SUBSET Conns /\ active' \in SUBSET Conns
      /\ Failed \in SUBSET Conns /\ Failed' \in SUBSET Conns
      /\ Marked \in SUBSET Conns /\ Marked' \in SUBSET Conns
      /\ sumClosed \in Nat /\ sumClosed' \in Nat /\ closed \in Nat /\ closed' \in Nat
  BY DEF TypeOK, Failed, Marked
<1>7. sumClosed <= B(Marked) /\ Failed \subseteq Marked
  BY DEF ClosedSent, Bytes
<1> HIDE DEF B, C
<1>8. /\ sumClosed' <= C(Marked') /\ Failed' \subseteq Marked'
      /\ B(Failed) <= C(Failed')
      /\ sumClosed + B(active) + B(Failed) <= sumClosed' + C(active') + C(Failed')
      /\ closed <= closed'
  <2>1. CASE active \subseteq active' /\ UNCHANGED <<sumClosed, closed, Failed, Marked>>
    <3>1. /\ B(Marked) <= C(Marked) /\ B(Marked) \in Nat /\ C(Marked) \in Nat
          /\ B(Failed) <= C(Failed) /\ B(Failed) \in Nat /\ C(Failed) \in Nat
          /\ B(active) <= C(active) /\ B(active) \in Nat /\ C(active) \in Nat
          /\ C(active) <= C(active') /\ C(active') \in Nat
      BY <1>2, <1>3, <1>4, <1>6, <2>1
    <3> QED BY <1>6, <1>7, <2>1, <3>1
  <2>2. ASSUME NEW k \in active,
               active' = active \ {k}, closed' = closed + 1, sent' = sent,
               k \notin Marked, Marked' = Marked \cup {k},
               \/ sumClosed' = sumClosed + sent[k] /\ Failed' = Failed
               \/ sumClosed' = sumClosed /\ Failed' = Failed \cup {k}
        PROVE  /\ sumClosed' <= C(Marked') /\ Failed' \subseteq Marked'
               /\ B(Failed) <= C(Failed')
               /\ sumClosed + B(active) + B(Failed) <= sumClosed' + C(active') + C(Failed')
               /\ closed <= closed'
    <3>1. C(active') = B(active) - sent[k] /\ B(active) \in Nat /\ sent[k] \in Nat
      BY <1>1, <1>2, <1>5, <1>6, <2>2
    <3>2. Marked = Marked' \ {k} /\ k \in Marked'
      BY <2>2
    <3>3. C(Marked') = B(Marked) + sent[k] /\ B(Marked) \in Nat
      <4>1. B(Marked' \ {k}) = B(Marked') - sent[k] /\ B(Marked') \in Nat
        BY <1>2, <1>6, <3>2
      <4> QED BY <1>2, <1>5, <1>6, <2>2, <3>1, <3>2, <4>1
    <3>4. B(Failed) \in Nat /\ C(Failed) = B(Failed)
      BY <1>2, <1>5, <1>6, <2>2
    <3>5. CASE sumClosed' = sumClosed + sent[k] /\ Failed' = Failed
      BY <1>6, <1>7, <2>2, <3>1, <3>3, <3>4, <3>5
    <3>6. CASE sumClosed' = sumClosed /\ Failed' = Failed \cup {k}
      <4>1. Failed = Failed' \ {k} /\ k \in Failed'
        BY <1>7, <2>2, <3>6
      <4>2. B(Failed' \ {k}) = B(Failed') - sent[k] /\ B(Failed') \in Nat
        BY <1>2, <1>6, <4>1
      <4>3. C(Failed') = B(Failed) + sent[k]
        BY <1>5, <2>2, <3>1, <3>4, <4>1, <4>2
      <4> QED BY <1>6, <1>7, <2>2, <3>1, <3>3, <3>4, <3>6, <4>3
    <3> QED BY <2>2, <3>5, <3>6
  <2> QED BY <2>1, <2>2, TrackerMoves
<1> QED BY <1>4, <1>8 DEF ClosedSent, Bytes, B, C

\* The sums of the model are numbers of bytes.
LEMMA KnownIs ==
  ASSUME TypeOK
  PROVE  /\ Known = sumClosed + Bytes(active)
         /\ AllSent = Bytes(Conns)
         /\ Lost = Bytes(Failed)
<1>1. \A k \in Conns : sent[k] \in Nat
  BY ConnTrackerAssumption DEF TypeOK
<1>2. ASSUME NEW S \in SUBSET Conns
      PROVE  MapThenSumSet(LAMBDA k : sent[k], S) = Bytes(S)
  <2>1. IsFiniteSet(S)
    BY ConnTrackerAssumption, FS_Subset
  <2>2. \A k \in S : sent[k] \in Nat
    BY <1>1
  <2> QED BY <2>1, <2>2, SumIsOwned DEF Bytes
<1>3. active \in SUBSET Conns /\ Failed \in SUBSET Conns /\ Conns \in SUBSET Conns
  BY DEF TypeOK, Failed
<1>4. Known = sumClosed + Bytes(active)
  BY <1>2, <1>3 DEF Known
<1>5. AllSent = Bytes(Conns)
  BY <1>2, <1>3 DEF AllSent
<1>6. Lost = Bytes(Failed)
  BY <1>2, <1>3 DEF Lost, Failed
<1> QED BY <1>4, <1>5, <1>6

\* The types of a scrape are kept by its steps, and not touched by the tracker.
LEMMA ScrapeTypesKept ==
  ASSUME CTypeOK, TypeOK', [CNext]_allVars
  PROVE  CTypeOK'
<1> USE DEF CTypeOK, TypeOK, vars, trackVars, infoVars
<1>1. CASE BeginTcpInfo
  <2>1. Known \in Nat
    <3>1. Bytes(active) \in Nat
      <4>1. \A k \in Conns : sent[k] \in Nat
        BY ConnTrackerAssumption
      <4> QED BY <4>1, BytesAdd DEF Bytes
    <3> QED BY <3>1, KnownIs
  <2> QED BY <1>1, <2>1 DEF BeginTcpInfo
<1>2. ASSUME NEW k \in Conns, AskConn(k)
      PROVE  CTypeOK'
  <2>1. sent[k] \in Nat
    BY ConnTrackerAssumption
  <2>2. (total' = total + sent[k] \/ total' = total) /\ (refused' = refused \/ refused' = TRUE)
    BY <1>2, Zenon DEF AskConn
  <2>3. total' \in Nat
    BY <2>1, <2>2
  <2>4. refused' \in BOOLEAN
    BY <2>2, Zenon
  <2> QED BY <1>2, <2>3, <2>4 DEF AskConn
<1>3. CASE AddClosed
  BY <1>3 DEF AddClosed, Summed
<1>4. CASE CountConns
  BY <1>4 DEF CountConns, Connections
<1>5. CASE Export
  BY <1>5 DEF Export
<1>6. CASE UNCHANGED scrapeVars
  BY <1>6 DEF scrapeVars
<1> QED BY <1>1, <1>2, <1>3, <1>4, <1>5, <1>6 DEF CNext, TrackerStep, ScrapeStep, allVars

\* The variables of a scrape keep their types (Collect, TcpInfo).
THEOREM ScrapeTypes == CSpec => []CTypeOK
<1>1. CInit /\ TypeOK => CTypeOK
  <2> SUFFICES ASSUME CInit, TypeOK
               PROVE  CTypeOK
    OBVIOUS
  <2>1. exported \in [sent : Nat, closed : Nat]
    BY DEF CInit
  <2> QED BY <2>1 DEF CInit, CTypeOK
<1>2. CTypeOK /\ TypeOK' /\ [CNext]_allVars => CTypeOK'
  BY ScrapeTypesKept
<1> QED BY <1>1, <1>2, ScrapedTrackerIsTracker, TrackerTypes, PTL DEF CSpec

\* What a scrape says is worth the same after a step of the tracker.
LEMMA ScrapeInvTracker ==
  ASSUME CTypeOK, CTypeOK', Lives, AskedAreActive, ClosedSent, Totals, StillKnown,
         [Next]_vars, TrackerStep
  PROVE  ClosedSent' /\ Totals' /\ StillKnown'
<1> DEFINE C(S) == Cardinality(Owned(S, sent'))
<1>1. \A k \in Conns : sent[k] \in Nat /\ sent'[k] \in Nat
  BY ConnTrackerAssumption DEF CTypeOK, TypeOK
<1>2. \A S \in SUBSET Conns : Bytes(S) \in Nat
  BY <1>1, BytesAdd DEF Bytes
<1>3. \A S \in SUBSET Conns : C(S) \in Nat
  <2> DEFINE g == sent'
  <2>1. \A k \in Conns : g[k] \in Nat
    BY <1>1
  <2> HIDE DEF g
  <2>2. \A S \in SUBSET Conns : Cardinality(Owned(S, g)) \in Nat
    BY <2>1, BytesAdd
  <2> QED BY <2>2 DEF g
<1>4. /\ ClosedSent'
      /\ \A S \in SUBSET Conns : Bytes(S) <= C(S)
      /\ Bytes(Failed) <= C(Failed')
      /\ sumClosed + Bytes(active) + Bytes(Failed) <= sumClosed' + C(active') + C(Failed')
      /\ closed <= closed'
  BY TrackerGrows DEF CTypeOK, Bytes
<1>5. UNCHANGED <<scraper, unasked, total, refused, counted, exported, knownBefore>>
  BY DEF TrackerStep, scrapeVars
<1>6. scraper = "asking" => active' = active /\ sumClosed' = sumClosed
  BY DEF TrackerStep, ScrapeLocks, LocklessStep, StorePace, SetPacingRate, CheckPace, LoadPace,
         PaceDialed, CloseSocket, Send, trackVars, infoVars
<1>7. /\ active \in SUBSET Conns /\ active' \in SUBSET Conns
      /\ Failed \in SUBSET Conns /\ Failed' \in SUBSET Conns
      /\ unasked \in SUBSET Conns /\ active \ unasked \in SUBSET Conns
      /\ Conns \in SUBSET Conns
      /\ sumClosed \in Nat /\ sumClosed' \in Nat /\ closed \in Nat /\ closed' \in Nat
      /\ total \in Nat /\ counted \in Nat /\ knownBefore \in Nat
      /\ exported.sent \in Nat /\ exported.closed \in Nat
  BY DEF CTypeOK, TypeOK, Failed
<1>8. Totals'
  <2> SUFFICES
        /\ scraper = "asking" =>
             /\ total <= C(active \ unasked)
             /\ ~ refused => knownBefore <= total + C(unasked) + sumClosed
        /\ scraper \in {"counting", "exporting"} =>
             /\ knownBefore <= total
             /\ total <= C(Conns)
             /\ total <= sumClosed' + C(active') + C(Failed')
    BY <1>5, <1>6 DEF Totals, Bytes
  <2> HIDE DEF C
  <2>1. CASE scraper = "asking"
    <3>1. /\ Bytes(active \ unasked) \in Nat /\ C(active \ unasked) \in Nat
          /\ Bytes(active \ unasked) <= C(active \ unasked)
          /\ Bytes(unasked) \in Nat /\ C(unasked) \in Nat /\ Bytes(unasked) <= C(unasked)
      BY <1>2, <1>3, <1>4, <1>7
    <3> QED BY <1>7, <2>1, <3>1 DEF Totals
  <2>2. CASE scraper \in {"counting", "exporting"}
    <3>1. /\ Bytes(Conns) \in Nat /\ C(Conns) \in Nat /\ Bytes(Conns) <= C(Conns)
          /\ Bytes(active) \in Nat /\ C(active') \in Nat
          /\ Bytes(Failed) \in Nat /\ C(Failed') \in Nat
      BY <1>2, <1>3, <1>4, <1>7
    <3> QED BY <1>4, <1>7, <2>2, <3>1 DEF Totals
  <2> QED BY <2>1, <2>2
<1>9. StillKnown'
  <2> SUFFICES
        /\ exported.sent <= sumClosed' + C(active') + C(Failed')
        /\ scraper # "idle" => exported.sent <= knownBefore + C(Failed')
        /\ exported.closed <= closed'
        /\ scraper = "exporting" => exported.closed <= counted /\ counted <= closed'
    BY <1>5 DEF StillKnown, Bytes
  <2> HIDE DEF C
  <2>1. /\ Bytes(active) \in Nat /\ C(active') \in Nat
        /\ Bytes(Failed) \in Nat /\ C(Failed') \in Nat
    BY <1>2, <1>3, <1>7
  <2> QED BY <1>4, <1>7, <2>1 DEF StillKnown
<1> QED BY <1>4, <1>8, <1>9

\* What a scrape says is worth it after each step of the scrape.
LEMMA ScrapeInvScrape ==
  ASSUME CTypeOK, CTypeOK', Lives, AskedAreActive, ClosedSent, Totals, StillKnown, ScrapeStep
  PROVE  ClosedSent' /\ Totals' /\ StillKnown'
<1>1. UNCHANGED vars
  BY DEF ScrapeStep, BeginTcpInfo, AskConn, AddClosed, CountConns, Export
<1>2. /\ ClosedSent'
      /\ \A S : Bytes(S)' = Bytes(S)
      /\ UNCHANGED <<active, sumClosed, closed, Failed, sent>>
  BY <1>1 DEF ClosedSent, Bytes, Failed, Marked, vars, dialVars, trackVars, infoVars
<1>3. \A k \in Conns : sent[k] \in Nat
  BY ConnTrackerAssumption DEF CTypeOK, TypeOK
<1>4. /\ \A S \in SUBSET Conns : \A T \in SUBSET S :
           Bytes(S) \in Nat /\ Bytes(T) \in Nat /\ Bytes(T) <= Bytes(S)
      /\ \A S, T \in SUBSET Conns : S \cap T = {} => Bytes(S \cup T) = Bytes(S) + Bytes(T)
      /\ \A S \in SUBSET Conns : \A k \in S : Bytes(S \ {k}) = Bytes(S) - sent[k]
  BY <1>3, BytesAdd DEF Bytes
<1>5. /\ active \in SUBSET Conns /\ Failed \in SUBSET Conns /\ Marked \in SUBSET Conns
      /\ unasked \in SUBSET Conns /\ active \ unasked \in SUBSET Conns
      /\ Conns \in SUBSET Conns /\ {} \in SUBSET Conns
      /\ sumClosed \in Nat /\ closed \in Nat
      /\ total \in Nat /\ counted \in Nat /\ knownBefore \in Nat
      /\ exported.sent \in Nat /\ exported.closed \in Nat
  BY DEF CTypeOK, TypeOK, Failed, Marked
<1>6. /\ Bytes(active) \in Nat /\ Bytes(Failed) \in Nat /\ Bytes(unasked) \in Nat
      /\ Bytes(active \ unasked) \in Nat /\ Bytes(Marked) \in Nat /\ Bytes(Conns) \in Nat
      /\ Bytes({}) = 0
  <2>1. Bytes({}) = 0
    BY NoOwner DEF Bytes
  <2>2. \A S \in SUBSET Conns : Bytes(S) \in Nat
    BY <1>4
  <2> QED BY <1>5, <2>1, <2>2
<1>7. Totals' <=>
        /\ scraper' = "asking" =>
             /\ total' <= Bytes(active \ unasked')
             /\ ~ refused' => knownBefore' <= total' + Bytes(unasked') + sumClosed
        /\ scraper' \in {"counting", "exporting"} =>
             /\ knownBefore' <= total'
             /\ total' <= Bytes(Conns)
             /\ total' <= sumClosed + Bytes(active) + Bytes(Failed)
  BY <1>2 DEF Totals, Bytes
<1>8. StillKnown' <=>
        /\ exported'.sent <= sumClosed + Bytes(active) + Bytes(Failed)
        /\ scraper' # "idle" => exported'.sent <= knownBefore' + Bytes(Failed)
        /\ exported'.closed <= closed
        /\ scraper' = "exporting" => exported'.closed <= counted' /\ counted' <= closed
  BY <1>2 DEF StillKnown, Bytes
<1>9. CASE BeginTcpInfo
  <2>1. knownBefore' = sumClosed + Bytes(active)
    BY <1>9, KnownIs DEF BeginTcpInfo, CTypeOK
  <2>2. active \ unasked' = {} /\ unasked' = active
    BY <1>9 DEF BeginTcpInfo
  <2>3. Totals'
    BY <1>5, <1>6, <1>7, <1>9, <2>1, <2>2 DEF BeginTcpInfo
  <2>4. StillKnown'
    BY <1>5, <1>6, <1>8, <1>9, <2>1 DEF BeginTcpInfo, StillKnown
  <2> QED BY <1>2, <2>3, <2>4
<1>10. ASSUME NEW k \in Conns, AskConn(k)
       PROVE  Totals' /\ StillKnown'
  <2>1. scraper = "asking" /\ k \in unasked /\ unasked' = unasked \ {k} /\ k \in active
    BY <1>10 DEF AskConn, AskedAreActive
  <2>2. sent[k] \in Nat /\ Bytes(unasked') = Bytes(unasked) - sent[k]
    BY <1>3, <1>4, <1>5, <2>1
  <2>3. Bytes(active \ unasked') = Bytes(active \ unasked) + sent[k]
    <3>1. active \ unasked = (active \ unasked') \ {k} /\ k \in active \ unasked'
      BY <2>1
    <3>2. active \ unasked' \in SUBSET Conns
      BY <1>5
    <3>3. Bytes((active \ unasked') \ {k}) = Bytes(active \ unasked') - sent[k]
      BY <1>4, <3>1, <3>2
    <3>4. Bytes(active \ unasked') \in Nat
      BY <1>4, <3>2
    <3> HIDE <3>1
    <3>5. Bytes(active \ unasked) = Bytes(active \ unasked') - sent[k]
      BY <3>1, <3>3
    <3> QED BY <1>6, <2>2, <3>4, <3>5
  <2>4. /\ \/ total' = total + sent[k] /\ refused' = refused
           \/ total' = total /\ refused'
        /\ scraper' = "asking" /\ knownBefore' = knownBefore
        /\ exported' = exported /\ counted' = counted
    BY <1>10, <2>1 DEF AskConn
  <2>5. Totals'
    BY <1>5, <1>6, <1>7, <2>1, <2>2, <2>3, <2>4 DEF Totals
  <2>6. StillKnown'
    BY <1>5, <1>6, <1>8, <2>1, <2>4 DEF StillKnown
  <2> QED BY <2>5, <2>6
<1>11. CASE AddClosed
  <2>1. scraper = "asking" /\ active \ unasked = active /\ unasked = {}
    BY <1>11 DEF AddClosed
  <2>2. Bytes(active) + Bytes(Marked) <= Bytes(Conns)
    <3>1. active \cap Marked = {}
      BY DEF Lives, Marked, Mapped
    <3>2. active \cup Marked \in SUBSET Conns
      BY <1>5
    <3>3. Bytes(active \cup Marked) <= Bytes(Conns)
      BY <1>4, <3>2
    <3> QED BY <1>4, <1>5, <3>1, <3>3
  <2>3. total <= Bytes(active) /\ sumClosed <= Bytes(Marked)
    BY <2>1 DEF Totals, ClosedSent
  <2>4. ~ refused => knownBefore <= total + sumClosed
    BY <1>5, <1>6, <2>1 DEF Totals
  <2>5. /\ total' = total + sumClosed
        /\ scraper' = IF refused THEN "idle" ELSE "counting"
        /\ knownBefore' = knownBefore /\ exported' = exported /\ counted' = counted
    BY <1>11 DEF AddClosed, Summed
  <2>6. Totals'
    BY <1>5, <1>6, <1>7, <2>2, <2>3, <2>4, <2>5
  <2>7. StillKnown'
    BY <1>5, <1>6, <1>8, <2>1, <2>5 DEF StillKnown
  <2> QED BY <1>2, <2>6, <2>7
<1>12. CASE CountConns
  <2>1. Totals'
    BY <1>7, <1>12 DEF CountConns, Totals
  <2>2. StillKnown'
    BY <1>5, <1>8, <1>12 DEF CountConns, Connections, StillKnown
  <2> QED BY <1>2, <2>1, <2>2
<1>13. CASE Export
  <2>1. Totals'
    BY <1>7, <1>13 DEF Export
  <2>2. StillKnown'
    BY <1>5, <1>8, <1>13 DEF Export, Totals, StillKnown
  <2> QED BY <1>2, <2>1, <2>2
<1> QED BY <1>2, <1>9, <1>10, <1>11, <1>12, <1>13 DEF ScrapeStep

\* What was asked, kept, totalled and exported fits together in every state.
THEOREM ScrapeInvariant == CSpec => [](ClosedSent /\ Totals /\ StillKnown)
<1>1. CInit => ClosedSent /\ Totals /\ StillKnown
  <2> SUFFICES ASSUME CInit
               PROVE  ClosedSent /\ Totals /\ StillKnown
    OBVIOUS
  <2>1. /\ Marked = {} /\ Failed = {} /\ active = {}
        /\ sumClosed = 0 /\ closed = 0
        /\ scraper = "idle" /\ exported.sent = 0 /\ exported.closed = 0
    BY DEF CInit, Init, InitPaced, Marked, Failed
  <2>2. Bytes({}) = 0
    BY NoOwner DEF Bytes
  <2> QED BY <2>1, <2>2 DEF ClosedSent, Totals, StillKnown
<1>2. /\ CTypeOK /\ CTypeOK' /\ Lives /\ AskedAreActive /\ [Next]_vars
      /\ ClosedSent /\ Totals /\ StillKnown /\ [CNext]_allVars
      => (ClosedSent /\ Totals /\ StillKnown)'
  <2> SUFFICES ASSUME CTypeOK, CTypeOK', Lives, AskedAreActive, [Next]_vars,
                      ClosedSent, Totals, StillKnown, [CNext]_allVars
               PROVE  ClosedSent' /\ Totals' /\ StillKnown'
    OBVIOUS
  <2>1. CASE UNCHANGED allVars
    BY <2>1 DEF allVars, scrapeVars, vars, dialVars, trackVars, infoVars, ClosedSent, Totals,
                StillKnown, Bytes, Marked, Failed
  <2> QED BY <2>1, ScrapeInvTracker, ScrapeInvScrape DEF CNext
<1> QED BY <1>1, <1>2, ScrapeTypes, AlwaysAsksActive, TrackerInvariant, ScrapedTrackerIsTracker,
           PTL DEF CSpec, Spec

\* What a scrape exports is between what was known when it began and what the
\* sockets have sent (TcpInfo, Collect).
THEOREM ScrapeAlwaysTrue == CSpec => ScrapeTrue
<1>1. CTypeOK /\ Totals /\ [CNext]_allVars
      => [exported' # exported => exported'.sent \in knownBefore..AllSent]_allVars
  <2> SUFFICES ASSUME CTypeOK, Totals, [CNext]_allVars, exported' # exported
               PROVE  exported'.sent \in knownBefore..AllSent
    OBVIOUS
  <2>1. Export
    BY DEF CNext, TrackerStep, ScrapeStep, BeginTcpInfo, AskConn, AddClosed, CountConns,
           allVars, scrapeVars
  <2>2. exported'.sent = total /\ knownBefore <= total /\ total <= AllSent
    BY <2>1, KnownIs DEF Export, Totals, CTypeOK
  <2>3. AllSent \in Nat
    <3>1. \A k \in Conns : sent[k] \in Nat
      BY ConnTrackerAssumption DEF CTypeOK, TypeOK
    <3> QED BY <3>1, BytesAdd, KnownIs DEF Bytes, CTypeOK
  <2> QED BY <2>2, <2>3 DEF CTypeOK
<1> QED BY <1>1, ScrapeTypes, ScrapeInvariant, PTL DEF CSpec, ScrapeTrue

\* The exported counters never go back, but for what a failed TCP_INFO has lost
\* (Collect, markClosed).
THEOREM ScrapeAlwaysMonotone == CSpec => ScrapeMonotone
<1>1. CTypeOK /\ Totals /\ StillKnown /\ [CNext]_allVars
      => [exported'.closed >= exported.closed /\ exported'.sent >= exported.sent - Lost]_allVars
  <2> SUFFICES ASSUME CTypeOK, Totals, StillKnown, [CNext]_allVars
               PROVE  exported'.closed >= exported.closed /\ exported'.sent >= exported.sent - Lost
    OBVIOUS
  <2>1. Lost = Bytes(Failed) /\ Bytes(Failed) \in Nat
    <3>1. \A k \in Conns : sent[k] \in Nat
      BY ConnTrackerAssumption DEF CTypeOK, TypeOK
    <3>2. Failed \in SUBSET Conns
      BY DEF Failed
    <3> QED BY <3>1, <3>2, BytesAdd, KnownIs DEF Bytes, CTypeOK
  <2>2. /\ exported.sent \in Nat /\ exported.closed \in Nat
        /\ total \in Nat /\ knownBefore \in Nat /\ counted \in Nat
    BY DEF CTypeOK
  <2>3. CASE Export
    <3>1. exported'.sent = total /\ exported'.closed = counted /\ scraper = "exporting"
      BY <2>3 DEF Export
    <3> QED BY <2>1, <2>2, <3>1 DEF Totals, StillKnown
  <2>4. CASE exported' = exported
    BY <2>1, <2>2, <2>4
  <2>5. Export \/ exported' = exported
    BY DEF CNext, TrackerStep, ScrapeStep, BeginTcpInfo, AskConn, AddClosed, CountConns,
           allVars, scrapeVars
  <2> QED BY <2>3, <2>4, <2>5
<1> QED BY <1>1, ScrapeTypes, ScrapeInvariant, PTL DEF CSpec, ScrapeMonotone
=============================================================================
