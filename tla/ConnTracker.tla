---------------------------- MODULE ConnTracker ----------------------------
(***************************************************************************)
(* conntracker/conntracker.go: tracks every TCP connection the HTTP        *)
(* transport dials to S3, sets the packet pacing rate (SO_MAX_PACING_RATE) *)
(* on all of them and sums their TCP_INFO counters.                        *)
(*                                                                         *)
(* The mutex mu protects the map of active connections and the counters of *)
(* closed ones, so a critical section is one action; the pacing rate is an *)
(* atomic outside the mutex, so its loads and stores are actions of their  *)
(* own, and so is the setsockopt of a dialing goroutine, which holds no    *)
(* lock.                                                                   *)
(***************************************************************************)
EXTENDS Integers, FiniteSets, FiniteSetsExt

CONSTANTS
  Conns,             \* connections; each is dialed at most once
  Setters,           \* the goroutines that call SetPacingRate
  Paces,             \* the rates they ask for
  PaceWidth,         \* 2^32: SetsockoptInt truncates its value to 32 bits
  MaxSent,           \* bound: the bytes a connection sends
  SetsockoptMayFail, \* whether setsockopt may return an error
  TcpInfoMayFail     \* whether getsockopt(TCP_INFO) may return an error

ASSUME ConnTrackerAssumption ==
  /\ IsFiniteSet(Conns)
  /\ Paces \subseteq Nat \ {0}
  /\ PaceWidth \in Nat \ {0}
  /\ MaxSent \in Nat
  /\ SetsockoptMayFail \in BOOLEAN
  /\ TcpInfoMayFail \in BOOLEAN

VARIABLES
  uploadPace,  \* the atomic uploadPace; 0: no rate was ever set
  setter,      \* where each setter is in SetPacingRate
  target,      \* the argument of its call
  dial,        \* where the DialContext of each connection is
  loaded,      \* the rate DialContext has loaded for its setsockopt
  sockPace,    \* the rate in force on each socket; Unpaced: none was set
  active,      \* the map of active connections
  open,        \* the connections whose descriptor is open
  closed,      \* the number of closed connections
  sent,        \* TCP_INFO of each socket, as the bytes it has sent
  sumClosed,   \* tcpInfoSumClosed
  failed       \* history: the system calls that failed, by connection

pacingVars == <<uploadPace, setter, target>>
dialVars == <<dial, loaded>>
trackVars == <<active, open, closed>>
infoVars == <<sent, sumClosed>>
vars == <<pacingVars, dialVars, sockPace, trackVars, infoVars, failed>>

Unpaced == -1

\* NewConnTracker stores no rate; the handler sets one before the first dial.
InitPaced(pace) ==
  /\ uploadPace = pace
  /\ setter = [t \in Setters |-> "idle"]
  /\ target = [t \in Setters |-> 0]
  /\ dial = [k \in Conns |-> "none"]
  /\ loaded = [k \in Conns |-> 0]
  /\ sockPace = [k \in Conns |-> Unpaced]
  /\ active = {}
  /\ open = {}
  /\ closed = 0
  /\ sent = [k \in Conns |-> 0]
  /\ sumClosed = 0
  /\ failed = {}

Init == InitPaced(0)

At(t, place) == setter' = [setter EXCEPT ![t] = place]
Dialing(k, place) == dial' = [dial EXCEPT ![k] = place]

\* What setsockopt puts on a socket: the value cut to the width of a C int.
OnSocket(pace) == pace % PaceWidth

\* The connections on which a round of setsockopt may fail.
MayFail(conns) == IF SetsockoptMayFail THEN SUBSET conns ELSE {{}}

-----------------------------------------------------------------------------
\* A wrong IsCurrent: the rate is only ever lowered.
NotLower(pace) == pace >= uploadPace /\ uploadPace # 0

\* Whether there is nothing to set.
IsCurrent(pace) == pace = uploadPace

\* SetPacingRate compares with the current rate and returns when it is equal.
SetPacingRate(t, pace) ==
  /\ setter[t] = "idle"
  /\ IF IsCurrent(pace)
     THEN UNCHANGED <<setter, target>>
     ELSE target' = [target EXCEPT ![t] = pace] /\ At(t, "storing")
  /\ UNCHANGED <<uploadPace, dialVars, sockPace, trackVars, infoVars, failed>>

\* The rate becomes that of the call.
StorePace(t) ==
  /\ setter[t] = "storing"
  /\ uploadPace' = target[t]
  /\ At(t, "applying")
  /\ UNCHANGED <<target, dialVars, sockPace, trackVars, infoVars, failed>>

\* Monkey, with mu held: the rate of the call, not the rate stored by now. A
\* connection whose setsockopt fails is skipped and keeps its rate.
ApplyPace(t) ==
  /\ setter[t] = "applying"
  /\ \E missed \in MayFail(active) :
       /\ sockPace' = [k \in Conns |-> IF k \in active \ missed
                                       THEN OnSocket(target[t]) ELSE sockPace[k]]
       /\ failed' = failed \cup (missed \X {"setsockopt"})
  /\ At(t, "idle")
  /\ UNCHANGED <<uploadPace, target, dialVars, trackVars, infoVars>>

-----------------------------------------------------------------------------
\* A wrong Entered: the connection is used but not entered in the map.
EnteredNothing(k) == active

\* The map with a connection that was just dialed.
Entered(k) == active \cup {k}

\* DialContext: the dialer has connected, the connection enters the map.
Track(k) ==
  /\ dial[k] = "none"
  /\ active' = Entered(k)
  /\ open' = open \cup {k}
  /\ Dialing(k, "tracked")
  /\ UNCHANGED <<pacingVars, loaded, sockPace, closed, infoVars, failed>>

\* if t.PacingRate() > 0: without a rate the connection is handed over as it is.
CheckPace(k) ==
  /\ dial[k] = "tracked"
  /\ Dialing(k, IF uploadPace > 0 THEN "checked" ELSE "ready")
  /\ UNCHANGED <<pacingVars, loaded, sockPace, trackVars, infoVars, failed>>

\* The second load of the rate, the argument of setPacingRate.
LoadPace(k) ==
  /\ dial[k] = "checked"
  /\ loaded' = [loaded EXCEPT ![k] = uploadPace]
  /\ Dialing(k, "setting")
  /\ UNCHANGED <<pacingVars, sockPace, trackVars, infoVars, failed>>

\* setsockopt, without the lock. On an error DialContext returns the connection
\* and the error, and the transport drops both: nobody will close it.
PaceDialed(k) ==
  /\ dial[k] = "setting"
  /\ \/ /\ sockPace' = [sockPace EXCEPT ![k] = OnSocket(loaded[k])]
        /\ Dialing(k, "ready")
        /\ UNCHANGED failed
     \/ /\ SetsockoptMayFail
        /\ Dialing(k, "dropped")
        /\ failed' = failed \cup {<<k, "setsockopt">>}
        /\ UNCHANGED sockPace
  /\ UNCHANGED <<pacingVars, loaded, trackVars, infoVars>>

-----------------------------------------------------------------------------
\* A wrong Kept: what the connection has sent is dropped with it.
Forgotten(k) == sumClosed

\* The sum of the closed connections with one more.
Kept(k) == sumClosed + sent[k]

\* Close, first half: once.Do(markClosed), with mu held. A failing TCP_INFO is
\* logged and its counters are left out of the sum.
MarkClosed(k) ==
  /\ dial[k] = "ready"
  /\ \/ sumClosed' = Kept(k) /\ UNCHANGED failed
     \/ /\ TcpInfoMayFail
        /\ failed' = failed \cup {<<k, "TCP_INFO">>}
        /\ UNCHANGED sumClosed
  /\ active' = active \ {k}
  /\ closed' = closed + 1
  /\ Dialing(k, "closing")
  /\ UNCHANGED <<pacingVars, loaded, sockPace, open, sent>>

\* A wrong MarkedClosed: the descriptor may be closed before the connection leaves the map.
MarkedOrNot(k) == dial[k] \in {"ready", "closing"}

\* markClosed has returned.
MarkedClosed(k) == dial[k] = "closing"

\* Close, second half: the embedded Conn.Close(). A further Close finds the
\* sync.Once done and the descriptor closed: it changes nothing.
CloseSocket(k) ==
  /\ MarkedClosed(k)
  /\ open' = open \ {k}
  /\ Dialing(k, "closed")
  /\ UNCHANGED <<pacingVars, loaded, sockPace, active, closed, infoVars, failed>>

\* The transport sends on a connection it was given; the kernel goes on with
\* what is buffered until the descriptor is closed.
Send(k) ==
  /\ dial[k] \in {"ready", "closing"}
  /\ sent[k] < MaxSent
  /\ sent' = [sent EXCEPT ![k] = @ + 1]
  /\ UNCHANGED <<pacingVars, dialVars, sockPace, trackVars, sumClosed, failed>>

\* The steps that take mu: they wait while somebody else holds it.
LockingStep ==
  \/ \E t \in Setters : ApplyPace(t)
  \/ \E k \in Conns : Track(k) \/ MarkClosed(k)

LocklessStep ==
  \/ \E t \in Setters : StorePace(t) \/ \E pace \in Paces : SetPacingRate(t, pace)
  \/ \E k \in Conns : \/ CheckPace(k)
                      \/ LoadPace(k)
                      \/ PaceDialed(k)
                      \/ CloseSocket(k)
                      \/ Send(k)

Next == LockingStep \/ LocklessStep

Spec == Init /\ [][Next]_vars

-----------------------------------------------------------------------------
TypeOK ==
  /\ uploadPace \in Nat
  /\ setter \in [Setters -> {"idle", "storing", "applying"}]
  /\ target \in [Setters -> Nat]
  /\ dial \in [Conns -> {"none", "tracked", "checked", "setting", "ready",
                         "dropped", "closing", "closed"}]
  /\ loaded \in [Conns -> Nat]
  /\ sockPace \in [Conns -> Nat \cup {Unpaced}]
  /\ active \subseteq Conns
  /\ open \subseteq Conns
  /\ closed \in Nat
  /\ sent \in [Conns -> 0..MaxSent]
  /\ sumClosed \in Nat
  /\ failed \subseteq Conns \X {"setsockopt", "TCP_INFO"}

\* Connections(), with mu held.
Connections == [active |-> Cardinality(active), closed |-> closed]

\* A connection that was dialed is counted once, as active or as closed, at
\* every moment of its life and however a scrape falls between the two halves
\* of a Close; the sum of the two exported numbers never goes back. One that
\* DialContext returned with an error counts as active for ever.
ConnectionsExact ==
  Connections.active + Connections.closed = Cardinality({k \in Conns : dial[k] # "none"})

\* A connection in the map has an open descriptor, so that setsockopt and
\* TCP_INFO never hit a descriptor that is closed or was given to somebody
\* else: Close takes it out of the map first (Close, markClosed).
ActiveAreOpen == active \subseteq open

\* What the connections had sent whose TCP_INFO failed when they were closed.
Lost == MapThenSumSet(LAMBDA k : sent[k], {k \in Conns : <<k, "TCP_INFO">> \in failed})

\* No call that sets a rate and no dial is in progress.
AtRest ==
  /\ \A t \in Setters : setter[t] = "idle"
  /\ \A k \in Conns : dial[k] \notin {"tracked", "checked", "setting"}

\* At rest, once a rate was set, no connection in use is without one, unless
\* the kernel refused it. A dial
\* that finds no rate is in the map before it looks, and a setter stores the
\* rate before it goes through the map: one of the two always reaches the
\* socket (DialContext:136-142, SetPacingRate:65-69).
NoneUnpaced ==
  AtRest /\ uploadPace > 0 =>
    \A k \in Conns :
      dial[k] = "ready" /\ <<k, "setsockopt">> \notin failed => sockPace[k] # Unpaced

\* At rest the rate on every socket in use is the one PacingRate returns and
\* the collector exports as "the current SO_MAX_PACING_RATE set on active
\* upload sockets" (collector.go:35). Two setters may store in one order and
\* go through the map in the other, and a dial may set a rate it loaded before
\* a setter went through the map.
GaugeTellsSockets ==
  AtRest =>
    \A k \in Conns : dial[k] = "ready" /\ uploadPace > 0 => sockPace[k] = uploadPace
=============================================================================
