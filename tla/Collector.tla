----------------------------- MODULE Collector -----------------------------
(***************************************************************************)
(* collector/collector.go: a scrape of /metrics. Collect asks every active *)
(* connection for its TCP_INFO (ConnTracker.TcpInfo, which holds mu all    *)
(* the while, as Monkey does), then counts the connections, which takes mu *)
(* again, and then hands the numbers to Prometheus. Sockets go on sending  *)
(* under the lock, and between its two critical sections connections come  *)
(* and go.                                                                 *)
(*                                                                         *)
(* The gauges are not kept: a gauge is whatever it was at some moment of   *)
(* the scrape. One field stands for all the counters of TCP_INFO. The      *)
(* scrapes of one Prometheus server follow each other.                     *)
(***************************************************************************)
EXTENDS ConnTracker

VARIABLES
  scraper,     \* where Collect is
  unasked,     \* the connections the loop of TcpInfo has still to ask
  total,       \* tcpInfoSum
  refused,     \* len(errs) > 0 in TcpInfo
  counted,     \* Closed of what Connections() returned
  exported,    \* the counters of the last scrape
  knownBefore  \* history: what the tracker knew when the scrape began

scrapeVars == <<scraper, unasked, total, refused, counted, exported, knownBefore>>
allVars == <<vars, scrapeVars>>

\* What an instantaneous scrape would export: the bytes sent on the active
\* connections and those that the closed ones had sent when they were closed.
Known == sumClosed + MapThenSumSet(LAMBDA k : sent[k], active)

\* Everything the sockets have sent.
AllSent == MapThenSumSet(LAMBDA k : sent[k], Conns)

CInit ==
  /\ Init
  /\ scraper = "idle"
  /\ unasked = {}
  /\ total = 0
  /\ refused = FALSE
  /\ counted = 0
  /\ exported = [sent |-> 0, closed |-> 0]
  /\ knownBefore = 0

\* TcpInfo: Monkey takes mu and calls the function.
BeginTcpInfo ==
  /\ scraper = "idle"
  /\ scraper' = "asking"
  /\ unasked' = active
  /\ total' = 0
  /\ refused' = FALSE
  /\ knownBefore' = Known
  /\ UNCHANGED <<vars, counted, exported>>

\* conn.tcpInfo() of one connection, in the order of a Go map: an error is
\* remembered and the loop goes on.
AskConn(k) ==
  /\ k \in unasked
  /\ unasked' = unasked \ {k}
  /\ \/ k \in open /\ total' = total + sent[k] /\ UNCHANGED refused
     \/ (TcpInfoMayFail \/ k \notin open) /\ refused' = TRUE /\ UNCHANGED total
  /\ UNCHANGED <<vars, scraper, counted, exported, knownBefore>>

\* A wrong Summed: the closed connections are taken off.
SummedBackwards == sumClosed - total

\* tcpInfoSum with the closed connections.
Summed == total + sumClosed

\* After the loop the closed connections are added and mu is released. With an
\* error the scrape ends: none of the tracker's metrics is exported.
AddClosed ==
  /\ scraper = "asking"
  /\ unasked = {}
  /\ total' = Summed
  /\ scraper' = IF refused THEN "idle" ELSE "counting"
  /\ UNCHANGED <<vars, unasked, refused, counted, exported, knownBefore>>

\* Connections()
CountConns ==
  /\ scraper = "counting"
  /\ counted' = Connections.closed
  /\ scraper' = "exporting"
  /\ UNCHANGED <<vars, unasked, total, refused, exported, knownBefore>>

\* The loops that send the metrics; the locals of Collect are gone with it.
Export ==
  /\ scraper = "exporting"
  /\ exported' = [sent |-> total, closed |-> counted]
  /\ scraper' = "idle"
  /\ total' = 0 /\ counted' = 0 /\ knownBefore' = 0
  /\ UNCHANGED <<vars, unasked, refused>>

\* A wrong ScrapeLocks: TcpInfo copies the map and goes through it without mu.
ScrapeCopies == FALSE

\* Whether the scrape holds mu.
ScrapeLocks == scraper = "asking"

TrackerStep ==
  /\ (~ScrapeLocks /\ LockingStep) \/ LocklessStep
  /\ UNCHANGED scrapeVars

ScrapeStep ==
  BeginTcpInfo \/ (\E k \in Conns : AskConn(k)) \/ AddClosed \/ CountConns \/ Export

CNext == TrackerStep \/ ScrapeStep

CSpec == CInit /\ [][CNext]_allVars

-----------------------------------------------------------------------------
CTypeOK ==
  /\ TypeOK
  /\ scraper \in {"idle", "asking", "counting", "exporting"}
  /\ unasked \subseteq Conns
  /\ total \in Nat
  /\ refused \in BOOLEAN
  /\ counted \in Nat
  /\ exported \in [sent : Nat, closed : Nat]
  /\ knownBefore \in Nat

\* A connection that TcpInfo is about to ask is open: a scrape fails when the
\* kernel refuses TCP_INFO, and never because a connection was closed under it
\* (Monkey holds mu; Close goes through mu before it closes the descriptor).
NeverAsksClosed == unasked \subseteq open

\* What a scrape exports is true: no less than what the tracker knew when it
\* began, no more than what the sockets have sent by now. A connection that is
\* closed while a scrape runs is in its total once: it cannot pass from the
\* active ones to the sum of the closed ones while TcpInfo has mu.
ScrapeTrue ==
  [][exported' # exported => exported'.sent \in knownBefore..AllSent]_allVars

\* The exported counters never go backwards, as those of Prometheus must not
\* (conn_closed_total and the sums of TCP_INFO): what a connection sent is in
\* the sum of the closed ones from the moment it is no longer active
\* (markClosed). What a failed TCP_INFO on close has lost is the exception.
ScrapeMonotone ==
  [][exported'.closed >= exported.closed /\ exported'.sent >= exported.sent - Lost]_allVars
=============================================================================
