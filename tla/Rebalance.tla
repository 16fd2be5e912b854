----------------------------- MODULE Rebalance -----------------------------
(***************************************************************************)
(* The two updates of the pacing rate in doServeHTTP (handler.go:564-576)  *)
(* with the connections they pace: an upload takes its slots, updates the  *)
(* rate, transfers, gives the slots back and updates the rate again.       *)
(* What a request is otherwise (parsing, queueing, attempts, the answer)   *)
(* is in Upload.                                                           *)
(***************************************************************************)
EXTENDS Pacing

CONSTANT PartCounts   \* how many slots an upload may need

ASSUME RebalanceAssumption ==
  /\ IsFiniteSet(Updaters)
  /\ PartCounts \subseteq Nat \ {0}

VARIABLES
  phase,   \* where each upload is
  holds,   \* the slots it holds
  lone     \* history: the upload whose update, the last to begin, overlaps no other

allVars == <<vars, count, phase, holds, lone>>

RInit ==
  /\ Init
  /\ count = 0
  /\ phase = [u \in Updaters |-> "queued"]
  /\ holds = [u \in Updaters |-> 0]
  /\ lone = {}

Phase(u, p) == phase' = [phase EXCEPT ![u] = p]

\* A goroutine that panicked is recovered by net/http and makes no more steps.
Updating(u) == phase[u] \in {"starting", "ending"} /\ ~Panicked(u)

\* Changing the count is what an update follows.
BeginUpdate(u) == lone' = IF \E v \in Updaters \ {u} : Updating(v) THEN {} ELSE {u}

\* Acquire has returned nil, or TryAcquire true.
TakeSlots(u) ==
  /\ phase[u] = "queued"
  /\ \E n \in PartCounts :
       /\ count + n <= MaxSlots
       /\ count' = count + n
       /\ holds' = [holds EXCEPT ![u] = n]
  /\ Phase(u, "starting")
  /\ BeginUpdate(u)
  /\ UNCHANGED vars

\* updatePacingRate of line 576, and the deferred one of line 564.
RunUpdate(u) == Updating(u) /\ UpdateStep(u) /\ UNCHANGED <<phase, holds, lone>>

Updated(u) ==
  /\ UpdateReturns(u)
  /\ \/ phase[u] = "starting" /\ Phase(u, "transferring")
     \/ phase[u] = "ending" /\ Phase(u, "done")
  /\ UNCHANGED <<count, holds, lone>>

\* A wrong GivenBack: the slots are given back twice.
GivenBackTwice(u) == 2 * holds[u]

\* A wrong GivenBack: everybody's slots are given back.
AllGivenBack(u) == count

\* The argument of Release: UploadParts, as it was for Acquire.
GivenBack(u) == holds[u]

\* uploadFileMultipart is over: the deferred Release runs before the deferred
\* updatePacingRate.
GiveSlotsBack(u) ==
  /\ phase[u] = "transferring"
  /\ count' = count - GivenBack(u)
  /\ holds' = [holds EXCEPT ![u] = 0]
  /\ Phase(u, "ending")
  /\ BeginUpdate(u)
  /\ UNCHANGED vars

\* Only a transfer makes the transport dial, but a dial may outlive the request
\* it was made for, and be kept for a later one. Everything else the transport
\* does to a connection may come at any time.
Transport(k) ==
  /\ ConnStep(k)
  /\ dial[k] = "none" => \E u \in Updaters : phase[u] \in {"transferring", "ending", "done"}
  /\ UNCHANGED <<phase, holds, lone>>

Over(u) == phase[u] = "done" \/ Panicked(u)

Finished == (\A u \in Updaters : Over(u)) /\ UNCHANGED allVars

RNext ==
  \/ \E u \in Updaters :
       TakeSlots(u) \/ RunUpdate(u) \/ Updated(u) \/ GiveSlotsBack(u)
  \/ \E k \in Conns : Transport(k)
  \/ Finished

RSpec == RInit /\ [][RNext]_allVars

-----------------------------------------------------------------------------
RTypeOK ==
  /\ TypeOK
  /\ count \in 0..MaxSlots
  /\ phase \in [Updaters -> {"queued", "starting", "transferring", "ending", "done"}]
  /\ holds \in [Updaters -> 0..MaxSlots]
  /\ lone \subseteq Updaters

\* The update an upload makes while it holds its slots never divides by zero:
\* its own slots keep the count positive between the two loads (line 576). Only
\* the update after the release is exposed.
HolderNeverPanics == \A u \in Updaters : Panicked(u) => phase[u] = "ending"

\* No update divides by zero: the load of the count in line 734 is there to
\* "avoid div by zero" (line 733), and line 737 loads it again.
NoDivisionByZero == \A u \in Updaters : ~Panicked(u)

\* With a limit no connection in use is ever without a rate, whatever updates
\* and dials overlap: the rate is set "before the first conn is established"
\* (line 397), it is never 0 again, and no share of a limit is 0.
PacedFromTheStart ==
  BwLimitBytes # 0 => \A k \in Conns : dial[k] = "ready" => sockPace[k] > 0

\* No update is in progress or about to start.
Settled == \A u \in Updaters : ~Updating(u)

\* A wrong rate does not last: when the last update to begin overlapped no
\* other, it has left exactly the share of the slots that are taken. Uploads
\* that come and go one after the other are paced exactly.
LoneUpdateExact ==
  Settled /\ lone # {} /\ BwLimitBytes # 0 =>
    uploadPace = IF count = 0 THEN BwLimitBytes ELSE DivCeil(BwLimitBytes, count)

\* When no update is in progress, the rates of the slots in use add up to no
\* more than the limit, rounded up for each (conf.go:125, "Upload aggregate
\* bandwidth limit"). An update that divided by an old count may be the last
\* to store its share.
AggregateWithinLimit ==
  Settled /\ count > 0 => uploadPace <= DivCeil(BwLimitBytes, count)
=============================================================================
