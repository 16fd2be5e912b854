------------------------------- MODULE Pacing -------------------------------
(***************************************************************************)
(* updatePacingRate (upload/handler.go:722-744): divide the bandwidth      *)
(* limit by the number of slots that are taken and hand the quotient to    *)
(* the connection tracker. Any number of goroutines run it at once and     *)
(* nothing keeps two of them apart, so each load of the semaphore's count  *)
(* and each step of SetPacingRate is an action. The count is loaded twice: *)
(* once to avoid a division by zero, once more to divide.                  *)
(*                                                                         *)
(* The module has no next-state relation of its own: Rebalance and Upload  *)
(* compose these actions with the code that calls updatePacingRate.        *)
(***************************************************************************)
EXTENDS Integers, FiniteSets

CONSTANTS
  Updaters,      \* the goroutines that call updatePacingRate
  MaxSlots,      \* UploadMaxParallel
  BwLimitBytes,  \* UploadBwlimitBytes(); 0: there is no limit
  Conns, PaceWidth, MaxSent, SetsockoptMayFail, TcpInfoMayFail

ASSUME PacingAssumption ==
  /\ MaxSlots \in Nat \ {0}
  /\ BwLimitBytes \in Nat
  /\ PaceWidth \in Nat \ {0}
  /\ MaxSent \in Nat

VARIABLES
  count,   \* GetCount() of the semaphore, which an update only reads
  pacer,   \* where each updater is in updatePacingRate
  share,   \* its targetPace
  uploadPace, setter, target, dial, loaded, sockPace,
  active, open, closed, sent, sumClosed, failed

\* util.DivCeil, for the positive divisors that do not make it panic.
DivCeil(a, b) == (a + b - 1) \div b

CT == INSTANCE ConnTracker WITH
        Setters <- Updaters,
        Paces <- {DivCeil(BwLimitBytes, n) : n \in 1..MaxSlots}

updateVars == <<pacer, share>>
trackerVars == <<uploadPace, setter, target, dial, loaded, sockPace,
                 active, open, closed, sent, sumClosed, failed>>
vars == <<updateVars, trackerVars>>

\* NewS3ndHandler calls updatePacingRate once, with no slot taken, "before the
\* first conn is established".
Init ==
  /\ pacer = [u \in Updaters |-> "out"]
  /\ share = [u \in Updaters |-> 0]
  /\ CT!InitPaced(BwLimitBytes)

Pacer(u, place) == pacer' = [pacer EXCEPT ![u] = place]

-----------------------------------------------------------------------------
\* A wrong IdlePace: no rate while nothing is uploaded.
NoIdlePace == 0

\* The target while no slot is taken.
IdlePace == BwLimitBytes

\* "avoid div by zero": the first load of the count.
LookAtCount(u) ==
  /\ BwLimitBytes # 0
  /\ pacer[u] = "out"
  /\ IF count = 0
     THEN share' = [share EXCEPT ![u] = IdlePace] /\ Pacer(u, "targeted")
     ELSE UNCHANGED share /\ Pacer(u, "dividing")
  /\ UNCHANGED <<count, trackerVars>>

\* The second load of the count is the divisor; DivCeil panics on 0.
Divide(u) ==
  /\ pacer[u] = "dividing"
  /\ IF count = 0
     THEN UNCHANGED share /\ Pacer(u, "panicked")
     ELSE share' = [share EXCEPT ![u] = DivCeil(BwLimitBytes, count)] /\ Pacer(u, "targeted")
  /\ UNCHANGED <<count, trackerVars>>

\* h.connTracker.SetPacingRate(targetPace), whose steps are the tracker's.
CallTracker(u) ==
  /\ pacer[u] = "targeted"
  /\ CT!SetPacingRate(u, share[u])
  /\ Pacer(u, "called")
  /\ UNCHANGED <<count, share>>

TrackerStep(u) ==
  /\ CT!StorePace(u) \/ CT!ApplyPace(u)
  /\ UNCHANGED <<count, updateVars>>

UpdateStep(u) == LookAtCount(u) \/ Divide(u) \/ CallTracker(u) \/ TrackerStep(u)

\* updatePacingRate returns: at once without a limit, otherwise with
\* SetPacingRate, whose error is only logged.
UpdateReturns(u) ==
  /\ \/ BwLimitBytes = 0
     \/ pacer[u] = "called" /\ setter[u] = "idle"
  /\ Pacer(u, "out")
  /\ UNCHANGED <<share, trackerVars>>

Panicked(u) == pacer[u] = "panicked"

\* The transport, on its own goroutines, dials and closes connections.
ConnStep(k) ==
  /\ CT!Track(k) \/ CT!CheckPace(k) \/ CT!LoadPace(k) \/ CT!PaceDialed(k)
     \/ CT!MarkClosed(k) \/ CT!CloseSocket(k)
  /\ UNCHANGED <<count, updateVars>>

TypeOK ==
  /\ pacer \in [Updaters -> {"out", "dividing", "targeted", "called", "panicked"}]
  /\ share \in [Updaters -> Nat]
  /\ CT!TypeOK
=============================================================================
