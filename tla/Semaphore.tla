----------------------------- MODULE Semaphore -----------------------------
(***************************************************************************)
(* semaphore/semaphore.go: a weighted semaphore (marusama/semaphore) with  *)
(* a wrapper that counts the goroutines blocked in Acquire and runs        *)
(* "waiting" callbacks beside them.                                        *)
(*                                                                         *)
(* A client is one goroutine that makes one call of Acquire and, when the  *)
(* call succeeds, one call of Release: the way the upload handler uses it. *)
(* Each atomic access of the Go code (the compare-and-swap of TryAcquire,  *)
(* the Add on waiters, the blocking Acquire of the library, the end of a   *)
(* callback, the return) is one action, so calls interleave as goroutines  *)
(* do.                                                                     *)
(***************************************************************************)
EXTENDS Integers, FiniteSets

CONSTANTS
  Clients,         \* the goroutines that use the semaphore
  Limit,           \* the limit given to New
  Weights,         \* the values n may have in a call
  CallbackResults  \* how a waiting callback may end: "ok", "err"

\* New and Acquire of the library panic on a limit or an n that is not
\* positive; 2^32 bounds both halves of the library's packed state.
ASSUME SemaphoreAssumption ==
  /\ IsFiniteSet(Clients)
  /\ Limit \in Nat \ {0}
  /\ Weights \subseteq Nat \ {0}
  /\ CallbackResults \subseteq {"ok", "err"}

VARIABLES
  count,    \* the library's count of taken slots (GetCount)
  waiters,  \* the wrapper's atomic counter (Waiters)
  at,       \* where each client is in its call
  need,     \* the argument n of each client's call
  took,     \* the clients whose slots the library has granted and not got back
  ctx,      \* the context of each call: its Err()
  cb        \* the waiting callbacks of each call

vars == <<count, waiters, at, need, took, ctx, cb>>

\* "full"    TryAcquire has failed;     "waiting" in the library's Acquire;
\* "joining" in g.Wait();               "held"    Acquire returned nil;
\* "failed"  Acquire returned an error; "released" the slots are back.
Places == {"idle", "full", "waiting", "joining", "held", "failed", "released"}

Init ==
  /\ count = 0
  /\ waiters = 0
  /\ at = [c \in Clients |-> "idle"]
  /\ need = [c \in Clients |-> 0]
  /\ took = {}
  /\ ctx = [c \in Clients |-> "live"]
  /\ cb = [c \in Clients |-> "none"]

Move(c, place) == at' = [at EXCEPT ![c] = place]

-----------------------------------------------------------------------------
\* The library: slots are granted in one compare-and-swap, to anyone whose
\* request fits: there is no queue.
Fits(n) == count + n <= Limit

Grant(c, n) ==
  /\ Fits(n)
  /\ count' = count + n
  /\ took' = took \cup {c}

-----------------------------------------------------------------------------
\* A wrong AfterGrant: a grant on the fast path is followed by the slow one.
GrantOverlooked == "full"

\* Where a grant on the fast path leaves the call: Acquire has returned.
AfterGrant == "held"

\* The fast path. It looks at the count only, never at the context.
TryAcquire(c, n) ==
  /\ at[c] = "idle"
  /\ need' = [need EXCEPT ![c] = n]
  /\ \/ Grant(c, n) /\ Move(c, AfterGrant)
     \/ ~Fits(n) /\ Move(c, "full") /\ UNCHANGED <<count, took>>
  /\ UNCHANGED <<waiters, ctx, cb>>

\* A wrong OneMoreWaiter: the waiter is not counted.
NoMoreWaiter == waiters

\* waiters.Add(1)
OneMoreWaiter == waiters + 1

\* waiters.Add(1), then one goroutine for the callbacks.
StartWaiting(c) ==
  /\ at[c] = "full"
  /\ waiters' = OneMoreWaiter
  /\ cb' = [cb EXCEPT ![c] = "running"]
  /\ Move(c, "waiting")
  /\ UNCHANGED <<count, need, took, ctx>>

\* A callback ends; an error cancels the group's context.
CallbackDone(c, result) ==
  /\ cb[c] = "running"
  /\ cb' = [cb EXCEPT ![c] = result]
  /\ UNCHANGED <<count, waiters, at, need, took, ctx>>

\* s.Semaphore.Acquire(ctx, n) returns nil. The library may have looked at
\* the context just before it ended, so a done context does not forbid it.
Acquire(c) ==
  /\ at[c] = "waiting"
  /\ Grant(c, need[c])
  /\ Move(c, "joining")
  /\ UNCHANGED <<waiters, need, ctx, cb>>

\* A wrong GroupDone: a cancellation ends the wait, a deadline does not.
GroupCanceled(c) == ctx[c] = "canceled" \/ cb[c] = "err"

\* The group's context, which the library waits under, is done: the caller's
\* is, or a callback has failed.
GroupDone(c) == ctx[c] # "live" \/ cb[c] = "err"

\* s.Semaphore.Acquire(ctx, n) returns ctx.Err().
GiveUp(c) ==
  /\ at[c] = "waiting"
  /\ GroupDone(c)
  /\ Move(c, "joining")
  /\ UNCHANGED <<count, waiters, need, took, ctx, cb>>

\* A wrong CallbacksEnded: no g.Wait().
NotAwaited(c) == TRUE

\* g.Wait() returns.
CallbacksEnded(c) == cb[c] # "running"

\* A wrong OneWaiterLess: a call that fails stays counted as a waiter.
OneLessIfGranted(c) == IF c \in took THEN waiters - 1 ELSE waiters

\* The deferred Add(^0) takes the client off waiters.
OneWaiterLess(c) == waiters - 1

\* A wrong Succeeds: a context that is done by now turns a grant into an error.
SucceedsInTime(c) == ctx[c] = "live" /\ c \in took

\* Acquire returns nil: the error of the group wins over the library's result.
Succeeds(c) == cb[c] = "ok" /\ c \in took

\* A wrong Return: an error gives slots back whether they were granted or not.
ReturnGivesBack(c) ==
  /\ at[c] = "joining"
  /\ cb[c] # "running"
  /\ waiters' = waiters - 1
  /\ \/ c \in took /\ Move(c, "held") /\ UNCHANGED count
     \/ c \notin took /\ Move(c, "failed") /\ count' = count - need[c]
  /\ UNCHANGED <<need, took, ctx, cb>>

\* The call of Acquire returns.
Return(c) ==
  /\ at[c] = "joining"
  /\ CallbacksEnded(c)
  /\ waiters' = OneWaiterLess(c)
  /\ Move(c, IF Succeeds(c) THEN "held" ELSE "failed")
  /\ UNCHANGED <<count, need, took, ctx, cb>>

\* The promoted Release of the library; n is what the caller passes.
Release(c, n) ==
  /\ at[c] = "held"
  /\ count' = count - n
  /\ took' = took \ {c}
  /\ Move(c, "released")
  /\ UNCHANGED <<waiters, need, ctx, cb>>

\* The context of a call ends: its deadline passes or its parent is cancelled.
\* Once the call has returned nobody reads it.
ContextMatters(c) ==
  at[c] \in {"idle", "full", "waiting", "joining"} /\ ctx[c] = "live"

EndContext(c, err) ==
  /\ ContextMatters(c)
  /\ ctx' = [ctx EXCEPT ![c] = err]
  /\ UNCHANGED <<count, waiters, at, need, took, cb>>

\* Every call is over: nothing is left to do.
Finished ==
  /\ \A c \in Clients : at[c] \in {"failed", "released"}
  /\ UNCHANGED vars

Next ==
  \/ \E c \in Clients :
       \/ \E n \in Weights : TryAcquire(c, n)
       \/ StartWaiting(c)
       \/ \E result \in CallbackResults : CallbackDone(c, result)
       \/ Acquire(c)
       \/ GiveUp(c)
       \/ Return(c)
       \/ Release(c, need[c])
       \/ \E err \in {"deadline", "canceled"} : EndContext(c, err)
  \/ Finished

Spec == Init /\ [][Next]_vars

\* The scheduler runs every goroutine that can run, and a holder releases.
\* Nothing is assumed of timers: no context need ever end.
Fairness ==
  \A c \in Clients :
    /\ WF_vars(StartWaiting(c))
    /\ WF_vars(\E result \in CallbackResults : CallbackDone(c, result))
    /\ WF_vars(Acquire(c))
    /\ WF_vars(GiveUp(c))
    /\ WF_vars(Return(c))
    /\ WF_vars(Release(c, need[c]))

FairSpec == Spec /\ Fairness

-----------------------------------------------------------------------------
TypeOK ==
  /\ count \in Nat
  /\ waiters \in Nat
  /\ at \in [Clients -> Places]
  /\ need \in [Clients -> Nat]
  /\ took \subseteq Clients
  /\ ctx \in [Clients -> {"live", "deadline", "canceled"}]
  /\ cb \in [Clients -> {"none", "running", "ok", "err"}]

\* One element for every slot that is taken.
Slots(c) == {c} \X (1..need[c])
TakenSlots == UNION {Slots(c) : c \in took}

\* The count is the sum of the weights granted and not yet given back: no slot
\* is lost or invented whatever the order of grants and releases (Acquire,
\* TryAcquire, Release), and never more than the limit is out.
SlotsAccounted ==
  /\ count = Cardinality(TakenSlots)
  /\ count <= Limit

\* The clients between waiters.Add(1) and the deferred decrement.
Waiting == {c \in Clients : at[c] \in {"waiting", "joining"}}

\* Waiters() is the number of goroutines blocked in Acquire: the unsigned
\* counter never wraps below zero and no path forgets its decrement.
WaitersExact == waiters = Cardinality(Waiting)

\* A client that Acquire has answered with nil has its slots, and one that it
\* has answered with an error has none: the handler releases in the first case
\* only (handler.go:551-565), so anything else loses slots for ever.
ResultTellsSlots ==
  \A c \in Clients :
    /\ at[c] = "held" => c \in took
    /\ at[c] \in {"idle", "full", "waiting", "failed", "released"} => c \notin took

\* Acquire does not return while a callback it started is running: the
\* callback reads and writes the caller's task (handler.go:536-546).
CallbacksOver ==
  \A c \in Clients : at[c] \in {"held", "failed", "released"} => cb[c] # "running"

\* A client that waits for no more than the limit gets its slots or sees its
\* context end; no interleaving of grants, releases and callbacks strands it.
NoStrandedWaiter ==
  \A c \in Clients :
    (at[c] = "waiting" /\ need[c] <= Limit)
      ~> (at[c] \in {"held", "released"} \/ ctx[c] # "live")

\* A call whose context has ended returns.
DoneContextReturns ==
  \A c \in Clients :
    (at[c] = "waiting" /\ ctx[c] # "live") ~> at[c] \in {"held", "failed", "released"}

-----------------------------------------------------------------------------
\* What the semaphore promises, seen from outside: each client's holding.
Pool == INSTANCE SlotPool WITH
          held <- [c \in Clients |-> IF c \in took THEN need[c] ELSE 0]

\* The counter implements the pool: every grant fits beside what the others
\* really hold, not merely beside the number the counter says.
ImplementsPool == Pool!Spec
=============================================================================
