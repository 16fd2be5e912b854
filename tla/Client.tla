------------------------------- MODULE Client -------------------------------
(***************************************************************************)
(* client/client.go: UploadMulti sends one upload request per file, each   *)
(* on a goroutine of its own, and collects their results through a channel *)
(* after a wait group has seen all goroutines end. Nobody receives before  *)
(* that, so every send must fit in the channel's buffer.                   *)
(*                                                                         *)
(* The server is external: it answers 200 or another status, or its answer *)
(* never reaches the client. A file is named by its key in the map files.  *)
(***************************************************************************)
EXTENDS Integers, Sequences, FiniteSets, SequencesExt

CONSTANTS
  Files,        \* the keys of the map files
  StatusCodes   \* what the server may answer

ASSUME ClientAssumption ==
  /\ IsFiniteSet(Files)
  /\ StatusCodes \subseteq 100..599

VARIABLES
  caller,    \* where UploadMulti is
  worker,    \* where the goroutine of each file is
  wg,        \* the counter of the wait group
  statusCh,  \* what is in the channel's buffer: the files of the statuses
  closed,    \* whether statusCh is closed
  err,       \* whether the Upload of each file returned an error
  code,      \* what the server has answered for each file; 0: nothing
  statuses,  \* the slice UploadMulti returns, as the files of its statuses
  errs       \* the errors it joins, as the files they are of

vars == <<caller, worker, wg, statusCh, closed, err, code, statuses, errs>>

Init ==
  /\ caller = "starting"
  /\ worker = [f \in Files |-> "none"]
  /\ wg = 0
  /\ statusCh = <<>>
  /\ closed = FALSE
  /\ err = [f \in Files |-> FALSE]
  /\ code = [f \in Files |-> 0]
  /\ statuses = <<>>
  /\ errs = {}

Work(f, place) == worker' = [worker EXCEPT ![f] = place]

\* A wrong Capacity: a buffer of one.
CapacityOne == 1

\* make(chan *UploadStatus, len(files))
Capacity == Cardinality(Files)

-----------------------------------------------------------------------------
\* One turn of the first loop: wg.Add(1), then go.
Start(f) ==
  /\ caller = "starting"
  /\ worker[f] = "none"
  /\ wg' = wg + 1
  /\ Work(f, "calling")
  /\ UNCHANGED <<caller, statusCh, closed, err, code, statuses, errs>>

\* The map is exhausted.
AllStarted ==
  /\ caller = "starting"
  /\ \A f \in Files : worker[f] # "none"
  /\ caller' = "waiting"
  /\ UNCHANGED <<worker, wg, statusCh, closed, err, code, statuses, errs>>

\* The server has handled the request and writes its answer.
Answer(f) ==
  /\ worker[f] = "calling"
  /\ code[f] = 0
  /\ \E status \in StatusCodes : code' = [code EXCEPT ![f] = status]
  /\ UNCHANGED <<caller, worker, wg, statusCh, closed, err, statuses, errs>>

\* A wrong IsError: the status code is not looked at.
NoError(status) == FALSE

\* Any status but 200 is an error.
IsError(status) == status # 200

\* Upload reads an answer.
UploadAnswered(f) ==
  /\ worker[f] = "calling"
  /\ code[f] # 0
  /\ err' = [err EXCEPT ![f] = IsError(code[f])]
  /\ Work(f, "sending")
  /\ UNCHANGED <<caller, wg, statusCh, closed, code, statuses, errs>>

\* Upload has no answer to return: the request cannot be made, the context is
\* done, the connection breaks before or within the body (the server may have
\* answered all the same), or the body is not a status.
UploadBroken(f) ==
  /\ worker[f] = "calling"
  /\ err' = [err EXCEPT ![f] = TRUE]
  /\ Work(f, "sending")
  /\ UNCHANGED <<caller, wg, statusCh, closed, code, statuses, errs>>

\* The send blocks while the buffer is full. On a closed channel it panics.
Send(f) ==
  /\ worker[f] = "sending"
  /\ IF closed
     THEN UNCHANGED statusCh /\ Work(f, "panicked")
     ELSE /\ Len(statusCh) < Capacity
          /\ statusCh' = Append(statusCh, f)
          /\ Work(f, "sent")
  /\ UNCHANGED <<caller, wg, closed, err, code, statuses, errs>>

\* A wrong OneLess: wg.Done() is called after the send and deferred too.
TwoLess == wg - 2

\* What wg.Done() leaves of the counter.
OneLess == wg - 1

\* The deferred wg.Done().
Done(f) ==
  /\ worker[f] = "sent"
  /\ wg' = OneLess
  /\ Work(f, "done")
  /\ UNCHANGED <<caller, statusCh, closed, err, code, statuses, errs>>

-----------------------------------------------------------------------------
\* A wrong AllDone: no wg.Wait().
NotAwaited == TRUE

\* wg.Wait() returns.
AllDone == wg = 0

\* close(statusCh)
Close ==
  /\ caller = "waiting"
  /\ AllDone
  /\ closed' = TRUE
  /\ caller' = "draining"
  /\ UNCHANGED <<worker, wg, statusCh, err, code, statuses, errs>>

\* One turn of the second loop.
Collect ==
  /\ caller = "draining"
  /\ statusCh # <<>>
  /\ LET f == Head(statusCh) IN
       /\ statuses' = Append(statuses, f)
       /\ errs' = IF err[f] THEN errs \cup {f} ELSE errs
  /\ statusCh' = Tail(statusCh)
  /\ UNCHANGED <<caller, worker, wg, closed, err, code>>

\* The channel is closed and empty: UploadMulti returns, with an error if there
\* is one in errs.
ReturnMulti ==
  /\ caller = "draining"
  /\ statusCh = <<>>
  /\ caller' = IF errs = {} THEN "succeeded" ELSE "failed"
  /\ UNCHANGED <<worker, wg, statusCh, closed, err, code, statuses, errs>>

Next ==
  \/ \E f \in Files : \/ Start(f) \/ Answer(f) \/ UploadAnswered(f)
                      \/ UploadBroken(f) \/ Send(f) \/ Done(f)
  \/ AllStarted \/ Close \/ Collect \/ ReturnMulti

Spec == Init /\ [][Next]_vars

\* Every goroutine is scheduled, and every Upload returns in the end, with what
\* the server answered (Upload!EveryRequestAnswered) or with an error.
FairSpec ==
  /\ Spec
  /\ WF_vars(AllStarted \/ Close \/ Collect \/ ReturnMulti)
  /\ \A f \in Files :
       WF_vars(Start(f) \/ UploadAnswered(f) \/ UploadBroken(f) \/ Send(f) \/ Done(f))

-----------------------------------------------------------------------------
Over == caller \in {"succeeded", "failed"}

TypeOK ==
  /\ caller \in {"starting", "waiting", "draining", "succeeded", "failed"}
  /\ worker \in [Files -> {"none", "calling", "sending", "sent", "done", "panicked"}]
  /\ wg \in Nat
  /\ statusCh \in Seq(Files)
  /\ closed \in BOOLEAN
  /\ err \in [Files -> BOOLEAN]
  /\ code \in [Files -> StatusCodes \cup {0}]
  /\ statuses \in Seq(Files)
  /\ errs \subseteq Files

\* No goroutine sends on the closed channel, which would end the program, and
\* the statuses returned are those of all the files, each of them once,
\* whatever goroutine is fast or slow (UploadMulti:85-109).
OneStatusEach ==
  /\ \A f \in Files : worker[f] # "panicked"
  /\ Over => IsInjective(statuses) /\ ToSet(statuses) = Files

\* UploadMulti returns no error only when the server has answered every file
\* with 200, and an error only when one of them failed: no result is lost
\* between the goroutines and the join (UploadMulti:102-115).
SuccessMeansAll ==
  /\ caller = "succeeded" => \A f \in Files : code[f] = 200
  /\ caller = "failed" => \E f \in Files : err[f]

\* UploadMulti returns: no goroutine waits for room in the channel while the
\* caller waits for the goroutines (UploadMulti:83, 91, 99).
MultiReturns == <>Over
=============================================================================
