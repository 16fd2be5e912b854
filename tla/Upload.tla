------------------------------- MODULE Upload -------------------------------
(***************************************************************************)
(* upload/handler.go: the life of an upload request, from ServeHTTP to its *)
(* answer. A request is one goroutine of the HTTP server. It queues for    *)
(* one slot per part of its file (Semaphore), updates the pacing rate      *)
(* (Pacing), tries to upload the file to S3 until an attempt succeeds or   *)
(* is final, gives the slots back, updates the rate again and answers.     *)
(*                                                                         *)
(* Beside it run the timers of its contexts, its client, which may leave   *)
(* at any time, and the S3 SDK. The errors the code wraps and joins are    *)
(* the set of the sentinels that errors.Is and errors.As find in them.     *)
(*                                                                         *)
(* The TCP connections are left to Rebalance: here there are none.         *)
(***************************************************************************)
EXTENDS Integers, FiniteSets

CONSTANTS
  Requests,           \* the requests, one goroutine each
  UploadMaxParallel,  \* the limit of the semaphore
  TriesConfigured,    \* the values UploadTries may have; nothing keeps it positive
  BwLimitBytes,       \* UploadBwlimitBytes(); 0: there is no limit
  Inputs,             \* what clients send: "valid", "invalid", "keyless"
  PartCounts          \* max(DivCeil(size, part size), 1) of the files

ASSUME UploadAssumption ==
  /\ IsFiniteSet(Requests)
  /\ UploadMaxParallel \in Nat \ {0}
  /\ TriesConfigured \subseteq Int
  /\ BwLimitBytes \in Nat
  /\ Inputs \subseteq {"valid", "invalid", "keyless"}
  /\ PartCounts \subseteq Nat \ {0}

VARIABLES
  count, waiters, at, need, took, ctx, cb,    \* of Semaphore; ctx: with the queue timeout
  pacer, share, uploadPace, setter, target,   \* of Pacing
  UploadTries,    \* the number of tries the server was started with
  pc,             \* where each request is in doServeHTTP
  parts,          \* task.UploadParts
  attempts,       \* task.UploadAttempts
  uploadCtx,      \* the context of the attempt in progress
  result,         \* how Upload of the SDK returned
  errs,           \* the error a request carries, as the sentinels in it
  gone,           \* the requests whose context was cancelled
  stored,         \* the requests whose object is in S3
  attemptsTotal,  \* uploadAttemptsTotal
  retriesTotal,   \* uploadRetriesTotal
  answer          \* the status code; 0: none yet

Sem == INSTANCE Semaphore WITH
         Clients <- Requests, Limit <- UploadMaxParallel,
         Weights <- PartCounts, CallbackResults <- {"ok"}

Pace == INSTANCE Pacing WITH
          Updaters <- Requests, MaxSlots <- UploadMaxParallel,
          Conns <- {}, PaceWidth <- 1, MaxSent <- 0,
          SetsockoptMayFail <- FALSE, TcpInfoMayFail <- FALSE,
          dial <- <<>>, loaded <- <<>>, sockPace <- <<>>, sent <- <<>>,
          active <- {}, open <- {}, closed <- 0, sumClosed <- 0, failed <- {}

semVars == <<count, waiters, at, need, took, ctx, cb>>
paceVars == <<pacer, share, uploadPace, setter, target>>
loopVars == <<UploadTries, attempts, uploadCtx, result, attemptsTotal, retriesTotal, stored>>
vars == <<semVars, paceVars, loopVars, pc, parts, errs, gone, answer>>

Init ==
  /\ Sem!Init
  /\ Pace!Init
  /\ UploadTries \in TriesConfigured
  /\ pc = [r \in Requests |-> "new"]
  /\ parts = [r \in Requests |-> 0]
  /\ attempts = [r \in Requests |-> 0]
  /\ uploadCtx = [r \in Requests |-> "none"]
  /\ result = [r \in Requests |-> "none"]
  /\ errs = [r \in Requests |-> {}]
  /\ gone = {}
  /\ stored = {}
  /\ attemptsTotal = 0
  /\ retriesTotal = 0
  /\ answer = [r \in Requests |-> 0]

Go(r, place) == pc' = [pc EXCEPT ![r] = place]
Fail(r, sentinels) == errs' = [errs EXCEPT ![r] = sentinels]

-----------------------------------------------------------------------------
\* parseRequest. A URI with a bucket and no path, s3://bucket, panics at
\* uri.Path[1:]; net/http recovers and closes the connection.
ParseRequest(r) ==
  /\ pc[r] = "new"
  /\ \/ /\ "valid" \in Inputs
        /\ \E n \in PartCounts : parts' = [parts EXCEPT ![r] = n]
        /\ Go(r, "queue")
        /\ UNCHANGED errs
     \/ /\ "invalid" \in Inputs
        /\ Fail(r, {"BadRequestError"})
        /\ Go(r, "answer")
        /\ UNCHANGED parts
     \/ /\ "keyless" \in Inputs
        /\ Go(r, "panicked")
        /\ UNCHANGED <<parts, errs>>
  /\ UNCHANGED <<semVars, paceVars, loopVars, gone, answer>>

\* A wrong SlotsFor: an object is one slot, however many parts it has.
OneSlotFor(r) == 1

\* What Acquire is asked for.
SlotsFor(r) == parts[r]

\* h.parallelUploads.Acquire(ctx, int(task.UploadParts), logWait)
AcquireStep(r) ==
  /\ pc[r] = "queue"
  /\ \/ Sem!TryAcquire(r, SlotsFor(r))
     \/ Sem!StartWaiting(r)
     \/ Sem!CallbackDone(r, "ok")
     \/ Sem!Acquire(r)
     \/ Sem!GiveUp(r)
     \/ Sem!Return(r)
  /\ UNCHANGED <<paceVars, loopVars, pc, parts, errs, gone, answer>>

\* The timer of context.WithTimeoutCause(.., QueueTimeout, errUploadQueueTimeout).
QueueTimeout(r) ==
  /\ pc[r] = "queue"
  /\ Sem!EndContext(r, "deadline")
  /\ UNCHANGED <<paceVars, loopVars, pc, parts, errs, gone, answer>>

\* Acquire returned an error: context.Cause(ctx) is looked at before the error.
QueueFails(r) ==
  /\ pc[r] = "queue"
  /\ at[r] = "failed"
  /\ Fail(r, CASE ctx[r] = "deadline" -> {"errUploadQueueTimeout"}
               [] ctx[r] = "canceled" -> {"errUploadAborted"}
               [] OTHER -> {"unknown"})
  /\ Go(r, "answer")
  /\ UNCHANGED <<semVars, paceVars, loopVars, parts, gone, answer>>

\* Acquire returned nil.
StartTransfer(r) ==
  /\ pc[r] = "queue"
  /\ at[r] = "held"
  /\ Go(r, "pace")
  /\ UNCHANGED <<semVars, paceVars, loopVars, parts, errs, gone, answer>>

-----------------------------------------------------------------------------
\* h.updatePacingRate(), before the upload and, deferred, after the release.
UpdateStep(r) ==
  /\ pc[r] \in {"pace", "repace"}
  /\ Pace!UpdateStep(r)
  /\ UNCHANGED <<semVars, loopVars, pc, parts, errs, gone, answer>>

UpdateReturns(r) ==
  /\ Pace!UpdateReturns(r)
  /\ \/ pc[r] = "pace" /\ Go(r, "open")
     \/ pc[r] = "repace" /\ Go(r, "answer")
  /\ UNCHANGED <<semVars, loopVars, parts, errs, gone, answer>>

\* DivCeil has divided by zero in the deferred update: no answer is written.
UpdatePanics(r) ==
  /\ pc[r] = "repace"
  /\ Pace!Panicked(r)
  /\ Go(r, "panicked")
  /\ UNCHANGED <<semVars, paceVars, loopVars, parts, errs, gone, answer>>

-----------------------------------------------------------------------------
\* A wrong ReturnUpload: the release is not deferred.
ReturnUnreleased(r) == Go(r, "answer")

\* uploadFileMultipart returns: the deferred calls of doServeHTTP run.
ReturnUpload(r) == Go(r, "release")

\* uploadFileMultipart opens the file and enters the loop.
OpenFile(r) ==
  /\ pc[r] = "open"
  /\ \/ /\ attempts' = [attempts EXCEPT ![r] = 1]
        /\ Go(r, "loop")
        /\ UNCHANGED errs
     \/ /\ Fail(r, {"unknown"})
        /\ ReturnUpload(r)
        /\ UNCHANGED attempts
  /\ UNCHANGED <<semVars, paceVars, UploadTries, uploadCtx, result, attemptsTotal, retriesTotal,
                 stored, parts, gone, answer>>

\* A wrong IsRetry: the first attempt counts as a retry.
AnyAttempt(r) == attempts[r] >= 1

IsRetry(r) == attempts[r] > 1

\* A wrong AttemptContext: it is not derived from the request's.
DetachedContext(r) == "live"

\* The context of an attempt is done from the start when the request's is.
AttemptContext(r) == IF r \in gone THEN "dead" ELSE "live"

\* The condition of the loop. The loop itself does not look at the context.
BeginAttempt(r) ==
  /\ pc[r] = "loop"
  /\ attempts[r] <= UploadTries
  /\ attemptsTotal' = attemptsTotal + 1
  /\ retriesTotal' = IF IsRetry(r) THEN retriesTotal + 1 ELSE retriesTotal
  /\ uploadCtx' = [uploadCtx EXCEPT ![r] = AttemptContext(r)]
  /\ Go(r, "upload")
  /\ UNCHANGED <<semVars, paceVars, UploadTries, attempts, result, stored, parts, errs, gone, answer>>

\* The loop ends without an attempt that succeeded or was final: return nil.
LeaveLoop(r) ==
  /\ pc[r] = "loop"
  /\ attempts[r] > UploadTries
  /\ ReturnUpload(r)
  /\ UNCHANGED <<semVars, paceVars, loopVars, parts, errs, gone, answer>>

\* The timer of the attempt, armed until cancel(): it may still fire when
\* Upload has returned.
AttemptTimeout(r) ==
  /\ pc[r] \in {"upload", "returned"}
  /\ uploadCtx[r] = "live"
  /\ uploadCtx' = [uploadCtx EXCEPT ![r] = "deadline"]
  /\ UNCHANGED <<semVars, paceVars, UploadTries, attempts, result, attemptsTotal, retriesTotal,
                 stored, pc, parts, errs, gone, answer>>

\* What Upload may return, given its context: an error of the context only when
\* it is done. When it was done from the start S3 is not asked, but Upload may
\* fail before it looks at the context: a part size below the SDK's minimum, an
\* empty key (s3://bucket/), a file that cannot be read.
Results(c) ==
  CASE c = "live" -> {"ok", "NoSuchBucket", "apiError", "unknown"}
    [] c = "dead" -> {"canceled", "unknown"}
    [] OTHER      -> {"ok", "NoSuchBucket", "apiError", "unknown", c}

\* Upload returns. A nil error says that S3 has the object; with any other error
\* but a missing bucket it may have it too: the answer of S3 was lost.
UploadReturns(r) ==
  /\ pc[r] = "upload"
  /\ \E res \in Results(uploadCtx[r]) :
       /\ result' = [result EXCEPT ![r] = res]
       /\ \/ res # "NoSuchBucket" /\ uploadCtx[r] # "dead" /\ stored' = stored \cup {r}
          \/ res # "ok" /\ UNCHANGED stored
  /\ Go(r, "returned")
  /\ UNCHANGED <<semVars, paceVars, UploadTries, attempts, uploadCtx, attemptsTotal, retriesTotal,
                 parts, errs, gone, answer>>

\* The switch over the error. The cause of the attempt's context is looked at
\* before the error is, and after every API error.
Sentinels(res, c) ==
  IF res = "ok" THEN {}
  ELSE IF res = "NoSuchBucket" THEN {"errUploadNoSuchBucket", "apiError"}
  ELSE IF res = "apiError" THEN {"apiError"}
  ELSE IF c = "deadline" THEN {"errUploadAttemptTimeout"}
  ELSE IF res = "canceled" THEN {"errUploadAborted"}
  ELSE {"unknown"}

\* A wrong Final: an attempt that timed out is not tried again.
FinalTimeout(sentinels) ==
  sentinels = {} \/ sentinels \cap {"errUploadNoSuchBucket", "errUploadAborted",
                                    "errUploadAttemptTimeout"} # {}

Final(sentinels) ==
  sentinels = {} \/ sentinels \cap {"errUploadNoSuchBucket", "errUploadAborted"} # {}

\* A wrong Last: the last attempt is not seen as the last.
LastIsOneMore(r) == attempts[r] > UploadTries

\* The attempt is the last one allowed.
Last(r) == attempts[r] = UploadTries

\* An attempt that was the last bubbles its error up, any other is followed by
\* the next.
Classify(r) ==
  /\ pc[r] = "returned"
  /\ LET sentinels == Sentinels(result[r], uploadCtx[r]) IN
       \/ /\ Final(sentinels) \/ Last(r)
          /\ Fail(r, sentinels)
          /\ ReturnUpload(r)
          /\ UNCHANGED attempts
       \/ /\ ~Final(sentinels) /\ ~Last(r)
          /\ attempts' = [attempts EXCEPT ![r] = @ + 1]
          /\ Go(r, "loop")
          /\ UNCHANGED errs
  /\ uploadCtx' = [uploadCtx EXCEPT ![r] = "none"]
  /\ result' = [result EXCEPT ![r] = "none"]
  /\ UNCHANGED <<semVars, paceVars, UploadTries, attemptsTotal, retriesTotal, stored,
                 parts, gone, answer>>

-----------------------------------------------------------------------------
\* A wrong SlotsBack: twice as many slots are given back as were taken.
SlotsBackTwice(r) == 2 * parts[r]

\* A wrong SlotsBack: one slot is given back.
OneSlotBack(r) == 1

\* What Release gives back.
SlotsBack(r) == parts[r]

\* The deferred calls run in reverse order: the release, then the update.
ReleaseSlots(r) ==
  /\ pc[r] = "release"
  /\ Sem!Release(r, SlotsBack(r))
  /\ Go(r, "repace")
  /\ UNCHANGED <<paceVars, loopVars, parts, errs, gone, answer>>

\* The switch of ServeHTTP, in its order.
StatusCode(sentinels) ==
  IF sentinels = {} THEN 200
  ELSE IF "BadRequestError" \in sentinels THEN 400
  ELSE IF "errUploadAborted" \in sentinels THEN 418
  ELSE IF "errUploadQueueTimeout" \in sentinels THEN 408
  ELSE IF "errUploadAttemptTimeout" \in sentinels THEN 504
  ELSE IF "errUploadNoSuchBucket" \in sentinels THEN 404
  ELSE IF "apiError" \in sentinels THEN 502
  ELSE 500

Respond(r) ==
  /\ pc[r] = "answer"
  /\ answer' = [answer EXCEPT ![r] = StatusCode(errs[r])]
  /\ Go(r, "answered")
  /\ UNCHANGED <<semVars, paceVars, loopVars, parts, errs, gone>>

-----------------------------------------------------------------------------
Over(r) == pc[r] \in {"answered", "panicked"}

\* The client closes its socket, or a deadline of the server passes, which
\* net/http takes for the same: r.Context() is cancelled, and with it the
\* contexts derived from it.
Disconnect(r) ==
  /\ ~Over(r)
  /\ r \notin gone
  /\ gone' = gone \cup {r}
  /\ IF Sem!ContextMatters(r)
     THEN Sem!EndContext(r, "canceled") ELSE UNCHANGED semVars
  /\ uploadCtx' = [uploadCtx EXCEPT ![r] = IF @ = "live" THEN "canceled" ELSE @]
  /\ UNCHANGED <<paceVars, UploadTries, attempts, result, attemptsTotal, retriesTotal, stored,
                 pc, parts, errs, answer>>

Finished == (\A r \in Requests : Over(r)) /\ UNCHANGED vars

\* What a request and its timers do, S3 aside.
OwnStep(r) ==
  \/ ParseRequest(r)
  \/ AcquireStep(r)
  \/ QueueTimeout(r)
  \/ QueueFails(r)
  \/ StartTransfer(r)
  \/ UpdateStep(r)
  \/ UpdateReturns(r)
  \/ UpdatePanics(r)
  \/ OpenFile(r)
  \/ BeginAttempt(r)
  \/ LeaveLoop(r)
  \/ AttemptTimeout(r)
  \/ Classify(r)
  \/ ReleaseSlots(r)
  \/ Respond(r)

Next ==
  \/ \E r \in Requests : OwnStep(r) \/ UploadReturns(r) \/ Disconnect(r)
  \/ Finished

Spec == Init /\ [][Next]_vars

\* Each goroutine is scheduled and the timers of a request are armed whenever
\* it waits. Upload of the SDK returns when its context is done; before, S3 may
\* be silent for ever. Nothing is assumed of clients or of other requests.
ReturnsWhenDone(r) == uploadCtx[r] # "live" /\ UploadReturns(r)

FairSpec == Spec /\ \A r \in Requests : WF_vars(OwnStep(r)) /\ WF_vars(ReturnsWhenDone(r))

-----------------------------------------------------------------------------
TypeOK ==
  /\ Sem!TypeOK
  /\ pacer \in [Requests -> {"out", "dividing", "targeted", "called", "panicked"}]
  /\ pc \in [Requests -> {"new", "queue", "pace", "open", "loop", "upload", "returned",
                          "release", "repace", "answer", "answered", "panicked"}]
  /\ parts \in [Requests -> PartCounts \cup {0}]
  /\ attempts \in [Requests -> Nat]
  /\ uploadCtx \in [Requests -> {"none", "live", "dead", "deadline", "canceled"}]
  /\ result \in [Requests -> {"none", "ok", "NoSuchBucket", "apiError", "unknown",
                              "deadline", "canceled"}]
  /\ gone \subseteq Requests
  /\ stored \subseteq Requests
  /\ attemptsTotal \in Nat
  /\ retriesTotal \in Nat
  /\ answer \in [Requests -> {0, 200, 400, 404, 408, 418, 500, 502, 504}]

\* A client that is told "upload succeeded" has its object in S3
\* (handler.go:438): no path through the attempts, their timeouts and the
\* error switch ends without an error and without an upload.
SuccessMeansStored == \A r \in Requests : answer[r] = 200 => r \in stored

\* What the other answers tell. 408: the request timed out in the queue, no
\* attempt was made, nothing is stored; the timer, which races with the grant,
\* "does not apply once the transfer has started" (README.md:169). 418: the
\* request was cancelled. 502 and 504: it was the last of all the tries that
\* failed. 404, 502 and 504: S3 was asked. 400: nothing was even counted.
AnswerIsTrue ==
  \A r \in Requests :
    /\ answer[r] = 408 => attempts[r] = 0 /\ r \notin stored /\ ctx[r] = "deadline"
    /\ answer[r] = 418 => r \in gone
    /\ answer[r] \in {502, 504} => attempts[r] = UploadTries
    /\ answer[r] \in {404, 502, 504} => attempts[r] \in 1..UploadTries
    /\ answer[r] = 400 => at[r] = "idle" /\ r \notin stored

\* The requests between the grant of their slots and the deferred release.
Transferring == {r \in Requests : pc[r] \in {"pace", "open", "loop", "upload",
                                             "returned", "release"}}
PartsOf(S) == UNION {{r} \X (1..parts[r]) : r \in S}

\* The goroutines that send parts (one per part, handler.go:682) are covered by
\* slots, so that no more than UploadMaxParallel run, and a request that is
\* over has none: every way out of doServeHTTP, the panic of the deferred
\* update included, has given back what was taken.
SlotsCoverTransfers ==
  /\ \A r \in Transferring : r \in took /\ need[r] = parts[r]
  /\ Cardinality(PartsOf(Transferring)) <= count
  /\ count <= UploadMaxParallel
  /\ \A r \in Requests : Over(r) \/ pc[r] \in {"repace", "answer"} => r \notin took

\* The attempts a request has begun: in the loop the counter is one ahead.
Begun(r) == IF pc[r] = "loop" THEN attempts[r] - 1 ELSE attempts[r]

\* The exported counters add up: every attempt of every request is in
\* uploadAttemptsTotal once, and in uploadRetriesTotal exactly the ones that
\* are not a first attempt.
AttemptsAccounted ==
  /\ attemptsTotal = Cardinality(UNION {{r} \X (1..Begun(r)) : r \in Requests})
  /\ attemptsTotal - retriesTotal = Cardinality({r \in Requests : Begun(r) > 0})

\* A cancelled request waits for nothing any more, neither for slots nor for S3:
\* "if there is an s3 upload in progress, it will be aborted" (README.md:68). The
\* loop may well begin all the tries that are left for a client that has left
\* (after an API error, or one the switch does not know), but none of them is
\* given a context that still runs, wherever the cancellation came.
CancelledIsAborted ==
  \A r \in gone :
    /\ at[r] \in {"waiting", "joining"} => ctx[r] # "live"
    /\ pc[r] = "upload" => uploadCtx[r] # "live"

\* Every valid request is answered, unless its last update of the pacing rate
\* panics, whatever S3, the clients and the other requests do: both waits have
\* a timer, and nothing else blocks.
EveryRequestAnswered == \A r \in Requests : pc[r] = "queue" ~> Over(r)

\* The handler uses the semaphore as Semaphore assumes: one call at a time, a
\* Release of exactly what was acquired, by a request that holds it, and no
\* other change of the count. What holds of Semaphore holds here.
UsesSemaphore == Sem!Spec

-----------------------------------------------------------------------------
\* What Upload does seen from outside. The slots of a grant are held from the
\* moment the library gives them, before Acquire has returned.
Service == INSTANCE UploadService WITH
             Limit <- UploadMaxParallel,
             Weights <- PartCounts,
             held <- [r \in Requests |-> IF r \in took THEN need[r] ELSE 0],
             started <- took \cup {r \in Requests : at[r] = "released"}

\* The handler keeps the promise of UploadService: no answer before the slots
\* are back, no second transfer, no object stored without slots, and a code
\* that is true of what happened, whatever timers, retries and cancellations
\* come between.
ImplementsService == Service!Spec
=============================================================================
