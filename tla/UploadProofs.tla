---------------------------- MODULE UploadProofs ----------------------------
(***************************************************************************)
(* Proofs about Upload, for any requests, any limit, any numbers of parts  *)
(* and of tries. A request is proved about by itself: what it carries with *)
(* it says where it is, and no other request can change it. The only fact  *)
(* about all of them is that the count is the number of slots granted.     *)
(***************************************************************************)
EXTENDS Upload, SlotLemmas

Places == {"new", "queue", "pace", "open", "loop", "upload", "returned", "release",
           "repace", "answer", "answered", "panicked"}

\* What errors.Is and errors.As may find in the error of a request.
ErrorSentinels == {"BadRequestError", "errUploadQueueTimeout", "errUploadAborted", "unknown",
                   "errUploadNoSuchBucket", "apiError", "errUploadAttemptTimeout"}

\* What TypeOK says of the variables of the requests.
Shapes ==
  /\ UploadTries \in TriesConfigured
  /\ at \in [Requests -> Sem!Places]
  /\ need \in [Requests -> PartCounts \cup {0}]
  /\ took \subseteq Requests
  /\ ctx \in [Requests -> {"live", "deadline", "canceled"}]
  /\ cb \in [Requests -> {"none", "running", "ok"}]
  /\ pc \in [Requests -> Places]
  /\ parts \in [Requests -> PartCounts \cup {0}]
  /\ attempts \in [Requests -> Nat]
  /\ uploadCtx \in [Requests -> {"none", "live", "dead", "deadline", "canceled"}]
  /\ result \in [Requests -> {"none", "ok", "NoSuchBucket", "apiError", "unknown",
                              "deadline", "canceled"}]
  /\ errs \in [Requests -> SUBSET ErrorSentinels]
  /\ gone \subseteq Requests
  /\ stored \subseteq Requests
  /\ answer \in [Requests -> {0, 200, 400, 404, 408, 418, 500, 502, 504}]

\* What the switch over the error of an attempt makes of it.
LEMMA SentinelsTrue ==
  ASSUME NEW res, NEW c
  PROVE  LET e == Sentinels(res, c) IN
         /\ e \in SUBSET ErrorSentinels
         /\ e = {} => res = "ok"
         /\ e \cap {"BadRequestError", "errUploadQueueTimeout"} = {}
         /\ "errUploadAborted" \in e => res = "canceled"
         /\ "errUploadNoSuchBucket" \in e => "errUploadAttemptTimeout" \notin e
         /\ "errUploadAborted" \in e => "errUploadAttemptTimeout" \notin e /\ "apiError" \notin e
         /\ "BadRequestError" \notin e /\ "errUploadQueueTimeout" \notin e
BY DEF Sentinels, ErrorSentinels

\* What a code of ServeHTTP says of the error.
LEMMA CodeTells ==
  ASSUME NEW e
  PROVE  /\ StatusCode(e) \in {200, 400, 404, 408, 418, 500, 502, 504}
         /\ StatusCode(e) = 200 => e = {}
         /\ StatusCode(e) = 400 => "BadRequestError" \in e
         /\ StatusCode(e) = 418 => "errUploadAborted" \in e
         /\ StatusCode(e) = 408 => "errUploadQueueTimeout" \in e
         /\ StatusCode(e) = 504 => "errUploadAttemptTimeout" \in e
         /\ StatusCode(e) = 404 => "errUploadNoSuchBucket" \in e
         /\ StatusCode(e) = 502 => "apiError" \in e /\ "errUploadNoSuchBucket" \notin e
BY DEF StatusCode

-----------------------------------------------------------------------------
\* What a step of one request leaves of the others.
Untouched(r) ==
  /\ at'[r] = at[r] /\ need'[r] = need[r] /\ (r \in took' <=> r \in took)
  /\ ctx'[r] = ctx[r] /\ cb'[r] = cb[r]
  /\ pc'[r] = pc[r] /\ parts'[r] = parts[r] /\ attempts'[r] = attempts[r]
  /\ uploadCtx'[r] = uploadCtx[r] /\ result'[r] = result[r] /\ errs'[r] = errs[r]
  /\ (r \in gone' <=> r \in gone) /\ (r \in stored' <=> r \in stored)
  /\ answer'[r] = answer[r]

\* The steps of one request.
Step(r) == OwnStep(r) \/ UploadReturns(r) \/ Disconnect(r)

\* Every step of a request keeps the types.
LEMMA ShapesKept ==
  ASSUME Shapes, NEW q \in Requests, Step(q)
  PROVE  Shapes'
<1> USE DEF Shapes, Go, Fail, semVars, paceVars, loopVars, Places, Sem!Places
<1>1. CASE ParseRequest(q)
  BY <1>1 DEF ParseRequest, ErrorSentinels
<1>2. CASE AcquireStep(q)
  <2> USE DEF Sem!Move
  <2>1. CASE Sem!TryAcquire(q, SlotsFor(q))
    BY <1>2, <2>1 DEF AcquireStep, Sem!TryAcquire, Sem!Grant, Sem!AfterGrant, SlotsFor
  <2>2. CASE Sem!StartWaiting(q)
    BY <1>2, <2>2 DEF AcquireStep, Sem!StartWaiting
  <2>3. CASE Sem!CallbackDone(q, "ok")
    BY <1>2, <2>3 DEF AcquireStep, Sem!CallbackDone
  <2>4. CASE Sem!Acquire(q)
    BY <1>2, <2>4 DEF AcquireStep, Sem!Acquire, Sem!Grant
  <2>5. CASE Sem!GiveUp(q)
    BY <1>2, <2>5 DEF AcquireStep, Sem!GiveUp
  <2>6. CASE Sem!Return(q)
    BY <1>2, <2>6 DEF AcquireStep, Sem!Return
  <2> QED BY <1>2, <2>1, <2>2, <2>3, <2>4, <2>5, <2>6 DEF AcquireStep
<1>3. CASE QueueTimeout(q)
  BY <1>3 DEF QueueTimeout, Sem!EndContext
<1>4. CASE QueueFails(q)
  BY <1>4 DEF QueueFails, ErrorSentinels
<1>5. CASE StartTransfer(q)
  BY <1>5 DEF StartTransfer
<1>6. CASE UpdateStep(q)
  BY <1>6 DEF UpdateStep
<1>7. CASE UpdateReturns(q)
  BY <1>7 DEF UpdateReturns
<1>8. CASE UpdatePanics(q)
  BY <1>8 DEF UpdatePanics
<1>9. CASE OpenFile(q)
  BY <1>9 DEF OpenFile, ReturnUpload, ErrorSentinels
<1>10. CASE BeginAttempt(q)
  BY <1>10 DEF BeginAttempt, AttemptContext
<1>11. CASE LeaveLoop(q)
  BY <1>11 DEF LeaveLoop, ReturnUpload
<1>12. CASE AttemptTimeout(q)
  BY <1>12 DEF AttemptTimeout
<1>13. CASE Classify(q)
  BY <1>13, SentinelsTrue DEF Classify, ReturnUpload
<1>14. CASE ReleaseSlots(q)
  BY <1>14 DEF ReleaseSlots, Sem!Release, Sem!Move
<1>15. CASE Respond(q)
  <2>1. StatusCode(errs[q]) \in {200, 400, 404, 408, 418, 500, 502, 504}
    BY CodeTells
  <2> QED BY <1>15, <2>1 DEF Respond
<1>16. CASE UploadReturns(q)
  BY <1>16 DEF UploadReturns, Results
<1>17. CASE Disconnect(q)
  BY <1>17 DEF Disconnect, Sem!EndContext
<1> QED BY <1>1, <1>2, <1>3, <1>4, <1>5, <1>6, <1>7, <1>8, <1>9, <1>10, <1>11, <1>12, <1>13,
           <1>14, <1>15, <1>16, <1>17 DEF Step, OwnStep

\* A request changes nothing of another.
LEMMA OthersUntouched ==
  ASSUME Shapes, NEW q \in Requests, Step(q), NEW r \in Requests, r # q
  PROVE  Untouched(r) /\ UploadTries' = UploadTries
<1> USE DEF Shapes, Untouched, Go, Fail, semVars, paceVars, loopVars
<1>1. CASE ParseRequest(q)
  BY <1>1 DEF ParseRequest
<1>2. CASE AcquireStep(q)
  <2> USE DEF Sem!Move
  <2>1. CASE Sem!TryAcquire(q, SlotsFor(q))
    BY <1>2, <2>1 DEF AcquireStep, Sem!TryAcquire, Sem!Grant
  <2>2. CASE Sem!StartWaiting(q)
    BY <1>2, <2>2 DEF AcquireStep, Sem!StartWaiting
  <2>3. CASE Sem!CallbackDone(q, "ok")
    BY <1>2, <2>3 DEF AcquireStep, Sem!CallbackDone
  <2>4. CASE Sem!Acquire(q)
    BY <1>2, <2>4 DEF AcquireStep, Sem!Acquire, Sem!Grant
  <2>5. CASE Sem!GiveUp(q)
    BY <1>2, <2>5 DEF AcquireStep, Sem!GiveUp
  <2>6. CASE Sem!Return(q)
    BY <1>2, <2>6 DEF AcquireStep, Sem!Return
  <2> QED BY <1>2, <2>1, <2>2, <2>3, <2>4, <2>5, <2>6 DEF AcquireStep
<1>3. CASE QueueTimeout(q)
  BY <1>3 DEF QueueTimeout, Sem!EndContext
<1>4. CASE QueueFails(q)
  BY <1>4 DEF QueueFails
<1>5. CASE StartTransfer(q)
  BY <1>5 DEF StartTransfer
<1>6. CASE UpdateStep(q)
  BY <1>6 DEF UpdateStep
<1>7. CASE UpdateReturns(q)
  BY <1>7 DEF UpdateReturns
<1>8. CASE UpdatePanics(q)
  BY <1>8 DEF UpdatePanics
<1>9. CASE OpenFile(q)
  BY <1>9 DEF OpenFile, ReturnUpload
<1>10. CASE BeginAttempt(q)
  BY <1>10 DEF BeginAttempt
<1>11. CASE LeaveLoop(q)
  BY <1>11 DEF LeaveLoop, ReturnUpload
<1>12. CASE AttemptTimeout(q)
  BY <1>12 DEF AttemptTimeout
<1>13. CASE Classify(q)
  BY <1>13 DEF Classify, ReturnUpload
<1>14. CASE ReleaseSlots(q)
  BY <1>14 DEF ReleaseSlots, Sem!Release, Sem!Move
<1>15. CASE Respond(q)
  BY <1>15 DEF Respond
<1>16. CASE UploadReturns(q)
  BY <1>16 DEF UploadReturns
<1>17. CASE Disconnect(q)
  BY <1>17 DEF Disconnect, Sem!EndContext
<1> QED BY <1>1, <1>2, <1>3, <1>4, <1>5, <1>6, <1>7, <1>8, <1>9, <1>10, <1>11, <1>12, <1>13,
           <1>14, <1>15, <1>16, <1>17 DEF Step, OwnStep
-----------------------------------------------------------------------------
\* Where the call of Acquire of a request is, given where the request is, and
\* who has slots.
Slotted(r) ==
  /\ pc[r] = "new" => at[r] = "idle" /\ parts[r] = 0
  /\ pc[r] = "queue" => at[r] # "released" /\ parts[r] \in PartCounts
  /\ pc[r] \in {"pace", "open", "loop", "upload", "returned", "release"} => at[r] = "held"
  /\ pc[r] = "repace" => at[r] = "released"
  /\ pc[r] \in {"answer", "answered"} => at[r] \in {"idle", "failed", "released"}
  /\ pc[r] \in {"answer", "answered"} /\ at[r] = "idle" => parts[r] = 0
  /\ pc[r] = "panicked" => at[r] \in {"idle", "released"}
  /\ at[r] = "held" => r \in took
  /\ at[r] \in {"idle", "full", "waiting", "failed", "released"} => r \notin took
  /\ at[r] \in {"waiting", "joining"} => cb[r] # "none"
  /\ at[r] # "idle" => need[r] = parts[r] /\ parts[r] \in PartCounts
  /\ at[r] \in {"joining", "failed"} /\ r \notin took => ctx[r] # "live"
  /\ r \in took \/ at[r] = "released" => need[r] <= UploadMaxParallel

\* An error that a request carries out of the transfer, or instead of one, is
\* true of what happened.
Explained(r) ==
  /\ errs[r] = {} => r \in stored \/ UploadTries <= 0
  /\ "BadRequestError" \in errs[r] => at[r] = "idle"
  /\ "errUploadQueueTimeout" \in errs[r] => at[r] = "failed" /\ ctx[r] = "deadline"
  /\ "errUploadAborted" \in errs[r] => r \in gone
  /\ \/ "errUploadAttemptTimeout" \in errs[r]
     \/ "apiError" \in errs[r] /\ "errUploadNoSuchBucket" \notin errs[r]
     => attempts[r] = UploadTries /\ attempts[r] >= 1
  /\ "errUploadNoSuchBucket" \in errs[r] => attempts[r] \in 1..UploadTries
  /\ at[r] = "failed" => errs[r] \cap {"errUploadQueueTimeout", "errUploadAborted"} # {}

\* What a request carries while it tries.
Truthful(r) ==
  /\ ctx[r] = "canceled" => r \in gone
  /\ uploadCtx[r] \in {"dead", "canceled"} => r \in gone
  /\ result[r] = "canceled" => r \in gone
  /\ at[r] \notin {"held", "released"} \/ pc[r] \in {"queue", "pace", "open"} =>
       attempts[r] = 0 /\ r \notin stored
  /\ pc[r] \in {"new", "queue", "pace", "open", "loop", "upload", "returned"} => errs[r] = {}
  /\ pc[r] = "loop" => attempts[r] >= 1 /\ (attempts[r] = 1 \/ attempts[r] <= UploadTries)
  /\ pc[r] \in {"upload", "returned"} => attempts[r] \in 1..UploadTries
  /\ pc[r] = "returned" /\ result[r] = "ok" => r \in stored
  /\ pc[r] \in {"release", "repace", "answer", "answered"} => Explained(r)
  /\ pc[r] # "answered" => answer[r] = 0
  /\ pc[r] = "answered" => answer[r] = StatusCode(errs[r])

\* A cancelled request has no context that still runs.
Aborted(r) ==
  r \in gone =>
    /\ at[r] \in {"idle", "full", "waiting", "joining"} => ctx[r] # "live"
    /\ uploadCtx[r] # "live"

\* The parts of a file are a number.
LEMMA PartsAreNat ==
  ASSUME NEW n \in PartCounts
  PROVE  n \in Nat
BY UploadAssumption

\* A step of a request leaves its slots where its place says.
LEMMA SlottedKept ==
  ASSUME Shapes, NEW q \in Requests, Step(q), Slotted(q), count \in Nat
  PROVE  Slotted(q)'
<1> USE UploadAssumption DEF Shapes, Go, Fail, semVars, paceVars, loopVars, Places, Sem!Places, Slotted
<1>1. CASE ParseRequest(q)
  BY <1>1 DEF ParseRequest
<1>2. CASE AcquireStep(q)
  <2> USE DEF Sem!Move
  <2>1. CASE Sem!TryAcquire(q, SlotsFor(q))
    <3>1. parts[q] \in PartCounts /\ parts[q] \in Nat /\ pc[q] = "queue" /\ at[q] = "idle"
      <4>1. pc[q] = "queue" /\ at[q] = "idle"
        BY <1>2, <2>1 DEF AcquireStep, Sem!TryAcquire
      <4>2. parts[q] \in PartCounts
        BY <4>1
      <4> HIDE UploadAssumption DEF Shapes, Slotted
      <4> QED BY <4>1, <4>2, PartsAreNat
    <3>2. /\ need'[q] = parts[q] /\ UNCHANGED <<pc, parts, ctx, cb>>
          /\ \/ q \in took' /\ at'[q] = "held" /\ parts[q] <= UploadMaxParallel
             \/ q \notin took' /\ at'[q] = "full"
      BY <1>2, <2>1, <3>1
         DEF AcquireStep, Sem!TryAcquire, Sem!Grant, Sem!Fits, Sem!AfterGrant, SlotsFor
    <3> QED BY <3>1, <3>2
  <2>2. CASE Sem!StartWaiting(q)
    BY <1>2, <2>2 DEF AcquireStep, Sem!StartWaiting
  <2>3. CASE Sem!CallbackDone(q, "ok")
    BY <1>2, <2>3 DEF AcquireStep, Sem!CallbackDone
  <2>4. CASE Sem!Acquire(q)
    <3>1. /\ need[q] = parts[q] /\ parts[q] \in PartCounts /\ parts[q] \in Nat
          /\ pc[q] = "queue" /\ at[q] = "waiting"
      <4>1. pc[q] = "queue" /\ at[q] = "waiting"
        BY <1>2, <2>4 DEF AcquireStep, Sem!Acquire
      <4>2. need[q] = parts[q] /\ parts[q] \in PartCounts
        BY <4>1
      <4> HIDE UploadAssumption DEF Shapes, Slotted
      <4> QED BY <4>1, <4>2, PartsAreNat
    <3>2. /\ UNCHANGED <<pc, parts, need, ctx, cb>>
          /\ q \in took' /\ at'[q] = "joining" /\ need[q] <= UploadMaxParallel
      BY <1>2, <2>4, <3>1 DEF AcquireStep, Sem!Acquire, Sem!Grant, Sem!Fits
    <3> QED BY <3>1, <3>2
  <2>5. CASE Sem!GiveUp(q)
    BY <1>2, <2>5 DEF AcquireStep, Sem!GiveUp, Sem!GroupDone
  <2>6. CASE Sem!Return(q)
    BY <1>2, <2>6 DEF AcquireStep, Sem!Return, Sem!Succeeds, Sem!CallbacksEnded
  <2> QED BY <1>2, <2>1, <2>2, <2>3, <2>4, <2>5, <2>6 DEF AcquireStep
<1>3. CASE QueueTimeout(q)
  BY <1>3 DEF QueueTimeout, Sem!EndContext, Sem!ContextMatters
<1>4. CASE QueueFails(q)
  BY <1>4 DEF QueueFails
<1>5. CASE StartTransfer(q)
  BY <1>5 DEF StartTransfer
<1>6. CASE UpdateStep(q)
  BY <1>6 DEF UpdateStep
<1>7. CASE UpdateReturns(q)
  BY <1>7 DEF UpdateReturns
<1>8. CASE UpdatePanics(q)
  BY <1>8 DEF UpdatePanics
<1>9. CASE OpenFile(q)
  BY <1>9 DEF OpenFile, ReturnUpload
<1>10. CASE BeginAttempt(q)
  BY <1>10 DEF BeginAttempt
<1>11. CASE LeaveLoop(q)
  BY <1>11 DEF LeaveLoop, ReturnUpload
<1>12. CASE AttemptTimeout(q)
  BY <1>12 DEF AttemptTimeout
<1>13. CASE Classify(q)
  BY <1>13 DEF Classify, ReturnUpload, Last, Final
<1>14. CASE ReleaseSlots(q)
  BY <1>14 DEF ReleaseSlots, Sem!Release, Sem!Move, SlotsBack
<1>15. CASE Respond(q)
  BY <1>15 DEF Respond
<1>16. CASE UploadReturns(q)
  BY <1>16 DEF UploadReturns, Results
<1>17. CASE Disconnect(q)
  BY <1>17 DEF Disconnect, Sem!EndContext, Sem!ContextMatters, Over
<1> QED BY <1>1, <1>2, <1>3, <1>4, <1>5, <1>6, <1>7, <1>8, <1>9,
           <1>10, <1>11, <1>12, <1>13, <1>14, <1>15, <1>16, <1>17 DEF Step, OwnStep

\* What becomes of a request whose attempt has returned: it leaves the loop with
\* the sentinels of the error, or goes on to the next try without any.
LEMMA Classified ==
  ASSUME Shapes, NEW q \in Requests, Classify(q)
  PROVE  \E e \in SUBSET ErrorSentinels :
           /\ e = {} => result[q] = "ok"
           /\ "errUploadAborted" \in e => result[q] = "canceled"
           /\ "BadRequestError" \notin e /\ "errUploadQueueTimeout" \notin e
           /\ \/ /\ Final(e) \/ Last(q)
                 /\ Final(e) => /\ "errUploadAttemptTimeout" \notin e
                                /\ "apiError" \in e => "errUploadNoSuchBucket" \in e
                 /\ pc'[q] = "release" /\ attempts'[q] = attempts[q] /\ errs'[q] = e
              \/ /\ ~Final(e) /\ ~Last(q)
                 /\ pc'[q] = "loop" /\ attempts'[q] = attempts[q] + 1 /\ errs'[q] = errs[q]
<1> DEFINE e == Sentinels(result[q], uploadCtx[q])
<1>1. /\ e \in SUBSET ErrorSentinels
      /\ e = {} => result[q] = "ok"
      /\ "errUploadAborted" \in e => result[q] = "canceled"
      /\ "BadRequestError" \notin e /\ "errUploadQueueTimeout" \notin e
  BY SentinelsTrue
<1>2. Final(e) => /\ "errUploadAttemptTimeout" \notin e
                  /\ "apiError" \in e => "errUploadNoSuchBucket" \in e
  <2>1. /\ "errUploadNoSuchBucket" \in e => "errUploadAttemptTimeout" \notin e
        /\ "errUploadAborted" \in e => "errUploadAttemptTimeout" \notin e /\ "apiError" \notin e
    BY SentinelsTrue
  <2> HIDE DEF e
  <2> QED BY <2>1 DEF Final
<1>3. \/ (Final(e) \/ Last(q)) /\ Fail(q, e) /\ Go(q, "release") /\ UNCHANGED attempts
      \/ /\ ~Final(e) /\ ~Last(q)
         /\ attempts' = [attempts EXCEPT ![q] = @ + 1] /\ Go(q, "loop") /\ UNCHANGED errs
  BY DEF Classify, ReturnUpload
<1> HIDE DEF e
<1>4. \/ /\ Final(e) \/ Last(q)
         /\ pc'[q] = "release" /\ attempts'[q] = attempts[q] /\ errs'[q] = e
      \/ /\ ~Final(e) /\ ~Last(q)
         /\ pc'[q] = "loop" /\ attempts'[q] = attempts[q] + 1 /\ errs'[q] = errs[q]
  BY <1>3 DEF Go, Fail, Shapes
<1> QED BY <1>1, <1>2, <1>4

\* A step of a request leaves its error and its answer true.
LEMMA TruthKept ==
  ASSUME Shapes, Shapes', NEW q \in Requests, Step(q), Slotted(q), Truthful(q)
  PROVE  Truthful(q)'
<1> USE DEF Shapes, Go, Fail, semVars, paceVars, loopVars, Places, Sem!Places, Slotted, Truthful, Explained
<1>1. CASE ParseRequest(q)
  <2>1. pc[q] = "new" /\ at[q] = "idle" /\ UNCHANGED <<semVars, loopVars, gone, answer>>
    BY <1>1 DEF ParseRequest
  <2>2. CASE pc'[q] \in {"queue", "panicked"} /\ errs'[q] = errs[q]
    BY <2>1, <2>2
  <2>3. CASE pc'[q] = "answer" /\ errs'[q] = {"BadRequestError"}
    <3>1. errs'[q] # {} /\ \A x \in errs'[q] : x = "BadRequestError"
      BY <2>3
    <3> QED BY <2>1, <2>3, <3>1
  <2> QED BY <1>1, <2>2, <2>3 DEF ParseRequest
<1>2. CASE AcquireStep(q)
  <2> USE DEF Sem!Move
  <2>1. CASE Sem!TryAcquire(q, SlotsFor(q))
    BY <1>2, <2>1 DEF AcquireStep, Sem!TryAcquire, Sem!Grant, Sem!Fits, Sem!AfterGrant, SlotsFor
  <2>2. CASE Sem!StartWaiting(q)
    BY <1>2, <2>2 DEF AcquireStep, Sem!StartWaiting
  <2>3. CASE Sem!CallbackDone(q, "ok")
    BY <1>2, <2>3 DEF AcquireStep, Sem!CallbackDone
  <2>4. CASE Sem!Acquire(q)
    BY <1>2, <2>4 DEF AcquireStep, Sem!Acquire, Sem!Grant, Sem!Fits
  <2>5. CASE Sem!GiveUp(q)
    BY <1>2, <2>5 DEF AcquireStep, Sem!GiveUp, Sem!GroupDone
  <2>6. CASE Sem!Return(q)
    BY <1>2, <2>6 DEF AcquireStep, Sem!Return, Sem!Succeeds, Sem!CallbacksEnded
  <2> QED BY <1>2, <2>1, <2>2, <2>3, <2>4, <2>5, <2>6 DEF AcquireStep
<1>3. CASE QueueTimeout(q)
  BY <1>3 DEF QueueTimeout, Sem!EndContext, Sem!ContextMatters
<1>4. CASE QueueFails(q)
  <2>1. /\ pc[q] = "queue" /\ at[q] = "failed" /\ pc'[q] = "answer"
        /\ UNCHANGED <<semVars, loopVars, gone, answer>>
    BY <1>4 DEF QueueFails
  <2>2. CASE ctx[q] = "deadline"
    <3>1. errs'[q] = {"errUploadQueueTimeout"}
      BY <1>4, <2>2 DEF QueueFails
    <3>2. errs'[q] # {} /\ \A x \in errs'[q] : x = "errUploadQueueTimeout"
      BY <3>1
    <3> QED BY <2>1, <2>2, <3>1, <3>2
  <2>3. CASE ctx[q] = "canceled"
    <3>1. errs'[q] = {"errUploadAborted"}
      BY <1>4, <2>3 DEF QueueFails
    <3>2. errs'[q] # {} /\ \A x \in errs'[q] : x = "errUploadAborted"
      BY <3>1
    <3> QED BY <2>1, <2>3, <3>1, <3>2
  <2>4. ctx[q] # "live"
    BY <2>1
  <2> QED BY <2>2, <2>3, <2>4
<1>5. CASE StartTransfer(q)
  BY <1>5 DEF StartTransfer
<1>6. CASE UpdateStep(q)
  BY <1>6 DEF UpdateStep
<1>7. CASE UpdateReturns(q)
  BY <1>7 DEF UpdateReturns
<1>8. CASE UpdatePanics(q)
  BY <1>8 DEF UpdatePanics
<1>9. CASE OpenFile(q)
  <2>1. pc[q] = "open" /\ at[q] = "held"
        /\ UNCHANGED <<semVars, UploadTries, uploadCtx, result, stored, gone, answer>>
    BY <1>9 DEF OpenFile
  <2>2. CASE pc'[q] = "loop" /\ attempts'[q] = 1 /\ errs'[q] = errs[q]
    BY <2>1, <2>2
  <2>3. CASE pc'[q] = "release" /\ attempts'[q] = attempts[q] /\ errs'[q] = {"unknown"}
    <3>1. errs'[q] # {} /\ \A x \in errs'[q] : x = "unknown"
      BY <2>3
    <3> QED BY <2>1, <2>3, <3>1
  <2> QED BY <1>9, <2>2, <2>3 DEF OpenFile, ReturnUpload
<1>10. CASE BeginAttempt(q)
  BY <1>10 DEF BeginAttempt, AttemptContext
<1>11. CASE LeaveLoop(q)
  <2>1. /\ pc[q] = "loop" /\ at[q] = "held" /\ pc'[q] = "release" /\ attempts[q] > UploadTries
        /\ UNCHANGED <<semVars, loopVars, errs, gone, answer>>
    BY <1>11 DEF LeaveLoop, ReturnUpload
  <2>2. errs[q] = {} /\ attempts[q] = 1 /\ UploadTries <= 0
    BY <2>1, UploadAssumption
  <2> QED BY <2>1, <2>2
<1>12. CASE AttemptTimeout(q)
  BY <1>12 DEF AttemptTimeout
<1>13. CASE Classify(q)
  <2>1. /\ pc[q] = "returned" /\ at[q] = "held" /\ attempts[q] \in 1..UploadTries
        /\ errs[q] = {} /\ answer[q] = 0 /\ UploadTries \in Int
        /\ UNCHANGED <<semVars, UploadTries, stored, gone, answer>>
        /\ uploadCtx'[q] = "none" /\ result'[q] = "none"
    BY <1>13, UploadAssumption DEF Classify
  <2>2. PICK e \in SUBSET ErrorSentinels :
          /\ e = {} => result[q] = "ok"
          /\ "errUploadAborted" \in e => result[q] = "canceled"
          /\ "BadRequestError" \notin e /\ "errUploadQueueTimeout" \notin e
          /\ \/ /\ Final(e) \/ Last(q)
                /\ Final(e) => /\ "errUploadAttemptTimeout" \notin e
                               /\ "apiError" \in e => "errUploadNoSuchBucket" \in e
                /\ pc'[q] = "release" /\ attempts'[q] = attempts[q] /\ errs'[q] = e
             \/ /\ ~Final(e) /\ ~Last(q)
                /\ pc'[q] = "loop" /\ attempts'[q] = attempts[q] + 1 /\ errs'[q] = errs[q]
    BY <1>13, Classified
  <2>3. CASE Final(e) \/ Last(q)
    <3>1. (e = {} => q \in stored) /\ ("errUploadAborted" \in e => q \in gone)
      BY <2>1, <2>2
    <3>2. Last(q) => attempts[q] = UploadTries
      BY DEF Last
    <3> QED BY <2>1, <2>2, <2>3, <3>1, <3>2
  <2>4. CASE ~Final(e) /\ ~Last(q)
    <3>1. attempts[q] + 1 <= UploadTries
      <4>1. attempts[q] # UploadTries
        BY <2>4 DEF Last
      <4> HIDE DEF Shapes, Slotted, Truthful, Explained
      <4> QED BY <2>1, <4>1
    <3> QED BY <2>1, <2>2, <2>4, <3>1
  <2> QED BY <2>3, <2>4
<1>14. CASE ReleaseSlots(q)
  BY <1>14 DEF ReleaseSlots, Sem!Release, Sem!Move, SlotsBack
<1>15. CASE Respond(q)
  BY <1>15 DEF Respond
<1>16. CASE UploadReturns(q)
  BY <1>16 DEF UploadReturns, Results
<1>17. CASE Disconnect(q)
  BY <1>17 DEF Disconnect, Sem!EndContext, Sem!ContextMatters, Over
<1> HIDE DEF Truthful, Shapes, Slotted
<1> QED BY <1>1, <1>2, <1>3, <1>4, <1>5, <1>6, <1>7, <1>8, <1>9,
           <1>10, <1>11, <1>12, <1>13, <1>14, <1>15, <1>16, <1>17 DEF Step, OwnStep

\* A cancellation reaches the contexts there are, and those that are made later.
LEMMA AbortedKept ==
  ASSUME Shapes, NEW q \in Requests, Step(q), Aborted(q)
  PROVE  Aborted(q)'
<1> USE DEF Shapes, Go, Fail, semVars, paceVars, loopVars, Places, Sem!Places, Aborted
<1>1. CASE ParseRequest(q)
  BY <1>1 DEF ParseRequest
<1>2. CASE AcquireStep(q)
  <2> USE DEF Sem!Move
  <2>1. CASE Sem!TryAcquire(q, SlotsFor(q))
    BY <1>2, <2>1 DEF AcquireStep, Sem!TryAcquire, Sem!Grant, Sem!Fits, Sem!AfterGrant, SlotsFor
  <2>2. CASE Sem!StartWaiting(q)
    BY <1>2, <2>2 DEF AcquireStep, Sem!StartWaiting
  <2>3. CASE Sem!CallbackDone(q, "ok")
    BY <1>2, <2>3 DEF AcquireStep, Sem!CallbackDone
  <2>4. CASE Sem!Acquire(q)
    BY <1>2, <2>4 DEF AcquireStep, Sem!Acquire, Sem!Grant, Sem!Fits
  <2>5. CASE Sem!GiveUp(q)
    BY <1>2, <2>5 DEF AcquireStep, Sem!GiveUp, Sem!GroupDone
  <2>6. CASE Sem!Return(q)
    BY <1>2, <2>6 DEF AcquireStep, Sem!Return, Sem!Succeeds, Sem!CallbacksEnded
  <2> QED BY <1>2, <2>1, <2>2, <2>3, <2>4, <2>5, <2>6 DEF AcquireStep
<1>3. CASE QueueTimeout(q)
  BY <1>3 DEF QueueTimeout, Sem!EndContext, Sem!ContextMatters
<1>4. CASE QueueFails(q)
  BY <1>4 DEF QueueFails
<1>5. CASE StartTransfer(q)
  BY <1>5 DEF StartTransfer
<1>6. CASE UpdateStep(q)
  BY <1>6 DEF UpdateStep
<1>7. CASE UpdateReturns(q)
  BY <1>7 DEF UpdateReturns
<1>8. CASE UpdatePanics(q)
  BY <1>8 DEF UpdatePanics
<1>9. CASE OpenFile(q)
  BY <1>9 DEF OpenFile, ReturnUpload
<1>10. CASE BeginAttempt(q)
  BY <1>10 DEF BeginAttempt, AttemptContext
<1>11. CASE LeaveLoop(q)
  BY <1>11 DEF LeaveLoop, ReturnUpload
<1>12. CASE AttemptTimeout(q)
  BY <1>12 DEF AttemptTimeout
<1>13. CASE Classify(q)
  BY <1>13 DEF Classify, ReturnUpload
<1>14. CASE ReleaseSlots(q)
  BY <1>14 DEF ReleaseSlots, Sem!Release, Sem!Move, SlotsBack
<1>15. CASE Respond(q)
  BY <1>15 DEF Respond
<1>16. CASE UploadReturns(q)
  BY <1>16 DEF UploadReturns, Results
<1>17. CASE Disconnect(q)
  BY <1>17 DEF Disconnect, Sem!EndContext, Sem!ContextMatters, Over
<1> QED BY <1>1, <1>2, <1>3, <1>4, <1>5, <1>6, <1>7, <1>8, <1>9,
           <1>10, <1>11, <1>12, <1>13, <1>14, <1>15, <1>16, <1>17 DEF Step, OwnStep

-----------------------------------------------------------------------------
\* The count is the number of slots that requests have.
Counted ==
  /\ IsFiniteSet(Owned(took, need))
  /\ count = Cardinality(Owned(took, need))
  /\ count <= UploadMaxParallel

Inv ==
  /\ Shapes
  /\ Counted
  /\ \A r \in Requests : Slotted(r) /\ Truthful(r) /\ Aborted(r)

\* A grant adds to both.
LEMMA GrantCounted ==
  ASSUME Counted, NEW q, q \notin took, NEW n \in Nat, Sem!Grant(q, n),
         need'[q] = n, \A r \in took : need'[r] = need[r]
  PROVE  Counted'
<1>1. IsFiniteSet(Owned(took, need))
  BY DEF Counted
<1>2. /\ IsFiniteSet(Owned(took \cup {q}, need'))
      /\ Cardinality(Owned(took \cup {q}, need')) = Cardinality(Owned(took, need)) + need'[q]
  BY <1>1, AddOwner
<1> QED BY <1>2 DEF Counted, Sem!Grant, Sem!Fits

\* Every step of a request keeps the count equal to the slots.
LEMMA CountedKept ==
  ASSUME Shapes, Counted, NEW q \in Requests, Slotted(q), Step(q)
  PROVE  Counted'
<1> USE UploadAssumption DEF Shapes, Slotted, Go, Fail, semVars, paceVars, loopVars
<1> DEFINE Still == count' = count /\ took' = took /\ \A r \in took : need'[r] = need[r]
<1>1. CASE Still
  BY <1>1, SameOwners DEF Counted
<1>2. CASE AcquireStep(q)
  <2>1. CASE Sem!TryAcquire(q, SlotsFor(q))
    <3>1. at[q] = "idle" /\ pc[q] = "queue" /\ need' = [need EXCEPT ![q] = parts[q]]
      BY <1>2, <2>1 DEF AcquireStep, Sem!TryAcquire, SlotsFor
    <3>2. q \notin took /\ parts[q] \in Nat
      BY <3>1
    <3>3. need'[q] = parts[q] /\ \A r \in took : need'[r] = need[r]
      BY <3>1, <3>2
    <3>4. CASE Sem!Grant(q, parts[q])
      BY <3>2, <3>3, <3>4, GrantCounted
    <3>5. CASE UNCHANGED <<count, took>>
      BY <1>1, <3>3, <3>5
    <3> QED BY <2>1, <3>4, <3>5 DEF Sem!TryAcquire, SlotsFor
  <2>2. CASE Sem!Acquire(q)
    <3>1. at[q] = "waiting" /\ need' = need /\ Sem!Grant(q, need[q])
      BY <2>2 DEF Sem!Acquire
    <3>2. q \notin took /\ need[q] \in PartCounts
      BY <3>1
    <3>3. need[q] \in Nat
      BY <3>2, PartsAreNat
    <3> HIDE DEF Shapes, Slotted
    <3> QED BY <3>1, <3>2, <3>3, GrantCounted
  <2>3. CASE Sem!StartWaiting(q) \/ Sem!CallbackDone(q, "ok") \/ Sem!GiveUp(q) \/ Sem!Return(q)
    BY <1>1, <2>3 DEF Sem!StartWaiting, Sem!CallbackDone, Sem!GiveUp, Sem!Return
  <2> QED BY <1>2, <2>1, <2>2, <2>3 DEF AcquireStep
<1>3. CASE ReleaseSlots(q)
  <2>1. /\ q \in took /\ need[q] \in Nat /\ need' = need
        /\ count' = count - need[q] /\ took' = took \ {q}
    <3>1. pc[q] = "release" /\ need' = need /\ count' = count - parts[q] /\ took' = took \ {q}
      BY <1>3 DEF ReleaseSlots, Sem!Release, SlotsBack
    <3>2. q \in took /\ need[q] = parts[q] /\ need[q] \in PartCounts
      BY <3>1
    <3> HIDE UploadAssumption DEF Shapes, Slotted
    <3> QED BY <3>1, <3>2, PartsAreNat
  <2>2. /\ IsFiniteSet(Owned(took \ {q}, need))
        /\ Cardinality(Owned(took \ {q}, need)) = Cardinality(Owned(took, need)) - need[q]
    BY <2>1, RemoveOwner DEF Counted
  <2>3. count \in Nat
    BY FS_CardinalityType DEF Counted
  <2> QED BY <2>1, <2>2, <2>3 DEF Counted
<1>4. CASE QueueTimeout(q) \/ Disconnect(q)
  BY <1>1, <1>4 DEF QueueTimeout, Disconnect, Sem!EndContext
<1>5. CASE ParseRequest(q) \/ QueueFails(q) \/ StartTransfer(q) \/ UpdateStep(q)
             \/ UpdateReturns(q) \/ UpdatePanics(q) \/ OpenFile(q) \/ BeginAttempt(q)
  BY <1>1, <1>5 DEF ParseRequest, QueueFails, StartTransfer, UpdateStep, UpdateReturns,
                    UpdatePanics, OpenFile, BeginAttempt
<1>6. CASE LeaveLoop(q) \/ AttemptTimeout(q) \/ Classify(q) \/ Respond(q) \/ UploadReturns(q)
  BY <1>1, <1>6 DEF LeaveLoop, AttemptTimeout, Classify, Respond, UploadReturns
<1> QED BY <1>2, <1>3, <1>4, <1>5, <1>6 DEF Step, OwnStep

\* The invariant holds before the first request.
LEMMA InvInit == Init => Inv
<1> SUFFICES ASSUME Init PROVE Inv
  OBVIOUS
<1>1. Shapes
  BY DEF Init, Sem!Init, Shapes, Sem!Places, Places
<1>2. Counted
  BY NoOwner, UploadAssumption DEF Init, Sem!Init, Counted
<1>3. \A r \in Requests : Slotted(r) /\ Truthful(r) /\ Aborted(r)
  BY DEF Init, Sem!Init, Slotted, Truthful, Aborted
<1> QED BY <1>1, <1>2, <1>3 DEF Inv

\* Every step keeps it: what the request is about, and the others untouched.
LEMMA InvKept == Inv /\ [Next]_vars => Inv'
<1> SUFFICES ASSUME Inv, [Next]_vars PROVE Inv'
  OBVIOUS
<1> USE DEF Inv
<1>1. CASE UNCHANGED vars
  <2>1. Shapes' /\ Counted'
    BY <1>1 DEF vars, semVars, paceVars, loopVars, Shapes, Counted, Owned
  <2>2. \A r \in Requests : (Slotted(r) /\ Truthful(r) /\ Aborted(r))'
    BY <1>1 DEF vars, semVars, paceVars, loopVars, Slotted, Truthful, Explained, Aborted
  <2> QED BY <2>1, <2>2
<1>2. ASSUME NEW q \in Requests, Step(q)
      PROVE  Inv'
  <2>1. Shapes'
    BY <1>2, ShapesKept
  <2>2. Counted'
    BY <1>2, CountedKept
  <2>3. count \in Nat
    BY FS_CardinalityType DEF Counted
  <2>4. (Slotted(q) /\ Truthful(q) /\ Aborted(q))'
    BY <1>2, <2>1, <2>3, SlottedKept, TruthKept, AbortedKept
  <2>5. ASSUME NEW r \in Requests, r # q
        PROVE  (Slotted(r) /\ Truthful(r) /\ Aborted(r))'
    <3>1. Untouched(r) /\ UploadTries' = UploadTries
      BY <1>2, <2>5, OthersUntouched
    <3> QED BY <3>1 DEF Untouched, Slotted, Truthful, Explained, Aborted
  <2> QED BY <2>1, <2>2, <2>4, <2>5
<1> QED BY <1>1, <1>2 DEF Next, Finished, Step

\* Each request is where its slots, its attempts and its error say, and the
\* count is the slots of the requests.
THEOREM RequestInvariant == Spec => []Inv
<1> QED BY InvInit, InvKept, PTL DEF Spec

\* Every answer but the success tells what happened, whatever the timers, the
\* retries and the cancellations did (the switches of uploadFileMultipart and
\* ServeHTTP).
THEOREM AnswersAlwaysTrue == Spec => []AnswerIsTrue
<1>1. ASSUME Inv PROVE AnswerIsTrue
  <2> SUFFICES ASSUME NEW r \in Requests
      PROVE  /\ answer[r] = 408 => attempts[r] = 0 /\ r \notin stored /\ ctx[r] = "deadline"
             /\ answer[r] = 418 => r \in gone
             /\ answer[r] \in {502, 504} => attempts[r] = UploadTries
             /\ answer[r] \in {404, 502, 504} => attempts[r] \in 1..UploadTries
             /\ answer[r] = 400 => at[r] = "idle" /\ r \notin stored
    BY DEF AnswerIsTrue
  <2>1. Truthful(r) /\ answer[r] \in Nat /\ attempts[r] \in Nat /\ UploadTries \in Int
    BY <1>1, UploadAssumption DEF Inv, Shapes
  <2>2. CASE answer[r] = 0
    BY <2>2
  <2>3. CASE answer[r] # 0
    <3>1. answer[r] = StatusCode(errs[r]) /\ Explained(r)
      BY <2>1, <2>3 DEF Truthful
    <3>2. /\ answer[r] = 404 => "errUploadNoSuchBucket" \in errs[r]
          /\ answer[r] = 418 => "errUploadAborted" \in errs[r]
          /\ answer[r] = 408 => "errUploadQueueTimeout" \in errs[r]
          /\ answer[r] = 400 => "BadRequestError" \in errs[r]
          /\ answer[r] \in {502, 504} =>
               \/ "errUploadAttemptTimeout" \in errs[r]
               \/ "apiError" \in errs[r] /\ "errUploadNoSuchBucket" \notin errs[r]
      BY <3>1, CodeTells
    <3>3. answer[r] = 404 => attempts[r] \in 1..UploadTries
      BY <3>1, <3>2 DEF Explained
    <3>4. answer[r] = 418 => r \in gone
      BY <3>1, <3>2 DEF Explained
    <3>5. answer[r] = 408 => at[r] = "failed" /\ ctx[r] = "deadline"
      BY <3>1, <3>2 DEF Explained
    <3>6. answer[r] = 400 => at[r] = "idle"
      BY <3>1, <3>2 DEF Explained
    <3>7. at[r] \in {"failed", "idle"} => attempts[r] = 0 /\ r \notin stored
      BY <2>1 DEF Truthful
    <3>8. answer[r] \in {502, 504} => attempts[r] = UploadTries /\ attempts[r] >= 1
      BY <3>1, <3>2 DEF Explained
    <3> QED BY <2>1, <3>3, <3>4, <3>5, <3>6, <3>7, <3>8
  <2> QED BY <2>2, <2>3
<1> QED BY <1>1, RequestInvariant, PTL

\* "upload succeeded" is true of every server that tries at least once; one
\* with no tries at all says it of objects it never sent.
THEOREM SuccessAlwaysStored ==
  ASSUME \A n \in TriesConfigured : n > 0
  PROVE  Spec => []SuccessMeansStored
<1>1. ASSUME Inv PROVE SuccessMeansStored
  <2>1. ASSUME NEW r \in Requests, answer[r] = 200
        PROVE  r \in stored
    <3>1. Truthful(r) /\ UploadTries > 0 /\ UploadTries \in Int
      BY <1>1, UploadAssumption DEF Inv, Shapes
    <3>2. answer[r] = StatusCode(errs[r]) /\ Explained(r)
      BY <2>1, <3>1 DEF Truthful
    <3>3. errs[r] = {}
      BY <2>1, <3>2, CodeTells
    <3> QED BY <3>1, <3>2, <3>3 DEF Explained
  <2> QED BY <2>1 DEF SuccessMeansStored
<1> QED BY <1>1, RequestInvariant, PTL

\* A cancelled request waits neither for slots nor for S3, wherever it was when
\* its client left, and the tries it has left do not either (README.md:68).
THEOREM CancelledAlwaysAborted == Spec => []CancelledIsAborted
<1>1. Inv => CancelledIsAborted
  BY DEF Inv, Shapes, Aborted, CancelledIsAborted
<1> QED BY <1>1, RequestInvariant, PTL

\* The parts in flight are covered by slots, and no slot is lost.
THEOREM TransfersAlwaysCovered == Spec => []SlotsCoverTransfers
<1>1. ASSUME Inv PROVE SlotsCoverTransfers
  <2>1. \A r \in Transferring : r \in took /\ need[r] = parts[r]
    BY <1>1 DEF Inv, Slotted, Transferring
  <2>2. PartsOf(Transferring) \subseteq Owned(took, need)
    BY <2>1 DEF PartsOf, Owned
  <2>3. IsFiniteSet(Owned(took, need)) /\ count = Cardinality(Owned(took, need))
    BY <1>1 DEF Inv, Counted
  <2>4. Cardinality(PartsOf(Transferring)) <= count
    BY <2>2, <2>3, FS_Subset
  <2>5. \A r \in Requests : Over(r) \/ pc[r] \in {"repace", "answer"} => r \notin took
    BY <1>1 DEF Inv, Slotted, Over
  <2> QED BY <1>1, <2>1, <2>4, <2>5 DEF SlotsCoverTransfers, Inv, Counted
<1> QED BY <1>1, RequestInvariant, PTL

-----------------------------------------------------------------------------
\* A step of a request is one of the semaphore or leaves the semaphore alone.
LEMMA StepIsSemaphore ==
  ASSUME Inv, NEW q \in Requests, Step(q)
  PROVE  [Sem!Next]_(Sem!vars)
<1> USE DEF semVars, Sem!vars
<1>1. Slotted(q)
  BY DEF Inv
<1>2. CASE AcquireStep(q)
  <2>1. CASE Sem!TryAcquire(q, SlotsFor(q))
    <3>1. SlotsFor(q) \in PartCounts
      BY <1>1, <1>2 DEF AcquireStep, Slotted, SlotsFor
    <3> QED BY <2>1, <3>1 DEF Sem!Next
  <2> QED BY <1>2, <2>1 DEF AcquireStep, Sem!Next
<1>3. CASE ReleaseSlots(q)
  <2>1. SlotsBack(q) = need[q]
    BY <1>1, <1>3 DEF ReleaseSlots, Slotted, SlotsBack
  <2> QED BY <1>3, <2>1 DEF ReleaseSlots, Sem!Next
<1>4. CASE QueueTimeout(q)
  BY <1>4 DEF QueueTimeout, Sem!Next
<1>5. CASE Disconnect(q)
  BY <1>5 DEF Disconnect, Sem!Next
<1>6. CASE ParseRequest(q) \/ QueueFails(q) \/ StartTransfer(q) \/ UpdateStep(q)
             \/ UpdateReturns(q) \/ UpdatePanics(q) \/ OpenFile(q) \/ BeginAttempt(q)
  BY <1>6 DEF ParseRequest, QueueFails, StartTransfer, UpdateStep, UpdateReturns,
              UpdatePanics, OpenFile, BeginAttempt
<1>7. CASE LeaveLoop(q) \/ AttemptTimeout(q) \/ Classify(q) \/ Respond(q) \/ UploadReturns(q)
  BY <1>7 DEF LeaveLoop, AttemptTimeout, Classify, Respond, UploadReturns
<1> QED BY <1>2, <1>3, <1>4, <1>5, <1>6, <1>7 DEF Step, OwnStep

\* The handler calls the semaphore as Semaphore lets its clients call it.
THEOREM SemaphoreUsedRight == Spec => UsesSemaphore
<1>1. Init => Sem!Init
  BY DEF Init
<1>2. Inv /\ [Next]_vars => [Sem!Next]_(Sem!vars)
  <2> SUFFICES ASSUME Inv, [Next]_vars PROVE [Sem!Next]_(Sem!vars)
    OBVIOUS
  <2>1. CASE UNCHANGED vars
    BY <2>1 DEF vars, semVars, Sem!vars
  <2>2. ASSUME NEW q \in Requests, Step(q)
        PROVE  [Sem!Next]_(Sem!vars)
    BY <2>2, StepIsSemaphore
  <2> QED BY <2>1, <2>2 DEF Next, Finished, Step
<1> QED BY <1>1, <1>2, RequestInvariant, PTL DEF Spec, UsesSemaphore, Sem!Spec

-----------------------------------------------------------------------------
\* The variables of UploadService, as Upload has them.
Held == [r \in Requests |-> IF r \in took THEN need[r] ELSE 0]
Started == took \cup {r \in Requests : at[r] = "released"}

\* The slots that the service sees are the count of the semaphore.
LEMMA ServiceSlots ==
  ASSUME Inv
  PROVE  Service!HeldSlots = Owned(took, need)
<1>1. ASSUME NEW r \in Requests
      PROVE  1..(IF r \in took THEN need[r] ELSE 0) = IF r \in took THEN 1..need[r] ELSE {}
  OBVIOUS
<1>2. took \subseteq Requests
  BY DEF Inv, Shapes
<1> QED BY <1>1, <1>2 DEF Service!HeldSlots, Owned

\* A grant takes slots; TryAcquire and Acquire of the library alike.
LEMMA GrantIsTake ==
  ASSUME Inv, Shapes', NEW q \in Requests, q \notin took, at[q] # "released", answer[q] = 0,
         NEW n \in PartCounts, Sem!Grant(q, n), need'[q] = n,
         \A r \in Requests : r # q => need'[r] = need[r] /\ at'[r] = at[r],
         at'[q] # "released", stored' = stored, answer' = answer
  PROVE  Service!Next
<1>1. q \notin Started /\ Started' = Started \cup {q}
  BY DEF Started, Sem!Grant, Inv, Shapes
<1>2. Service!Cardinality(Service!HeldSlots) + n <= UploadMaxParallel
  <2>1. Cardinality(Service!HeldSlots) + n <= UploadMaxParallel
    BY ServiceSlots DEF Inv, Counted, Sem!Grant, Sem!Fits
  <2> QED BY <2>1 DEF Cardinality, Service!Cardinality
<1>3. Held' = [Held EXCEPT ![q] = n]
  <2>1. took' = took \cup {q}
    BY DEF Sem!Grant
  <2>2. Held' = [r \in Requests |-> IF r = q THEN n ELSE IF r \in took THEN need[r] ELSE 0]
    BY <2>1 DEF Held
  <2> QED BY <2>2 DEF Held
<1>4. Service!Take(q, n)
  BY <1>1, <1>2, <1>3 DEF Service!Take, Held, Started
<1> QED BY <1>4 DEF Service!Next

\* The deferred release gives them back.
LEMMA ReleaseIsGiveBack ==
  ASSUME Inv, NEW q \in Requests, ReleaseSlots(q)
  PROVE  Service!GiveBack(q)
<1>1. q \in took /\ need[q] \in PartCounts /\ took' = took \ {q} /\ UNCHANGED <<need, stored, answer>>
  BY DEF Inv, Slotted, ReleaseSlots, Sem!Release, loopVars
<1>2. at' = [at EXCEPT ![q] = "released"] /\ at \in [Requests -> Sem!Places]
  BY DEF Inv, Shapes, ReleaseSlots, Sem!Release, Sem!Move
<1>3. Held[q] # 0
  BY <1>1, UploadAssumption DEF Held
<1>4. Held' = [Held EXCEPT ![q] = 0]
  BY <1>1 DEF Held
<1>5. Started' = Started
  BY <1>1, <1>2 DEF Started, Inv, Shapes
<1> QED BY <1>1, <1>3, <1>4, <1>5 DEF Service!GiveBack, Held, Started

\* An answer comes when the slots are back, and its code is allowed.
LEMMA RespondIsAnswer ==
  ASSUME Inv, \A n \in TriesConfigured : n > 0, NEW q \in Requests, Respond(q)
  PROVE  Service!Answer(q)
<1>1. /\ pc[q] = "answer" /\ answer' = [answer EXCEPT ![q] = StatusCode(errs[q])]
      /\ UNCHANGED <<at, need, took, stored>>
  BY DEF Respond, semVars, loopVars
<1>2. Slotted(q) /\ Truthful(q)
  BY DEF Inv
<1>3. UNCHANGED <<Held, Started, stored>>
  BY <1>1 DEF Held, Started
<1>4. q \notin took /\ answer[q] = 0 /\ Explained(q)
  BY <1>1, <1>2 DEF Slotted, Truthful
<1>5. StatusCode(errs[q]) \in Service!Codes(q)
  <2> DEFINE code == StatusCode(errs[q])
  <2>1. /\ code \in {200, 400, 404, 408, 418, 500, 502, 504}
        /\ code = 200 => errs[q] = {}
        /\ code = 404 => "errUploadNoSuchBucket" \in errs[q]
        /\ code = 408 => "errUploadQueueTimeout" \in errs[q]
        /\ code = 400 => "BadRequestError" \in errs[q]
        /\ code \in {502, 504} =>
             \/ "errUploadAttemptTimeout" \in errs[q]
             \/ "apiError" \in errs[q] /\ "errUploadNoSuchBucket" \notin errs[q]
    BY CodeTells
  <2> HIDE DEF code
  <2>2. code = 200 => q \in stored
    <3>1. UploadTries > 0 /\ UploadTries \in Int
      BY UploadAssumption DEF Inv, Shapes
    <3> QED BY <1>4, <2>1, <3>1 DEF Explained
  <2>3. code \in {404, 502, 504} => attempts[q] # 0
    BY <1>4, <2>1 DEF Explained
  <2>4. code \in {404, 502, 504} => q \in Started
    BY <1>1, <1>2, <2>3 DEF Slotted, Truthful, Started
  <2>5. code \in {400, 408} => q \notin Started
    BY <1>4, <2>1 DEF Explained, Started
  <2> QED BY <2>1, <2>2, <2>4, <2>5 DEF Service!Codes, Started, code
<1>6. Held[q] = 0
  BY <1>4 DEF Held
<1> QED BY <1>1, <1>3, <1>4, <1>5, <1>6 DEF Service!Answer, Held, Started

\* A step of a request is one of the service or is not seen from outside.
LEMMA StepIsService ==
  ASSUME Inv, Inv', \A n \in TriesConfigured : n > 0, NEW q \in Requests, Step(q)
  PROVE  Service!Next \/ UNCHANGED <<Held, Started, stored, answer>>
<1>1. Slotted(q) /\ Truthful(q) /\ Shapes /\ Shapes'
  BY DEF Inv
<1>2. ASSUME UNCHANGED <<at, need, took, stored, answer>>
      PROVE  UNCHANGED <<Held, Started, stored, answer>>
  BY <1>2 DEF Held, Started
<1>3. ASSUME UNCHANGED <<need, took, stored, answer>>, at[q] # "released", at'[q] # "released",
             \A r \in Requests : r # q => at'[r] = at[r]
      PROVE  UNCHANGED <<Held, Started, stored, answer>>
  BY <1>3 DEF Held, Started
<1>4. CASE AcquireStep(q)
  <2>1. /\ pc[q] = "queue" /\ answer[q] = 0 /\ at[q] # "released"
        /\ stored' = stored /\ answer' = answer
    BY <1>1, <1>4 DEF AcquireStep, Slotted, Truthful, loopVars
  <2>2. at \in [Requests -> Sem!Places] /\ need \in [Requests -> PartCounts \cup {0}]
    BY <1>1 DEF Shapes
  <2>3. CASE Sem!TryAcquire(q, SlotsFor(q))
    <3>1. q \notin took /\ parts[q] \in PartCounts
      BY <1>1, <2>1, <2>3 DEF Slotted, Sem!TryAcquire
    <3>2. /\ need'[q] = parts[q] /\ at'[q] # "released"
          /\ \A r \in Requests : r # q => need'[r] = need[r] /\ at'[r] = at[r]
      BY <2>2, <2>3 DEF Sem!TryAcquire, Sem!Move, Sem!AfterGrant, SlotsFor
    <3>3. CASE Sem!Grant(q, parts[q])
      BY <1>1, <2>1, <3>1, <3>2, <3>3, GrantIsTake
    <3>4. CASE UNCHANGED <<count, took>>
      <4>1. Held' = Held
        BY <3>1, <3>2, <3>4 DEF Held
      <4>2. Started' = Started
        BY <2>1, <3>2, <3>4 DEF Started
      <4> QED BY <2>1, <4>1, <4>2
    <3> QED BY <2>3, <3>3, <3>4 DEF Sem!TryAcquire, SlotsFor
  <2>4. CASE Sem!Acquire(q)
    <3>1. q \notin took /\ need[q] \in PartCounts /\ need' = need /\ Sem!Grant(q, need[q])
      BY <1>1, <2>4 DEF Slotted, Sem!Acquire
    <3>2. at'[q] # "released" /\ \A r \in Requests : r # q => at'[r] = at[r]
      BY <2>2, <2>4 DEF Sem!Acquire, Sem!Move
    <3> QED BY <1>1, <2>1, <3>1, <3>2, GrantIsTake
  <2>5. CASE Sem!StartWaiting(q) \/ Sem!CallbackDone(q, "ok") \/ Sem!GiveUp(q) \/ Sem!Return(q)
    <3>1. /\ UNCHANGED <<need, took>> /\ at'[q] # "released"
          /\ \A r \in Requests : r # q => at'[r] = at[r]
      BY <2>1, <2>2, <2>5 DEF Sem!StartWaiting, Sem!CallbackDone, Sem!GiveUp, Sem!Return, Sem!Move
    <3> QED BY <1>3, <2>1, <3>1
  <2> QED BY <1>4, <2>3, <2>4, <2>5 DEF AcquireStep
<1>5. CASE ReleaseSlots(q)
  BY <1>5, ReleaseIsGiveBack DEF Service!Next
<1>6. CASE Respond(q)
  BY <1>6, RespondIsAnswer DEF Service!Next
<1>7. CASE UploadReturns(q)
  <2>1. pc[q] = "upload" /\ UNCHANGED <<at, need, took, answer>>
    BY <1>7 DEF UploadReturns, semVars
  <2>2. CASE stored' = stored \cup {q}
    <3>1. q \in took /\ need[q] \in PartCounts
      BY <1>1, <2>1 DEF Slotted
    <3>2. Held[q] # 0
      BY <3>1, UploadAssumption DEF Held
    <3>3. UNCHANGED <<Held, Started>>
      BY <2>1 DEF Held, Started
    <3> QED BY <2>1, <2>2, <3>2, <3>3 DEF Service!Next, Service!Store, Held, Started
  <2>3. CASE UNCHANGED stored
    BY <1>2, <2>1, <2>3
  <2> QED BY <1>7, <2>2, <2>3 DEF UploadReturns
<1>8. CASE QueueTimeout(q) \/ Disconnect(q)
  BY <1>2, <1>8 DEF QueueTimeout, Disconnect, Sem!EndContext, semVars, loopVars
<1>9. CASE ParseRequest(q) \/ QueueFails(q) \/ StartTransfer(q) \/ UpdateStep(q)
             \/ UpdateReturns(q) \/ UpdatePanics(q) \/ OpenFile(q) \/ BeginAttempt(q)
  BY <1>2, <1>9 DEF ParseRequest, QueueFails, StartTransfer, UpdateStep, UpdateReturns,
                    UpdatePanics, OpenFile, BeginAttempt, semVars, loopVars
<1>10. CASE LeaveLoop(q) \/ AttemptTimeout(q) \/ Classify(q)
  BY <1>2, <1>10 DEF LeaveLoop, AttemptTimeout, Classify, semVars, loopVars
<1> QED BY <1>4, <1>5, <1>6, <1>7, <1>8, <1>9, <1>10 DEF Step, OwnStep

\* The handler keeps the promise of the service, if it tries at least once.
THEOREM ServiceImplemented ==
  ASSUME \A n \in TriesConfigured : n > 0
  PROVE  Spec => ImplementsService
<1>1. Init => Service!Init
  BY DEF Init, Sem!Init, Service!Init
<1>2. Inv /\ Inv' /\ [Next]_vars => [Service!Next]_<<Held, Started, stored, answer>>
  <2> SUFFICES ASSUME Inv, Inv', [Next]_vars
               PROVE  Service!Next \/ UNCHANGED <<Held, Started, stored, answer>>
    OBVIOUS
  <2>1. CASE UNCHANGED vars
    BY <2>1 DEF vars, semVars, loopVars, Held, Started
  <2>2. ASSUME NEW q \in Requests, Step(q)
        PROVE  Service!Next \/ UNCHANGED <<Held, Started, stored, answer>>
    BY <2>2, StepIsService
  <2> QED BY <2>1, <2>2 DEF Next, Finished, Step
<1> QED BY <1>1, <1>2, RequestInvariant, PTL
        DEF Spec, ImplementsService, Service!Spec, Service!vars, Held, Started
-----------------------------------------------------------------------------
\* The attempts of all the requests.
BegunOf == [r \in Requests |-> Begun(r)]
Starters == {r \in Requests : Begun(r) > 0}

Accounted ==
  /\ attemptsTotal \in Int /\ retriesTotal \in Int
  /\ IsFiniteSet(Owned(Requests, BegunOf))
  /\ attemptsTotal = Cardinality(Owned(Requests, BegunOf))
  /\ IsFiniteSet(Starters)
  /\ attemptsTotal - retriesTotal = Cardinality(Starters)

\* An attempt that begins is one more of its request, and a first one or a
\* retry.
LEMMA BeginAccounted ==
  ASSUME Inv, Accounted, NEW q \in Requests, BeginAttempt(q),
         \A r \in Requests : r # q => Begun(r)' = Begun(r)
  PROVE  Accounted'
<1> DEFINE new == BegunOf'
           others == Requests \ {q}
<1>1. /\ Begun(q) \in Nat /\ Begun(q)' = Begun(q) + 1
      /\ IsRetry(q) <=> Begun(q) > 0
      /\ attemptsTotal' = attemptsTotal + 1
      /\ retriesTotal' = IF IsRetry(q) THEN retriesTotal + 1 ELSE retriesTotal
  BY DEF Inv, Shapes, Truthful, BeginAttempt, Begun, IsRetry, Go
<1>2. /\ BegunOf[q] = Begun(q) /\ new[q] = Begun(q) + 1
      /\ \A r \in others : new[r] = BegunOf[r]
  BY <1>1 DEF BegunOf
<1> HIDE DEF new
<1>3. /\ IsFiniteSet(Owned(others, BegunOf))
      /\ Cardinality(Owned(others, BegunOf)) = attemptsTotal - Begun(q)
  BY <1>1, <1>2, RemoveOwner DEF Accounted
<1>4. /\ IsFiniteSet(Owned(others \cup {q}, new))
      /\ Cardinality(Owned(others \cup {q}, new)) = Cardinality(Owned(others, BegunOf)) + new[q]
  <2>1. q \notin others /\ new[q] \in Nat
    BY <1>1, <1>2
  <2> HIDE DEF others
  <2> QED BY <1>2, <1>3, <2>1, AddOwner
<1>5. others \cup {q} = Requests
  OBVIOUS
<1>6. /\ IsFiniteSet(Owned(Requests, new))
      /\ Cardinality(Owned(Requests, new)) = attemptsTotal'
  BY <1>1, <1>2, <1>3, <1>4, <1>5 DEF Accounted
<1>7. CASE Begun(q) > 0
  <2>1. Starters' = Starters
    BY <1>1, <1>7 DEF Starters
  <2> QED BY <1>1, <1>6, <1>7, <2>1 DEF Accounted, new
<1>8. CASE ~(Begun(q) > 0)
  <2>1. Starters' = Starters \cup {q} /\ q \notin Starters
    BY <1>1, <1>8 DEF Starters
  <2>2. /\ IsFiniteSet(Starters \cup {q})
        /\ Cardinality(Starters \cup {q}) = Cardinality(Starters) + 1
    BY <2>1, FS_AddElement DEF Accounted
  <2> QED BY <1>1, <1>6, <1>8, <2>1, <2>2 DEF Accounted, new
<1> QED BY <1>7, <1>8

\* Every step of a request keeps the counters of attempts exact.
LEMMA AccountedKept ==
  ASSUME Inv, Accounted, \A n \in TriesConfigured : n > 0, NEW q \in Requests, Step(q)
  PROVE  Accounted'
<1> USE DEF loopVars, Go
<1>1. Shapes /\ Slotted(q) /\ Truthful(q) /\ UploadTries > 0 /\ UploadTries \in Int
  BY UploadAssumption DEF Inv, Shapes
<1>2. \A r \in Requests : r # q => Begun(r)' = Begun(r)
  BY <1>1, OthersUntouched DEF Untouched, Begun
<1>3. ASSUME Begun(q)' = Begun(q), UNCHANGED <<attemptsTotal, retriesTotal>>
      PROVE  Accounted'
  <2>1. UNCHANGED <<BegunOf, Starters>>
    BY <1>2, <1>3 DEF BegunOf, Starters
  <2> QED BY <1>3, <2>1 DEF Accounted
<1>4. ASSUME pc[q] # "loop", pc'[q] # "loop", attempts' = attempts,
             UNCHANGED <<attemptsTotal, retriesTotal>>
      PROVE  Accounted'
  BY <1>3, <1>4 DEF Begun
<1>5. pc \in [Requests -> Places] /\ attempts \in [Requests -> Nat]
  BY <1>1 DEF Shapes
<1>6. CASE BeginAttempt(q)
  BY <1>2, <1>6, BeginAccounted
<1>7. CASE OpenFile(q)
  <2>1. pc[q] = "open" /\ attempts[q] = 0 /\ UNCHANGED <<attemptsTotal, retriesTotal>>
    BY <1>1, <1>7 DEF OpenFile, Truthful
  <2>2. Begun(q)' = Begun(q)
    BY <1>5, <1>7, <2>1 DEF OpenFile, ReturnUpload, Begun
  <2> QED BY <1>3, <2>1, <2>2
<1>8. CASE LeaveLoop(q)
  BY <1>1, <1>5, <1>8 DEF LeaveLoop, Truthful
<1>9. CASE Classify(q)
  <2>1. pc[q] = "returned" /\ UNCHANGED <<attemptsTotal, retriesTotal>>
    BY <1>9 DEF Classify
  <2>2. \/ pc'[q] = "release" /\ attempts'[q] = attempts[q]
        \/ pc'[q] = "loop" /\ attempts'[q] = attempts[q] + 1
    BY <1>5, <1>9 DEF Classify, ReturnUpload
  <2>3. Begun(q)' = Begun(q)
    BY <1>5, <2>1, <2>2 DEF Begun
  <2> QED BY <1>3, <2>1, <2>3
<1>10. CASE Disconnect(q) \/ AcquireStep(q) \/ QueueTimeout(q) \/ UpdateStep(q)
  BY <1>3, <1>10 DEF Disconnect, AcquireStep, QueueTimeout, UpdateStep, Begun
<1>11. CASE AttemptTimeout(q)
  BY <1>3, <1>11 DEF AttemptTimeout, Begun
<1>12. CASE ParseRequest(q) \/ QueueFails(q) \/ StartTransfer(q)
              \/ UpdateReturns(q) \/ UpdatePanics(q)
  BY <1>4, <1>5, <1>12 DEF ParseRequest, QueueFails, StartTransfer, UpdateReturns, UpdatePanics
<1>13. CASE ReleaseSlots(q) \/ Respond(q) \/ UploadReturns(q)
  BY <1>4, <1>5, <1>13 DEF ReleaseSlots, Respond, UploadReturns
<1> QED BY <1>6, <1>7, <1>8, <1>9, <1>10, <1>11, <1>12, <1>13 DEF Step, OwnStep

\* The counters of attempts and retries add up, if there are tries.
THEOREM AttemptsAlwaysAccounted ==
  ASSUME \A n \in TriesConfigured : n > 0
  PROVE  Spec => []AttemptsAccounted
<1>1. Init => Accounted
  <2> SUFFICES ASSUME Init PROVE Accounted
    OBVIOUS
  <2>1. \A r \in Requests : Begun(r) = 0
    BY DEF Init, Begun
  <2>2. Owned(Requests, BegunOf) = {} /\ Starters = {}
    BY <2>1 DEF Owned, BegunOf, Starters
  <2> QED BY <2>2, FS_EmptySet DEF Init, Accounted
<1>2. Inv /\ Accounted /\ [Next]_vars => Accounted'
  <2> SUFFICES ASSUME Inv, Accounted, [Next]_vars PROVE Accounted'
    OBVIOUS
  <2>1. CASE UNCHANGED vars
    BY <2>1 DEF vars, loopVars, Accounted, BegunOf, Starters, Begun
  <2>2. ASSUME NEW q \in Requests, Step(q)
        PROVE  Accounted'
    BY <2>2, AccountedKept
  <2> QED BY <2>1, <2>2 DEF Next, Finished, Step
<1>3. Accounted => AttemptsAccounted
  BY DEF Accounted, AttemptsAccounted, Owned, BegunOf, Starters
<1> QED BY <1>1, <1>2, <1>3, RequestInvariant, PTL DEF Spec
-----------------------------------------------------------------------------
\* The semaphore under the handler, with what is proved of it.
Sema == INSTANCE SemaphoreProofs WITH
          Clients <- Requests, Limit <- UploadMaxParallel,
          Weights <- PartCounts, CallbackResults <- {"ok"}

\* What is proved of the semaphore by itself holds of it under the handler: the
\* count and the waiters the collector exports are exact, no callback outlives
\* its call, and a call that fails holds no slot (collector.go:101-102).
THEOREM SemaphoreFactsHold ==
  Spec => [](/\ Sema!TypeOK /\ Sema!SlotsAccounted /\ Sema!WaitersExact
             /\ Sema!CallbacksOver /\ Sema!ResultTellsSlots)
<1>1. Sem!Init => Sema!Init
  BY DEF Sem!Init, Sema!Init
<1>2. [Sem!Next]_(Sem!vars) => [Sema!Next]_(Sema!vars)
  BY DEF Sem!Next, Sem!vars, Sem!TryAcquire, Sem!StartWaiting, Sem!CallbackDone, Sem!Acquire,
         Sem!GiveUp, Sem!Return, Sem!Release, Sem!EndContext, Sem!Finished, Sem!Move, Sem!Grant,
         Sem!Fits, Sem!AfterGrant, Sem!OneMoreWaiter, Sem!OneWaiterLess, Sem!Succeeds,
         Sem!CallbacksEnded, Sem!GroupDone, Sem!ContextMatters,
         Sema!Next, Sema!vars, Sema!TryAcquire, Sema!StartWaiting, Sema!CallbackDone,
         Sema!Acquire, Sema!GiveUp, Sema!Return, Sema!Release, Sema!EndContext, Sema!Finished,
         Sema!Move, Sema!Grant, Sema!Fits, Sema!AfterGrant, Sema!OneMoreWaiter,
         Sema!OneWaiterLess, Sema!Succeeds, Sema!CallbacksEnded, Sema!GroupDone,
         Sema!ContextMatters
<1>3. Sem!Spec => Sema!Spec
  BY <1>1, <1>2, PTL DEF Sem!Spec, Sema!Spec
<1>4. Sema!SemaphoreAssumption
  BY UploadAssumption DEF Sema!SemaphoreAssumption, IsFiniteSet, Sema!IsFiniteSet
<1>5. Sema!Spec => [](Sema!TypeOK /\ Sema!SlotsAccounted /\ Sema!WaitersExact /\ Sema!CallbacksOver)
  BY <1>4, Sema!TypeCorrect, Sema!SlotsAlwaysAccounted, Sema!WaitersAlwaysExact,
     Sema!CallbacksAlwaysOver, PTL
<1>6. {"ok"} = {"ok"}
  OBVIOUS
<1>7. Sema!Spec => []Sema!ResultTellsSlots
  BY <1>4, <1>6, Sema!ResultAlwaysTellsSlots, PTL
<1> QED BY <1>3, <1>5, <1>7, SemaphoreUsedRight, PTL DEF UsesSemaphore

\* The types of what Inv says nothing of.
Totals ==
  /\ pacer \in [Requests -> {"out", "dividing", "targeted", "called", "panicked"}]
  /\ attemptsTotal \in Nat
  /\ retriesTotal \in Nat

\* Only the pacing steps move a pacer, only a new attempt moves the counters.
LEMMA TotalsKept == Totals /\ [Next]_vars => Totals'
<1> SUFFICES ASSUME Totals, [Next]_vars PROVE Totals'
  OBVIOUS
<1> USE DEF Totals, paceVars, loopVars
<1>1. ASSUME NEW q \in Requests, UpdateStep(q) \/ UpdateReturns(q)
      PROVE  Totals'
  BY <1>1 DEF UpdateStep, UpdateReturns, Pace!UpdateStep, Pace!UpdateReturns, Pace!LookAtCount,
              Pace!Divide, Pace!CallTracker, Pace!TrackerStep, Pace!updateVars, Pace!Pacer
<1>2. ASSUME NEW q \in Requests, BeginAttempt(q)
      PROVE  Totals'
  BY <1>2 DEF BeginAttempt
<1>3. ASSUME NEW q \in Requests,
             ParseRequest(q) \/ AcquireStep(q) \/ QueueTimeout(q) \/ QueueFails(q)
               \/ StartTransfer(q) \/ UpdatePanics(q) \/ OpenFile(q) \/ LeaveLoop(q)
               \/ AttemptTimeout(q) \/ Classify(q) \/ ReleaseSlots(q) \/ Respond(q)
               \/ UploadReturns(q) \/ Disconnect(q)
      PROVE  Totals'
  BY <1>3 DEF ParseRequest, AcquireStep, QueueTimeout, QueueFails, StartTransfer, UpdatePanics,
              OpenFile, LeaveLoop, AttemptTimeout, Classify, ReleaseSlots, Respond,
              UploadReturns, Disconnect
<1>4. CASE UNCHANGED vars
  BY <1>4 DEF vars
<1> QED BY <1>1, <1>2, <1>3, <1>4 DEF Next, OwnStep, Finished

\* The variables of the handler, its semaphore and its counters keep their types.
THEOREM RequestTypes == Spec => []TypeOK
<1>1. Init => Totals
  BY DEF Init, Pace!Init, Totals
<1>2. Inv /\ Totals /\ Sema!TypeOK => TypeOK
  BY DEF Inv, Shapes, Totals, TypeOK, Places, Sem!TypeOK, Sema!TypeOK, Sem!Places, Sema!Places
<1> QED BY <1>1, <1>2, TotalsKept, RequestInvariant, SemaphoreFactsHold, PTL DEF Spec
=============================================================================
