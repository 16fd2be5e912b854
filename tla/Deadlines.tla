----------------------------- MODULE Deadlines -----------------------------
(***************************************************************************)
(* How long a request may take: the server's start under its settings      *)
(* (Conf, cmd/s3nd/main.go) and one request of upload/handler.go on a      *)
(* clock of seconds, with the queue timeout, the timeout of each attempt   *)
(* with its exponential backoff, the timeouts of the HTTP server, and the  *)
(* times the task reports. Upload has the same request without a clock.    *)
(*                                                                         *)
(* The clock starts with the request. Timers fire when they are due, and   *)
(* what runs when a context is done takes no time; only waiting does: for  *)
(* the form, for slots, for S3.                                            *)
(***************************************************************************)
EXTENDS Conf, FiniteSetsExt

CONSTANTS
  Starts,         \* the flags and environments the server may be started with
  ServerTimeout,  \* ReadTimeout and WriteTimeout
  MaxDuration,    \* the largest time.Duration
  MaxReading      \* bound: how long a client takes to send its form

ASSUME DeadlinesAssumption ==
  /\ ServerTimeout \in Nat
  /\ MaxDuration \in Nat
  /\ MaxReading \in 0..(ServerTimeout - 1)
  /\ Starts \subseteq [Settings -> [flag : AnyText, env : AnyText]]

VARIABLES
  given,          \* the flags and the environment
  server,         \* where the start of the server is
  conf,           \* the configuration, once it is parsed
  pc,             \* where the request is
  now,            \* the seconds since the task's startTime
  queueEnd,       \* when the context of Acquire ends
  uploadQueued,   \* task.uploadQueued
  transferStart,  \* task.transferStartTime; Never: it is zero
  attempt,        \* task.UploadAttempts
  attemptStart, attemptEnd,  \* when the context of the attempt began and ends
  gone,           \* why the request's context was cancelled, if it was
  code,           \* the status code; 0: none yet
  times           \* what the task reports, in seconds

startVars == <<given, server, conf>>
attemptVars == <<attempt, attemptStart, attemptEnd>>
taskVars == <<queueEnd, uploadQueued, transferStart>>
answerVars == <<code, times>>
vars == <<startVars, attemptVars, taskVars, answerVars, pc, now, gone>>

Never == -1

Init ==
  /\ given \in Starts
  /\ server = "starting"
  /\ conf = [s \in Settings |-> 0]
  /\ pc = "none"
  /\ now = 0
  /\ queueEnd = 0
  /\ uploadQueued = FALSE
  /\ transferStart = Never
  /\ attempt = 0
  /\ attemptStart = 0
  /\ attemptEnd = 0
  /\ gone = "no"
  /\ code = 0
  /\ times = [total |-> 0, queued |-> 0, transfer |-> 0]

-----------------------------------------------------------------------------
ReadConf ==
  /\ server = "starting"
  /\ IF Rejected(given)
     THEN server' = "rejected" /\ UNCHANGED conf
     ELSE server' = "configured" /\ conf' = NewS3ndConf(given)
  /\ UNCHANGED <<given, attemptVars, taskVars, answerVars, pc, now, gone>>

\* NewS3ndHandler. The configuration of the AWS SDK, which has texts of its own,
\* may fail to load: the server exits. After it semaphore.New panics on a limit
\* that is not positive.
NewS3ndHandler ==
  /\ server = "configured"
  /\ \/ server' = "exited" /\ UNCHANGED pc
     \/ /\ conf["UploadMaxParallel"] > 0
        /\ server' = "serving"
        /\ pc' = "reading"
     \/ /\ conf["UploadMaxParallel"] <= 0
        /\ server' = "panicked"
        /\ UNCHANGED pc
  /\ UNCHANGED <<given, conf, attemptVars, taskVars, answerVars, now, gone>>

-----------------------------------------------------------------------------
\* What Stop makes of the task's times.
Queued == IF ~uploadQueued THEN 0 ELSE IF transferStart = Never THEN now ELSE transferStart

\* A wrong Transfer: the time in the queue is not taken off.
TransferWithQueue == IF transferStart = Never THEN 0 ELSE now

Transfer == IF transferStart = Never THEN 0 ELSE now - Queued

\* Stop or StopNoUpload, and the answer of ServeHTTP.
Answer(status) ==
  /\ code' = status
  /\ times' = [total |-> now, queued |-> Queued, transfer |-> Transfer]
  /\ pc' = "answered"

\* A wrong After: a negative timeout ends before it begins.
AfterUnclipped(duration) == now + duration

\* The context of a timeout that is not positive is done at once.
After(duration) == now + Max({duration, 0})

\* parseRequest; a part size of 0 makes DivCeil panic.
ParseRequest ==
  /\ pc = "reading"
  /\ \/ Answer(400) /\ UNCHANGED queueEnd
     \/ /\ conf["UploadPartsize"] # 0
        /\ queueEnd' = After(conf["QueueTimeout"])
        /\ pc' = "asking"
        /\ UNCHANGED answerVars
     \/ /\ conf["UploadPartsize"] = 0
        /\ pc' = "panicked"
        /\ UNCHANGED <<queueEnd, answerVars>>
  /\ UNCHANGED <<startVars, attemptVars, uploadQueued, transferStart, now, gone>>

\* TryAcquire has failed: the waiting callback marks the task.
JoinQueue ==
  /\ pc = "asking"
  /\ uploadQueued' = TRUE
  /\ pc' = "queued"
  /\ UNCHANGED <<startVars, attemptVars, queueEnd, transferStart, answerVars, now, gone>>

\* Acquire has returned nil: task.StartTransfer(), task.UploadAttempts = 1.
StartTransfer ==
  /\ pc \in {"asking", "queued"}
  /\ transferStart' = now
  /\ attempt' = 1
  /\ pc' = "loop"
  /\ UNCHANGED <<startVars, queueEnd, uploadQueued, attemptStart, attemptEnd, answerVars, now, gone>>

\* Acquire has returned an error: its context is done.
LeaveQueue ==
  /\ pc = "queued"
  /\ \/ now = queueEnd /\ Answer(408)
     \/ gone # "no" /\ Answer(418)
  /\ UNCHANGED <<startVars, attemptVars, taskVars, now, gone>>

-----------------------------------------------------------------------------
Constant(n) == n <= 1 \/ conf["UploadTimeoutFactor"] <= 1

\* math.Pow of the factor.
Power[n \in Nat] == IF n = 0 THEN 1 ELSE conf["UploadTimeoutFactor"] * Power[n - 1]

\* A wrong Exponent: the first retry has the square of the factor.
ExponentFromAttempt(n) == n

\* The attempts are counted from one.
Exponent(n) == n - 1

\* UploadTimeout: base * factor^(attempt - 1). What the conversion makes of a
\* product larger than any time.Duration depends on the processor: the smallest
\* Duration (amd64) or the largest (arm64). One that is too small becomes the
\* smallest on both.
UploadTimeout(n) ==
  LET t == conf["UploadTimeout"] * Power[Exponent(n)] IN
    IF Constant(n) THEN {conf["UploadTimeout"]}
    ELSE IF t > MaxDuration THEN {-MaxDuration, MaxDuration}
    ELSE {Max({t, -MaxDuration})}

\* The condition of the loop in uploadFileMultipart, and the attempt's context.
BeginAttempt ==
  /\ pc = "loop"
  /\ attempt <= conf["UploadTries"]
  /\ \E t \in UploadTimeout(attempt) : attemptEnd' = After(t)
  /\ attemptStart' = now
  /\ pc' = "uploading"
  /\ UNCHANGED <<startVars, attempt, taskVars, answerVars, now, gone>>

\* The loop is over, or was never entered: nil.
LeaveLoop ==
  /\ pc = "loop"
  /\ attempt > conf["UploadTries"]
  /\ Answer(200)
  /\ UNCHANGED <<startVars, attemptVars, taskVars, now, gone>>

\* Upload returns: the object is stored, or the bucket is missing, or the
\* request's context is done, or else the attempt has failed or timed out and
\* is followed by the next one, if there is one. 502 stands for 500 too: which
\* failure has which code is in Upload.
AttemptReturns ==
  /\ pc = "uploading"
  /\ \/ Answer(200) /\ UNCHANGED attempt
     \/ Answer(404) /\ UNCHANGED attempt
     \/ gone # "no" /\ Answer(418) /\ UNCHANGED attempt
     \/ attempt = conf["UploadTries"] /\ Answer(502) /\ UNCHANGED attempt
     \/ attempt = conf["UploadTries"] /\ now = attemptEnd /\ Answer(504) /\ UNCHANGED attempt
     \/ /\ attempt # conf["UploadTries"]
        /\ attempt' = attempt + 1
        /\ pc' = "loop"
        /\ UNCHANGED answerVars
  /\ UNCHANGED <<startVars, taskVars, attemptStart, attemptEnd, now, gone>>

-----------------------------------------------------------------------------
\* The client closes its socket.
Disconnect ==
  /\ pc \in {"asking", "queued", "loop", "uploading"}
  /\ gone = "no"
  /\ gone' = "left"
  /\ UNCHANGED <<startVars, attemptVars, taskVars, answerVars, pc, now>>

\* A deadline of the HTTP server: net/http takes the client for gone, and what
\* is written later does not reach it.
ServerCuts ==
  /\ pc \in {"asking", "queued", "loop", "uploading"}
  /\ now = ServerTimeout
  /\ gone = "no"
  /\ gone' = "cut"
  /\ UNCHANGED <<startVars, attemptVars, taskVars, answerVars, pc, now>>

\* A wrong Waits: the attempts have no timer.
WaitsForS3 ==
  \/ pc = "reading" /\ now < MaxReading
  \/ pc = "queued" /\ now < queueEnd
  \/ pc = "uploading"

\* Time passes while the request waits, up to the next timer.
Waits ==
  \/ pc = "reading" /\ now < MaxReading
  \/ pc = "queued" /\ now < queueEnd
  \/ pc = "uploading" /\ now < attemptEnd

Tick ==
  /\ Waits
  /\ gone = "no"
  /\ now < ServerTimeout
  /\ now' = now + 1
  /\ UNCHANGED <<startVars, attemptVars, taskVars, answerVars, pc, gone>>

Finished ==
  /\ server \in {"rejected", "exited", "panicked"} \/ pc \in {"answered", "panicked"}
  /\ UNCHANGED vars

Next ==
  \/ ReadConf \/ NewS3ndHandler
  \/ ParseRequest \/ JoinQueue \/ StartTransfer \/ LeaveQueue
  \/ BeginAttempt \/ LeaveLoop \/ AttemptReturns
  \/ Disconnect \/ ServerCuts \/ Tick
  \/ Finished

Spec == Init /\ [][Next]_vars

-----------------------------------------------------------------------------
TypeOK ==
  /\ given \in Starts
  /\ server \in {"starting", "rejected", "configured", "exited", "panicked", "serving"}
  /\ conf \in [Settings -> Int]
  /\ pc \in {"none", "reading", "asking", "queued", "loop", "uploading",
             "answered", "panicked"}
  /\ now \in 0..ServerTimeout
  /\ queueEnd \in Nat
  /\ uploadQueued \in BOOLEAN
  /\ transferStart \in Nat \cup {Never}
  /\ attempt \in Nat
  /\ attemptStart \in Nat
  /\ attemptEnd \in Nat
  /\ gone \in {"no", "left", "cut"}
  /\ code \in {0, 200, 400, 404, 408, 418, 502, 504}
  /\ times \in [{"total", "queued", "transfer"} -> Nat]

\* The time the code allows to each attempt: the first is given the upload
\* timeout, each further one the factor times as much as the one before it, if
\* the factor is more than one. The code takes a factor below one for one.
Allowed[n \in Nat] ==
  IF n <= 1 THEN conf["UploadTimeout"]
  ELSE Max({conf["UploadTimeoutFactor"], 1}) * Allowed[n - 1]

\* What the first n attempts may take together.
Budget[n \in Int] == IF n <= 0 THEN 0 ELSE Budget[n - 1] + Max({Allowed[n], 0})

\* A valid request is answered before its queue timeout and the timeouts of all
\* its tries have passed, whatever S3 and the other requests do: nothing but the
\* two waits takes time, each has its timer, and a retry does not queue again
\* (README.md:208-217: 10 tries of 3 s "Could result up in to 30s elapsing before
\* a transfer is reported as failed").
AnsweredInTime ==
  pc \in {"asking", "queued", "loop", "uploading"} \/ code \notin {0, 400} =>
    now <= queueEnd + Budget[conf["UploadTries"]]

\* Nobody is timed out early or late. 408: the queue timeout has passed since
\* the form was read. 504: the last attempt had the time that README.md:221-230
\* promises it, the upload timeout times the factor once for every try before
\* it. Nothing is said of a product that is more than a Duration can hold, which
\* the conversion may turn into no time at all, nor of a factor below one: for
\* "a value other than one" (README.md:221) the document has a backoff and the
\* code a constant timeout.
TimeoutsHonoured ==
  /\ code = 408 => now = queueEnd
  /\ code = 504 /\ conf["UploadTimeoutFactor"] >= 1 /\ Allowed[attempt] <= MaxDuration =>
       now - attemptStart = Max({Allowed[attempt], 0})

\* The times of the task, which are logged, answered and exported, add up: the
\* time in the queue and the time of the transfer are parts of the total that
\* do not overlap, a request that did not wait reports no time in the queue,
\* one that never started reports no transfer, and waited all the time it was
\* there. The time the form took to arrive is counted with one or the other.
TimesTrue ==
  code # 0 =>
    /\ times.total = now
    /\ transferStart # Never =>
         /\ times.queued + times.transfer = times.total
         /\ times.queued <= queueEnd
         /\ uploadQueued => times.transfer <= Budget[conf["UploadTries"]]
    /\ transferStart = Never => times.transfer = 0
    /\ uploadQueued /\ transferStart = Never => times.queued = times.total
    /\ ~uploadQueued => times.queued = 0

\* "If a flag is not set, the environment variable is used. Errors are fatal"
\* (conf.go:63-64). The server goes on with the flags it was given and, for what
\* it parses as a text, with the environment where there is no flag; it has its
\* defaults where there is neither; and it is rejected only for a text it would
\* use that is missing or wrong. Nothing is said of an integer in the
\* environment: the code does not follow the comment there (IntFromEnv).
SettingsAsGiven ==
  /\ server \in {"configured", "exited", "serving", "panicked"} =>
       \A s \in Settings :
         LET flag == given[s].flag
             env == given[s].env
         IN  /\ flag # Unset => flag = Number(conf[s])
             /\ s \in Texts /\ flag = Unset /\ env # Unset => env = Number(conf[s])
             /\ flag = Unset /\ env = Unset =>
                  conf[s] = IF s \in Ints THEN IntDefault[s] ELSE TextDefault[s].value
  /\ server = "rejected" =>
       \E s \in Settings :
         \/ given[s].flag = Garbage
         \/ s \in Texts /\ given[s].flag = Unset /\ given[s].env = Garbage
         \/ s = "EndpointUrl" /\ given[s] = [flag |-> Unset, env |-> Unset]

-----------------------------------------------------------------------------
\* A request whose client stays gets its answer (README.md:62, "held open until
\* [..] a definitive transfer status [..] is returned"), however long it takes.
StayingClientIsAnswered == code # 0 => gone # "cut"
=============================================================================
