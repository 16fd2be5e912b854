# A verification of s3nd

`s3nd` is a small HTTP service that uploads local files to S3. A client POSTs a
file name and an S3 URI, the request is held open until the upload has
succeeded or failed, and the status code tells which. What makes it delicate is
what it shares between requests: a limit on parallel transfers, a bandwidth
limit that is divided anew whenever a transfer starts or ends, and a table of
TCP connections that is changed by the HTTP transport while the other two work
on it.

This directory holds TLA+ models of that machinery, the TLC configurations that
check them, and TLAPS proofs of all their safety properties. Paths such as `handler.go`
are relative to `src/`.

## 1. Inventory

### Components

| Component | State | Operations | Modelled |
|---|---|---|---|
| semaphore (`semaphore/semaphore.go`) | count of taken slots (in the library), `waiters` | `Acquire`, `TryAcquire`, `Release`, `GetCount`, `Waiters` | `Semaphore` |
| connection tracker (`conntracker/conntracker.go`) | `uploadPace` (atomic); `active`, `closed`, `tcpInfoSumClosed` (under `mu`); the sockets | `SetPacingRate`, `DialContext`, `Close`/`markClosed`, `TcpInfo`, `Connections`, `Monkey` | `ConnTracker`, `Collector` (partly) |
| pacing rate (`updatePacingRate`, `util.DivCeil`) | none of its own; reads the semaphore's count, writes the tracker's rate | one function, called by every request twice and once at start-up | `Pacing`, `Rebalance` |
| upload handler (`upload/handler.go`) | per request: task, contexts, error; shared: Prometheus counters | `ServeHTTP`, `doServeHTTP`, `parseRequest`, `uploadFileMultipart`, `UploadTimeout`, the `UploadTask` | `Upload`, `UploadService`, `Deadlines` (partly) |
| configuration (`conf/conf.go`) | constants after start-up | `NewS3ndConf` | `Conf` (partly: ten settings) |
| HTTP server (`cmd/s3nd/main.go`) | `net/http` server with timeouts | starts, routes requests | start-up and timeouts, in `Deadlines` (partly) |
| metrics collector (`collector/collector.go`) | none; reads tracker and semaphore | `Collect` | `Collector` |
| client library (`client/`) | goroutines, a channel, a wait group | `Upload`, `UploadMulti`, `Version` | `Client` (partly) |
| version endpoint, generated API docs | constants | answer a GET | no: nothing can go wrong over time |

### How they interact

* `net/http` runs one goroutine per request. It parses the form, then calls
  `Semaphore.Acquire` with one slot per part of the file, under a context that
  ends with the client or with the queue timeout. `Acquire` tries once without
  waiting, then counts itself as a waiter, starts a goroutine with a logging
  callback and blocks in the library.
* With its slots in hand the request calls `updatePacingRate`, which loads the
  semaphore's count *twice* and calls `ConnTracker.SetPacingRate`, which stores
  the rate (atomic) and then goes through the active connections (under `mu`).
* The S3 SDK uploads the parts on goroutines of its own; the HTTP transport
  dials through `ConnTracker.DialContext`, which puts the connection in the map
  (under `mu`), loads the rate twice (atomic) and sets it (no lock). It closes
  connections whenever it likes, also long after the request.
* Deferred calls give the slots back, then update the rate again. The answer is
  written after that, so a panic in the second update loses the answer.
* A scrape of `/metrics` reads all of it at any time: the sum of `TCP_INFO` over
  the active connections and the closed ones in one critical section of `mu`, in
  which it makes one system call per connection, the number of connections in a
  second one, slots and rate from atomics.
* The client library's `UploadMulti` sends one request per file on goroutines of
  their own and waits for all of them before it reads their results.

### What is hard, and the properties that matter

* **Semaphore**: the end of a context races with the grant; an error must mean
  "no slots", nil must mean "slots"; the unsigned `waiters` must come back to
  zero; waiting callbacks must be over when `Acquire` returns; nobody who could
  get slots waits for ever.
* **Connection tracker**: map and rate are guarded by different means; a
  connection must leave the map before its descriptor is closed; no connection
  may slip between a dial and a setter without a rate; the exported totals may
  not go backwards when a connection moves from "active" to "closed".
* **Pacing**: updates overlap each other and the changes of the count; the
  division must not see zero; the last word must not belong to a stale share.
* **Handler**: three sources of cancellation (client, queue timer, attempt
  timer) plus the server's own timeouts; errors of S3 that may arrive with any
  of them; S3 may have stored what it did not confirm; every way out must give
  back exactly the slots taken; 200 must mean stored; every request must end.
* **Scrapes**: a counter must never go backwards while connections send, close
  and open under the walk; a closed descriptor must not be asked.
* **Time**: three timers, a backoff that may overflow and the server's own
  deadlines decide when a request ends; the times it reports are differences of
  readings taken on different paths; a setting may come from a flag, from the
  environment or from a default.
* **Client**: nobody receives from the channel before all goroutines are done,
  so its buffer must hold every status; no status or error may be lost.

`PROJECT.json` lists these hazards one by one with the line where each bites.

## 2. The modules

```
SlotPool                      abstract: a pool of slots, no counter
   ^ implemented by
Semaphore
   ^ instance, and refined by (UsesSemaphore)
Upload  ---> Pacing ---> ConnTracker      (Pacing: instance in Upload, with no connections)
   |           ^             ^
   |       Rebalance     Collector         (EXTENDS: uploads and updates; a scrape)
   v implements
UploadService                 abstract: slots, objects and answers, no queue, timer or error

Deadlines ---> Conf           one request on a clock, started with given settings
Client                        the client library, by itself

SlotLemmas                    how many slots, or bytes, a set of owners has
   ^ EXTENDS                       used by SemaphoreProofs, RebalanceProofs, UploadProofs
InductionLemmas               induction; recursions and sums
                                   used by CollectorProofs, DeadlinesProofs
UploadProofs ---> SemaphoreProofs  (instance: what is proved of Semaphore holds in Upload)
ClientProofs                       by itself
```

The proofs about a module are in the module named after it; those about
`ConnTracker` are in `CollectorProofs` with those about `Collector`, those about
`Pacing` in `RebalanceProofs` and those about `Conf` in `DeadlinesProofs`.

An operator whose comment begins with "A wrong ..." is a plausible mistake in
the definition that follows it. No specification uses it; the runs were shown to
notice when it takes the place of the right one.

**`Semaphore`** One client is one goroutine making one call of `Acquire` and,
if it succeeds, one of `Release`. Each atomic access of the Go code is an
action: `TryAcquire`, `StartWaiting` (`waiters.Add(1)` and the `errgroup`),
`CallbackDone`, `Acquire`/`GiveUp` (the library returns nil or the context's
error), `Return` (`g.Wait`, the deferred decrement), `Release`, `EndContext`.
The library is external; it is modelled as what it is, a compare-and-swap of a
counter without a queue, so large requests may be overtaken. A grant under a
context that has just ended is allowed: the library checks the context before.

**`SlotPool`** What the limit promises, in one variable: what each client holds.

**`ConnTracker`** `uploadPace` is the atomic; a critical section of `mu` is one
action; `CheckPace` and `LoadPace` are the two loads of `DialContext`,
`PaceDialed` its `setsockopt`; `StorePace` and `ApplyPace` are the two halves
of `SetPacingRate`. `setsockopt` and `getsockopt(TCP_INFO)` may fail; the
history variable `failed` records where. `TCP_INFO` is reduced to one counter
per socket, which is enough to tell whether totals are lost or counted twice.
`OnSocket` is the cut to 32 bits of `unix.SetsockoptInt`.

**`Collector`** `Collect` beside the tracker. `BeginTcpInfo` takes `mu`, each
`AskConn` is the `getsockopt` of one connection of the map, `AddClosed` adds the
connections that are closed and leaves; `CountConns` is the second critical
section, `Export` writes the metrics out. `ScrapeLocks` says when the lock is
held: no step of the tracker that needs `mu` may then be taken, every other may,
so connections send and sockets get rates between two of the system calls. One
refused `getsockopt` leaves the tracker's metrics out of this scrape. The gauges
(slots, rate) are whatever they are when read and are not kept. `knownBefore`,
a history variable, is what the tracker knew (the bytes of the closed
connections and of the active ones) when the scrape began.

**`Pacing`** The steps of `updatePacingRate`, for any number of goroutines at
once, over the tracker's own actions. It has no next-state relation.

**`Rebalance`** Uploads that take slots, run the first update, transfer, give
the slots back and run the second, together with the connections. `lone` is a
history variable: the upload whose update began last, if no other was running.
Connections are dialed for a transfer, but `net/http` lets a dial outlive the
request it was made for (`Transport`).

**`Upload`** A request from `ServeHTTP` to its answer; `pc` says where it is.
It composes the actions of `Semaphore` and `Pacing` by instance. The errors the
code wraps and joins are modelled as the set of sentinels that `errors.Is` and
`errors.As` find in them, because `ServeHTTP` chooses the status by exactly
those tests, in order (`StatusCode`). `Results` is what the S3 uploader may
return given the state of its context; any failure but a missing bucket may
leave the object stored. An attempt begun for a client that has left has a
context that is done from the start (`AttemptContext`): nothing is sent to S3,
but the SDK may fail with an error of another kind before it looks at the
context, and the loop then goes on to the next try, up to the last. `Disconnect` is the client closing its socket or a
deadline of the server passing, which `net/http` turns into the same
cancellation. 418 stands for the branch that finds the client gone.
`UploadTries` is a variable that never changes, so that one run can start with
several values of it.
The TCP connections are left to `Rebalance`, which has the same updates.

**`UploadService`** What a request promises, in four variables: the slots it
holds, whether it ever started, whether S3 has its object, its answer. `Codes`
says which answers are true of which state; `Answer` needs the slots to be back.

**`Conf`** `NewS3ndConf` as a function of what was given for each setting by
flag and in the environment: integers, whose environment text goes through
`Atoi` with the error dropped, and texts (durations, quantities, the endpoint),
which are rejected when they cannot be parsed. A text stands for its number.

**`Deadlines`** The start of the server (`ReadConf`, which may reject the
settings, `NewS3ndHandler`, which exits when the configuration of the AWS SDK
cannot be loaded and panics when the semaphore cannot be made) and then one request on a clock that counts seconds. Only waiting takes
time (`Waits`): for the form, for slots, for S3. The three timers and the
deadlines of the HTTP server are points in time; an attempt may return when its
timer is due or earlier, with or without an error. `UploadTimeout` is the
backoff in integers. A product too large for a `time.Duration` may come out as
either end of its range, since the conversion from `float64` is up to the
processor (amd64 gives the smallest, arm64 the largest); one too small becomes
the smallest on both. `MaxDuration` is that range, scaled down. The times of the task (queue time,
transfer time, start and end) are those of `Stop` and `StopNoUpload`.

**`Client`** `UploadMulti`: the loop that starts goroutines (`Start`,
`AllStarted`), each goroutine's `Upload` (an answer, or none), send and deferred
`Done`, then `Close`, the loop that drains the channel (`Collect`) and the
return. A status is named by its file; the server is external and answers 200 or
something else, which is what `Upload` (the module) is about.

**`MC*`** give TLC its model values and the symmetry sets. Symmetry is used
only in runs without liveness.

## 3. The runs

| Run | Question | Bounds |
|---|---|---|
| `Semaphore` | counters exact, answer of `Acquire` tells who has slots, pool implemented, nobody stranded | 3 clients, limit 3, weights 1, 2, 4 (below, together above, alone above the limit) |
| `Collector` | map holds open descriptors only, every connection counted once, nothing unpaced; no closed socket is asked, what is exported is true and never goes back but by what a failed `TCP_INFO` had | 2 connections, 2 setters, 1 rate, 2 bytes each, faults on (3 million states) |
| `Rebalance` | a holder's update never panics, paced from the start, a lone update is exact | 3 uploads of 1 or 2 slots of 3, 1 connection, limit 5 (not divisible by 2 or 3) |
| `Upload` | what each answer means, slots, counters, a cancelled request waits for nothing, `UsesSemaphore`, `ImplementsService` | 2 requests, 2 slots, 1 to 3 parts, 3 tries, no bandwidth limit |
| `UploadLiveness` | every valid request is answered; slots are back after a panic and an empty loop | 2 requests, 1 slot, 1 or 2 parts (2 can never start), 0 or 1 tries, bandwidth limit on, also URIs without a path |
| `Deadlines` | flags, texts of the environment and defaults arrive as given, timers and backoff are honoured, the answer comes within the sum of the timeouts, the reported times add up | each setting, one at a time, given in 25 ways by flag and environment (not at all, garbage, -1, 0, 4), and a negative timeout with factor 4 and 4 tries (`Negative`); 3 tries of 2, 4 and 8 s; server timeout and longest duration scaled to 30 s |
| `Client` | one status per file, no error lost, no deadlock between wait group and channel | 3 files, statuses 200 and 504 |

The actors are interchangeable and interact only through the count, the rate
and the map, so two or three suffice: every race the code has is between two of
them, and a third shows whether it is repaired or made permanent. Weights cover
the three relations to the limit. Three tries distinguish first, middle and
last. The rates are small numbers, as only equality, order and rounding matter.
Two bytes per connection let a counter be read, grow and be read again. In
`Deadlines` the shortest timeouts at which the backoff still shows are enough,
because only their order and sums matter; the scaled longest duration makes the
backoff overflow with the factor 4, upwards with a timeout of 2 s and downwards
with one of -1 s, and one second is the longest the form takes
(`MaxReading`).

### Runs that find a disagreement

Each checks one statement of the code's comments or documentation, and TLC
refutes it.

| Run | Statement | What happens |
|---|---|---|
| `RebalanceDivide` | `handler.go:733` "avoid div by zero" | the count is loaded again as the divisor; the last two releases race and `DivCeil` panics |
| `RebalanceAggregate` | `conf.go:125` "aggregate bandwidth limit" | two first updates overlap, the share of one upload is stored last while two transfer |
| `ConnTrackerGauge` | `collector.go:35` "the current SO_MAX_PACING_RATE set on active upload sockets" | two setters store in one order and apply in the other |
| `UploadZeroTries` | `handler.go:438` "upload succeeded" | `upload-tries` 0 is accepted, nothing is uploaded, the answer is 200 |
| `DeadlinesServer` | `README.md:62` "held open until [..] a definitive transfer status" | the server's 60 s timeouts (`main.go:62`) end a request that legally lasts longer; this run has the real 60 s |

Three more disagreements of the code with what is written about it have no run,
and no property is stated that would hide them:

* `README.md:188-189`: "An object using multipart transfers is currently
  considered as 1 object by this quota". The code takes one slot per part
  (`handler.go:551`, `SlotsFor`), so a file of more parts than
  `upload-max-parallel` is never uploaded; it ends with 408 or 418, as
  `UploadLiveness` has it (2 parts, 1 slot).
* `README.md:221`: the backoff is enabled by any factor "other than one". The
  code ignores factors of zero and less (`handler.go:652`, `Constant`).
  `TimeoutsHonoured` is about factors of one and more.
* `conf.go:63-64`: "If a flag is not set, the environment variable is used.
  Errors are fatal". An integer in the environment that is no number, or 0,
  silently gives way to the default (`IntFromEnv`). `SettingsAsGiven` says
  nothing of integers in the environment.

Also seen while modelling, without a run: a connection whose
`setsockopt` fails in `DialContext` is returned with an error, never closed and
active for ever (place "dropped"); `s3://bucket` (no path) panics at
`handler.go:622` (`ParseRequest` models it, `UploadLiveness` shows that it costs
no slots); an S3 API error is answered 502, which `handler.go:410-417` does not
document; the histogram of attempts observes 0 for rejected requests too,
contrary to its help (`handler.go:148`); `README.md:183` gives each TCP stream
the whole limit, the code gives it the share of one slot; rates of 2^32 B/s and
above are cut to 32 bits on their way to the socket (`conntracker.go:288`), and
a negative limit becomes a huge one; the loop over the tries does not look at
the request's context, so that a client that has left may still cost an attempt
for every try, without a transfer; a part size of 0 panics in every
request, a parallelism of 0 or less when the server starts, and both are
accepted; a server with no tries reports one attempt for each request; the time
a client takes to send its form counts as waiting for slots, or as transfer if
there was no wait; each retry sends the file from its start, since the SDK reads
an `os.File` by offset; the numbers of one scrape may belong to different
moments, one refused `TCP_INFO` leaves the tracker out of it, and what a
connection sends between `markClosed` and the close of its socket is counted
nowhere.

### Fairness

* `Semaphore!FairSpec`: weak fairness of each step of a goroutine and of a
  holder's `Release` (in the handler every path releases, which `Upload`
  checks). Nothing is assumed of timers. With weak fairness of the grant,
  `NoStrandedWaiter` says that no lost wakeup exists in a run in which the
  slots stay free; a client that is overtaken for ever is possible in the
  library, but not here, because each client calls once.
* `Upload!FairSpec`: weak fairness of a request's own steps, which include the
  queue and attempt timers: both are armed by `context.WithTimeoutCause` on
  every path that waits. The SDK is assumed to return once its context is done,
  never before; S3 may be silent for ever. Clients need not leave, and other
  requests need not finish.
* `Client!FairSpec`: the goroutines and the caller are scheduled, and every
  `Upload` returns, because the server answers or the connection breaks. The
  run allows the model to stop, since `UploadMulti` returns once; a deadlock
  before that is a violation of `MultiReturns`.

## 4. What is proved

Each theorem holds for every finite set of actors and every value of the
constants that the `ASSUME` of the module allows. Those assumptions are what the
library requires of its arguments and what the kinds of the Go types say (for
`Deadlines`: that a setting is a text that is a number, is none, or is absent);
the theorems that need more state it as a hypothesis: that callbacks return nil
(the handler's do), that there is at least one try (the configuration does not
enforce it, see `UploadZeroTries`), that the bandwidth limit is below 2^32 bytes
per second (it is not enforced either; see the cut below).

Every invariant and every action property that a passing run checks has a
theorem.

| Theorem | Meaning |
|---|---|
| **`SemaphoreProofs`** | |
| `TypeCorrect` | types hold; in particular the unsigned counters never pass below zero |
| `SlotsAlwaysAccounted` | the count is the number of slots taken, within the limit |
| `WaitersAlwaysExact` | `Waiters()` is the number of goroutines blocked in `Acquire` |
| `CallbacksAlwaysOver` | `Acquire` has returned only when its callbacks have |
| `ResultAlwaysTellsSlots` | nil means slots, an error means none, if no callback fails |
| `PoolImplemented` | every step is a step of `SlotPool` or a stutter |
| **`UploadProofs`** | |
| `AnswersAlwaysTrue` | what the answers 400, 404, 408, 418, 502 and 504 say is so |
| `SuccessAlwaysStored` | 200 means stored, if there is at least one try |
| `TransfersAlwaysCovered` | the parts in flight have slots, and every way out has given them back |
| `CancelledAlwaysAborted` | no attempt and no wait for slots of a cancelled request has a context that still runs |
| `AttemptsAlwaysAccounted` | the counters of attempts and retries are exact, if there is at least one try |
| `SemaphoreUsedRight` | the handler, with all its timers, makes only steps of `Semaphore` |
| `ServiceImplemented` | the handler implements `UploadService`, if there is at least one try |
| `SemaphoreFactsHold` | what is proved of `Semaphore` by itself holds of it under the handler |
| `RequestTypes` | types hold |
| **`CollectorProofs`** | |
| `ActiveAlwaysOpen`, `ConnectionsAlwaysExact`, `NeverUnpaced` | the invariants of the tracker |
| `ScrapedTrackerIsTracker` | a scrape changes nothing of the tracker: what is proved of `ConnTracker` holds of `Collector` |
| `NeverEverAsksClosed` | a scrape asks open sockets only |
| `ScrapeAlwaysTrue` | what is exported is between what was known when the scrape began and what the sockets have sent |
| `ScrapeAlwaysMonotone` | the exported counters go back by no more than the connections with a failed `TCP_INFO` had sent |
| `ScrapeTypes` | types hold |
| **`RebalanceProofs`** | |
| `HoldersNeverPanic` | the update before a transfer never divides by zero |
| `AlwaysPaced` | no connection in use is ever without a rate, if the limit is below 2^32 B/s |
| `LoneUpdateAlwaysExact` | an update that runs alone leaves the rate of the present count |
| `RebalanceTypes` | types hold; the count is never negative |
| **`ClientProofs`** | |
| `StatusesAlwaysWhole`, `SuccessAlwaysMeansAll` | no status and no error is lost, no send meets a closed channel |
| `MultiTypes` | types hold; the wait group is never negative |
| **`DeadlinesProofs`** | |
| `AlwaysAnsweredInTime` | for all settings, an answer comes within the queue timeout and the timeouts of all tries |
| `TimeoutsAlwaysHonoured` | a 408 comes when the queue timeout has passed, a 504 when the last attempt had the time that timeout and factor, of one or more, give it |
| `TimesAlwaysTrue` | queue time, transfer time and total add up on every path |
| `SettingsAlwaysAsGiven` | a server that goes on has the flags, texts and defaults it was given, one that is rejected has a reason among them |
| `DeadlineTypes` | types hold; no reported time is negative |

The arguments:

* *Slots.* Sums are cardinalities: `SlotLemmas` gives each owner one element per
  slot and says how the number of elements changes when an owner comes or goes.
  `SlotsAccounted` is not inductive: `Release` subtracts `need[c]`, so one must
  know that a client in "held" is in `took` (`TakenPlaces`), that its weight is
  a positive number it chose (`NeedIsWeight`), and then that removing it removes
  exactly `need[c]` elements. `IInv` joins these with the counting of waiters
  and callbacks. In `RebalanceProofs` the same lemmas show that the count is at
  least what an upload holds, which keeps it positive between the two loads of
  an update, whatever the others do there.
* *A request.* `UploadProofs` splits its invariant by request. `Slotted` ties
  the place of a request in `doServeHTTP` to the place of its call of `Acquire`
  and to its slots; `Truthful` says what is known of its contexts, attempts and
  object at each place, and `Explained` that the error it carries is true;
  `Aborted` that no context made for a request outlives it. Another request changes none of
  this (`OthersUntouched`), so each is proved against the steps of its own
  request. The only fact about all of them is `Counted`. The refinements follow:
  where a request is tells which step of the abstract module its step is.
  `SemaphoreUsedRight` also lets the theorems of `SemaphoreProofs` be used as
  they stand, by instance (`SemaphoreFactsHold`): the handler's callbacks return
  nil, so the hypothesis of `ResultAlwaysTellsSlots` is met.
* *The tracker.* `Lives` says where each connection is by what was done to it;
  `SetterComes` that a connection whose rate is stale has a setter before it
  that has stored and not yet gone through the map, which is what the double
  check in `DialContext` achieves. `ScrapedTrackerIsTracker` is the step-by-step
  argument that `Collector` only restricts the tracker; `AskedAreActive`, that
  what the walk has still to ask is in the map, is kept because `mu` is held.
* *A scrape.* The sums over connections are folds; `SumIsOwned` turns each into
  the number of bytes a set of connections owns, which the lemmas about slots
  then count. `ScrapeInv` says that a total is at most what the asked
  connections have sent, and that with what is still to be asked it is at least
  what was known when the scrape began (`Totals`); and that what was exported is
  still known, but for what failed connections had sent (`StillKnown`). The
  latter needs `ClosedSent`, since a connection that closes moves its bytes from
  one sum to the other, or to the failed ones. `TrackerGrows` is what all of it
  needs of the tracker: what it knows and what has failed, together, never
  become less, whichever step it takes beside the scrape.
* *The pacing.* `RatesOfLimit`: every rate that is stored, loaded or on a socket
  is one of `1..BwLimitBytes`, because the share of a limit that is not zero
  rounds up (`ShareOfLimit`) and a rate below the width passes the cut to 32 bits
  unchanged (`SocketRate`). `LoneUpdate` follows an update from load to store:
  while it is alone, the share it has computed, or stored, is that of the present
  count, because whoever changes the count has an update of its own to make and
  so ends its being alone.
* *Time.* `IInv` of `DeadlinesProofs` bounds the clock at each place: by
  `queueEnd` before the transfer, and in the loop by the start of the transfer
  plus `Budget[attempt - 1]`, the time that the attempts begun so far may have
  used. It rests on what the recursive functions compute: `PowerIs`,
  `AllowedIs` and `BudgetIs` show that each satisfies its equation, and
  `TimeoutIs` that no timer, overflowed or not, gives an attempt more than it is
  allowed. `SettingsAsGiven` is a statement about `NewS3ndConf` as a function
  (`IntAsGiven`, `TextAsGiven`, `RejectedAsGiven`).
* *Induction.* The induction theorems of the library have an operator as a
  parameter and cannot be used. `InductionLemmas` does without: the
  counterexamples of a statement are a *set* of numbers, which has a least
  element (`LeastNat`, from the well-foundedness of `<`), and the statement is
  shown to hold of it. That gives that a recursion defines a function
  (`RecursionExists`), that its values are integers (`RecursionTyped`), and the
  sum over a set as a cardinality (`SumIsOwned`).
* *The client.* What was sent is in the channel or in the result, once, and the
  wait group counts the goroutines that have not called `Done`; when it is zero
  all have sent.

Two statements were wrong as they stood, and the failed proof showed it. That of
`TimeoutsHonoured` did not go through when the backoff of a negative timeout fell
below the smallest `Duration`: the model let the conversion give the largest one,
which no processor does; `UploadTimeout` now tells the two overflows apart and
the run `Deadlines` meets both. `PacedFromTheStart` is false of a limit that is a
multiple of 2^32, which the system call cuts to no rate at all, hence the
hypothesis of `AlwaysPaced`.

Model-checked only: liveness under fairness (`NoStrandedWaiter`,
`DoneContextReturns`, `EveryRequestAnswered`, `MultiReturns`), which is outside
the prover's reach; and the five statements that a run refutes.

## 5. Not modelled

Names, sizes, log lines, traces and the labels of metrics: no property is about
them. File contents: the number of parts is an input, so a file that changes
between `stat` and upload is not seen. The mean of the round-trip times in
`TcpInfo`, a gauge (it is NaN converted to an integer when no connection is
active, `conntracker.go:215`). The counters of `TCP_INFO` that the kernel itself
lowers again (lost, sacked, retrans), which are exported as totals: the model's
one counter only grows, as the byte counts do. The text of durations and
quantities; the host, which any text is good for; the flag that prints the
version; the failure to listen on the port. The library's `SetLimit` is never
called. The version endpoint and
the generated documentation answer with constants. There is no crash recovery:
the program keeps nothing across a restart.

## 6. Plan

1. The cut of the rate to 32 bits as a run, with a rate that is a multiple of
   the width, or as a lemma that the hypothesis of `AlwaysPaced` is necessary.
2. `GaugeTellsSockets` for a single setter, and `AggregateWithinLimit` for
   updates that do not overlap, as theorems: what the refuted statements need to
   become true.
3. `Deadlines` for more than one request, so that a queue timeout meets a slot
   that another request frees.
