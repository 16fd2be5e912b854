--------------------------- MODULE UploadService ---------------------------
(***************************************************************************)
(* What the upload service promises of a request, seen from outside        *)
(* (README.md:62-68, 169, 189 and the answers of upload/handler.go:410):   *)
(* it may take slots once, within the limit; S3 may get its object only    *)
(* while it has them; it gives them back; and only then is it answered,    *)
(* once, with a code that is true of what happened. There are no queues,   *)
(* timers, attempts or errors here.                                        *)
(***************************************************************************)
EXTENDS Integers, FiniteSets

CONSTANTS Requests, Limit, Weights

VARIABLES
  held,     \* the slots each request holds
  started,  \* the requests that were ever given slots
  stored,   \* the requests whose object is in S3
  answer    \* the status code of each request; 0: none yet

vars == <<held, started, stored, answer>>

Init ==
  /\ held = [r \in Requests |-> 0]
  /\ started = {}
  /\ stored = {}
  /\ answer = [r \in Requests |-> 0]

HeldSlots == UNION {{r} \X (1..held[r]) : r \in Requests}

Take(r, n) ==
  /\ r \notin started
  /\ answer[r] = 0
  /\ Cardinality(HeldSlots) + n <= Limit
  /\ held' = [held EXCEPT ![r] = n]
  /\ started' = started \cup {r}
  /\ UNCHANGED <<stored, answer>>

Store(r) ==
  /\ held[r] # 0
  /\ stored' = stored \cup {r}
  /\ UNCHANGED <<held, started, answer>>

GiveBack(r) ==
  /\ held[r] # 0
  /\ held' = [held EXCEPT ![r] = 0]
  /\ UNCHANGED <<started, stored, answer>>

\* The codes that are true of a request: the upload has succeeded; S3 or the
\* network failed it; the request was malformed or never got its slots; the
\* client left, or something else went wrong, before or after the start.
Codes(r) ==
  (IF r \in stored THEN {200} ELSE {})
    \cup (IF r \in started THEN {404, 502, 504} ELSE {400, 408})
    \cup {418, 500}

Answer(r) ==
  /\ answer[r] = 0
  /\ held[r] = 0
  /\ \E code \in Codes(r) : answer' = [answer EXCEPT ![r] = code]
  /\ UNCHANGED <<held, started, stored>>

Next ==
  \E r \in Requests :
    (\E n \in Weights : Take(r, n)) \/ Store(r) \/ GiveBack(r) \/ Answer(r)

Spec == Init /\ [][Next]_vars
=============================================================================
