---------------------------- MODULE MCDeadlines ----------------------------
(* Constants for the model checking of Deadlines.                          *)
EXTENDS Deadlines, TLC

InEnv(text) == [flag |-> Unset, env |-> text]

\* The defaults, with an endpoint.
Defaults == [s \in Settings |-> InEnv(IF s = "EndpointUrl" THEN Number(1) ELSE Unset)]

\* Short timeouts and a backoff: 2, 4 and 8 seconds after 2 in the queue.
Short == [Defaults EXCEPT
            !["QueueTimeout"] = InEnv(Number(2)),
            !["UploadTimeout"] = InEnv(Number(2)),
            !["UploadTimeoutFactor"] = InEnv(Number(2)),
            !["UploadTries"] = InEnv(Number(3))]

Given == [kind : {"number"}, value : {-1, 0, 4}] \cup {Unset, Garbage}

\* Any one of the settings may be given in any way.
OneChanged == {[Short EXCEPT ![s] = [flag |-> f, env |-> e]] :
                 s \in Settings, f \in Given, e \in Given}

\* A backoff that falls below the smallest Duration.
Negative == [Short EXCEPT
               !["UploadTimeout"] = InEnv(Number(-1)),
               !["UploadTimeoutFactor"] = InEnv(Number(4)),
               !["UploadTries"] = InEnv(Number(4))]

Changed == OneChanged \cup {Negative}

\* Longer attempts than the HTTP server allows.
Long == [Defaults EXCEPT !["UploadTimeout"] = InEnv(Number(30)),
                         !["UploadTries"] = InEnv(Number(2))]
JustLong == {Long}
=============================================================================
