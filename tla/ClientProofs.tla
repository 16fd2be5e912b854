---------------------------- MODULE ClientProofs ----------------------------
(***************************************************************************)
(* Proofs about Client, for any files and status codes: what goes into the *)
(* channel comes out of it, once, and no goroutine sends when the channel  *)
(* is closed.                                                              *)
(***************************************************************************)
EXTENDS Client, FiniteSetTheorems, TLAPS

\* A queue of distinct elements stays one when a new element comes ...
LEMMA AppendNew ==
  ASSUME NEW S, NEW s \in Seq(S), NEW x \in S, IsInjective(s), x \notin ToSet(s)
  PROVE  /\ Append(s, x) \in Seq(S)
         /\ IsInjective(Append(s, x))
         /\ ToSet(Append(s, x)) = ToSet(s) \cup {x}
<1> DEFINE t == Append(s, x)
<1>1. /\ t \in Seq(S) /\ Len(t) = Len(s) + 1 /\ Len(s) \in Nat
      /\ \A i \in 1..Len(s) : t[i] = s[i]
      /\ t[Len(s) + 1] = x
      /\ DOMAIN t = 1..(Len(s) + 1) /\ DOMAIN s = 1..Len(s)
  OBVIOUS
<1> HIDE DEF t
<1>2. \A i \in 1..(Len(s) + 1) : i \in 1..Len(s) \/ i = Len(s) + 1
  BY <1>1
<1>3. IsInjective(t)
  BY <1>1, <1>2 DEF IsInjective, ToSet
<1>4. ToSet(t) = ToSet(s) \cup {x}
  <2>1. ToSet(t) \subseteq ToSet(s) \cup {x}
    BY <1>1, <1>2 DEF ToSet
  <2>2. ToSet(s) \subseteq ToSet(t)
    BY <1>1, <1>2 DEF ToSet
  <2>3. x \in ToSet(t)
    BY <1>1 DEF ToSet
  <2> QED BY <2>1, <2>2, <2>3
<1> QED BY <1>1, <1>3, <1>4 DEF t

\* ... and when its first element is taken.
LEMMA TailOfDistinct ==
  ASSUME NEW S, NEW s \in Seq(S), IsInjective(s), s # <<>>
  PROVE  /\ Tail(s) \in Seq(S) /\ Head(s) \in ToSet(s)
         /\ IsInjective(Tail(s))
         /\ ToSet(Tail(s)) = ToSet(s) \ {Head(s)}
<1> DEFINE t == Tail(s)
<1>1. /\ t \in Seq(S) /\ Len(t) = Len(s) - 1 /\ Len(s) \in Nat /\ Len(s) >= 1
      /\ \A i \in 1..(Len(s) - 1) : t[i] = s[i + 1]
      /\ Head(s) = s[1]
      /\ DOMAIN t = 1..(Len(s) - 1) /\ DOMAIN s = 1..Len(s)
  OBVIOUS
<1> HIDE DEF t
<1>2. Head(s) \in ToSet(s)
  BY <1>1 DEF ToSet
<1>3. IsInjective(t)
  BY <1>1 DEF IsInjective
<1>4. ToSet(t) = ToSet(s) \ {Head(s)}
  <2>1. ToSet(t) \subseteq ToSet(s) \ {Head(s)}
    BY <1>1 DEF ToSet, IsInjective
  <2>2. ASSUME NEW i \in 1..Len(s), s[i] # Head(s)
        PROVE  s[i] \in ToSet(t)
    <3>1. i - 1 \in 1..(Len(s) - 1) /\ t[i - 1] = s[i]
      BY <1>1, <2>2
    <3> QED BY <1>1, <3>1 DEF ToSet
  <2>3. ASSUME NEW x \in ToSet(s) \ {Head(s)}
        PROVE  x \in ToSet(t)
    <3>1. \E i \in 1..Len(s) : x = s[i]
      BY <1>1 DEF ToSet
    <3> QED BY <2>2, <3>1
  <2> QED BY <2>1, <2>3
<1> QED BY <1>1, <1>2, <1>3, <1>4 DEF t

-----------------------------------------------------------------------------
\* The goroutines that have not called wg.Done() yet.
Live == {f \in Files : worker[f] \in {"calling", "sending", "sent"}}

Shapes ==
  /\ caller \in {"starting", "waiting", "draining", "succeeded", "failed"}
  /\ worker \in [Files -> {"none", "calling", "sending", "sent", "done", "panicked"}]
  /\ closed \in BOOLEAN
  /\ err \in [Files -> BOOLEAN]
  /\ code \in [Files -> StatusCodes \cup {0}]

\* The wait group counts the goroutines, and the caller waits for it.
Counted ==
  /\ IsFiniteSet(Live)
  /\ wg = Cardinality(Live)
  /\ caller # "starting" => \A f \in Files : worker[f] # "none"
  /\ closed <=> caller \notin {"starting", "waiting"}
  /\ closed => \A f \in Files : worker[f] = "done"
  /\ \A f \in Files : worker[f] # "panicked"

\* What was sent is in the channel or in the result, once.
Delivered ==
  /\ statusCh \in Seq(Files) /\ IsInjective(statusCh)
  /\ statuses \in Seq(Files) /\ IsInjective(statuses)
  /\ ToSet(statusCh) \cap ToSet(statuses) = {}
  /\ ToSet(statusCh) \cup ToSet(statuses) = {f \in Files : worker[f] \in {"sent", "done"}}
  /\ errs = {f \in ToSet(statuses) : err[f]}

\* An Upload without an error has been answered with 200, and the result tells.
Told ==
  /\ \A f \in Files : worker[f] \in {"sending", "sent", "done"} /\ ~err[f] => code[f] = 200
  /\ Over => statusCh = <<>>
  /\ caller = "succeeded" => errs = {}
  /\ caller = "failed" => errs # {}

Inv == Shapes /\ Counted /\ Delivered /\ Told

\* The channel starts empty.
LEMMA EmptyQueue ==
  /\ <<>> \in Seq(Files) /\ IsInjective(<<>>) /\ ToSet(<<>>) = {}
BY DEF IsInjective, ToSet

\* The invariant holds when UploadMulti is called.
LEMMA InvInit == Init => Inv
<1> SUFFICES ASSUME Init PROVE Inv
  OBVIOUS
<1>1. Live = {}
  BY DEF Init, Live
<1>2. Counted
  BY <1>1, FS_EmptySet DEF Init, Counted
<1>3. Delivered
  BY EmptyQueue DEF Init, Delivered
<1> QED BY <1>2, <1>3 DEF Init, Inv, Shapes, Told, Over

\* A goroutine that goes on without starting or ending leaves the group alone.
LEMMA StillCounted ==
  ASSUME Inv, NEW f \in Files, f \in Live, NEW place \in {"sending", "sent"}, Work(f, place),
         UNCHANGED <<caller, wg, closed>>
  PROVE  Counted'
<1>1. Live' = Live
  BY DEF Live, Work, Inv, Shapes
<1>2. worker' = [worker EXCEPT ![f] = place] /\ worker[f] # "done"
  BY DEF Work, Live
<1> QED BY <1>1, <1>2 DEF Inv, Counted, Shapes

\* Every step keeps it.
LEMMA InvKept == Inv /\ [Next]_vars => Inv'
<1> SUFFICES ASSUME Inv, [Next]_vars PROVE Inv'
  OBVIOUS
<1>1. Shapes /\ Counted /\ Delivered /\ Told
  BY DEF Inv
<1>2. ASSUME NEW f \in Files, Start(f)
      PROVE  Inv'
  <2>1. /\ caller = "starting" /\ worker[f] = "none" /\ wg' = wg + 1
        /\ worker' = [worker EXCEPT ![f] = "calling"]
        /\ UNCHANGED <<caller, statusCh, closed, err, code, statuses, errs>>
    BY <1>2 DEF Start, Work
  <2>2. Live' = Live \cup {f} /\ f \notin Live
    BY <1>1, <2>1 DEF Live, Shapes
  <2>3. /\ IsFiniteSet(Live \cup {f})
        /\ Cardinality(Live \cup {f}) = Cardinality(Live) + 1
    BY <1>1, <2>2, FS_AddElement DEF Counted
  <2>4. Counted'
    BY <1>1, <2>1, <2>2, <2>3 DEF Counted, Shapes
  <2>5. {g \in Files : worker'[g] \in {"sent", "done"}} = {g \in Files : worker[g] \in {"sent", "done"}}
    BY <1>1, <2>1 DEF Shapes
  <2>6. Delivered'
    BY <1>1, <2>1, <2>5 DEF Delivered
  <2>7. Shapes' /\ Told'
    BY <1>1, <2>1 DEF Shapes, Told, Over
  <2> QED BY <2>4, <2>6, <2>7 DEF Inv
<1>3. ASSUME NEW f \in Files, Answer(f)
      PROVE  Inv'
  <2>1. /\ worker[f] = "calling" /\ UNCHANGED <<caller, worker, wg, statusCh, closed, err, statuses, errs>>
        /\ \E status \in StatusCodes : code' = [code EXCEPT ![f] = status]
    BY <1>3 DEF Answer
  <2>2. Shapes' /\ Told'
    BY <1>1, <2>1, ClientAssumption DEF Shapes, Told, Over
  <2>3. Counted' /\ Delivered'
    BY <1>1, <2>1 DEF Counted, Live, Delivered
  <2> QED BY <2>2, <2>3 DEF Inv
<1>4. ASSUME NEW f \in Files, UploadAnswered(f) \/ UploadBroken(f)
      PROVE  Inv'
  <2>1. /\ worker[f] = "calling" /\ Work(f, "sending")
        /\ UNCHANGED <<caller, wg, statusCh, closed, code, statuses, errs>>
    BY <1>4 DEF UploadAnswered, UploadBroken
  <2>2. PICK e \in BOOLEAN : err' = [err EXCEPT ![f] = e] /\ (~e => code[f] = 200)
    BY <1>4 DEF UploadAnswered, UploadBroken, IsError
  <2>3. worker' = [worker EXCEPT ![f] = "sending"]
    BY <2>1 DEF Work
  <2>4. Counted'
    BY <2>1, StillCounted DEF Live
  <2>5. Shapes' /\ Told'
    BY <1>1, <2>1, <2>2, <2>3 DEF Shapes, Told, Over
  <2>6. {g \in Files : worker'[g] \in {"sent", "done"}} = {g \in Files : worker[g] \in {"sent", "done"}}
    BY <1>1, <2>1, <2>3 DEF Shapes
  <2>7. f \notin ToSet(statuses) /\ ToSet(statuses) \subseteq Files
    BY <1>1, <2>1 DEF Delivered
  <2>8. \A g \in ToSet(statuses) : err'[g] = err[g]
    BY <1>1, <2>2, <2>7 DEF Shapes
  <2>9. Delivered'
    BY <1>1, <2>1, <2>6, <2>8 DEF Delivered
  <2> QED BY <2>4, <2>5, <2>9 DEF Inv
<1>5. ASSUME NEW f \in Files, Send(f)
      PROVE  Inv'
  <2>1. ~closed /\ worker[f] = "sending"
    BY <1>1, <1>5 DEF Send, Counted
  <2>2. /\ statusCh' = Append(statusCh, f) /\ Work(f, "sent")
        /\ UNCHANGED <<caller, wg, closed, err, code, statuses, errs>>
    BY <1>5, <2>1 DEF Send
  <2>3. worker' = [worker EXCEPT ![f] = "sent"]
    BY <2>2 DEF Work
  <2>4. Counted'
    BY <2>1, <2>2, StillCounted DEF Live
  <2>5. Shapes' /\ Told'
    BY <1>1, <2>1, <2>2, <2>3 DEF Shapes, Counted, Told, Over
  <2>6. f \notin ToSet(statusCh) /\ f \notin ToSet(statuses)
    BY <1>1, <2>1 DEF Delivered
  <2>7. /\ statusCh' \in Seq(Files) /\ IsInjective(statusCh')
        /\ ToSet(statusCh') = ToSet(statusCh) \cup {f}
    BY <1>1, <2>2, <2>6, AppendNew DEF Delivered
  <2>8. {g \in Files : worker'[g] \in {"sent", "done"}}
          = {g \in Files : worker[g] \in {"sent", "done"}} \cup {f}
    BY <1>1, <2>3 DEF Shapes
  <2>9. Delivered'
    BY <1>1, <2>2, <2>6, <2>7, <2>8 DEF Delivered
  <2> QED BY <2>4, <2>5, <2>9 DEF Inv
<1>6. ASSUME NEW f \in Files, Done(f)
      PROVE  Inv'
  <2>1. /\ worker[f] = "sent" /\ wg' = wg - 1 /\ worker' = [worker EXCEPT ![f] = "done"]
        /\ UNCHANGED <<caller, statusCh, closed, err, code, statuses, errs>>
    BY <1>6 DEF Done, Work, OneLess
  <2>2. Live' = Live \ {f} /\ f \in Live
    BY <1>1, <2>1 DEF Live, Shapes
  <2>3. /\ IsFiniteSet(Live \ {f})
        /\ Cardinality(Live \ {f}) = Cardinality(Live) - 1
    BY <1>1, <2>2, FS_RemoveElement DEF Counted
  <2>4. Counted'
    BY <1>1, <2>1, <2>2, <2>3 DEF Counted, Shapes
  <2>5. {g \in Files : worker'[g] \in {"sent", "done"}} = {g \in Files : worker[g] \in {"sent", "done"}}
    BY <1>1, <2>1 DEF Shapes
  <2>6. Delivered'
    BY <1>1, <2>1, <2>5 DEF Delivered
  <2>7. Shapes' /\ Told'
    BY <1>1, <2>1 DEF Shapes, Told, Over
  <2> QED BY <2>4, <2>6, <2>7 DEF Inv
<1>7. CASE AllStarted
  BY <1>1, <1>7 DEF AllStarted, Inv, Shapes, Counted, Live, Delivered, Told, Over
<1>8. CASE Close
  <2>1. /\ caller = "waiting" /\ wg = 0 /\ closed' = TRUE /\ caller' = "draining"
        /\ UNCHANGED <<worker, wg, statusCh, err, code, statuses, errs>>
    BY <1>8 DEF Close, AllDone
  <2>2. Live = {}
    BY <1>1, <2>1, FS_EmptySet DEF Counted
  <2>3. \A f \in Files : worker[f] = "done"
    BY <1>1, <2>1, <2>2 DEF Shapes, Counted, Live
  <2> QED BY <1>1, <2>1, <2>3 DEF Inv, Shapes, Counted, Live, Delivered, Told, Over
<1>9. CASE Collect
  <2> DEFINE f == Head(statusCh)
  <2>1. /\ caller = "draining" /\ statusCh # <<>> /\ statusCh' = Tail(statusCh)
        /\ statuses' = Append(statuses, f)
        /\ errs' = IF err[f] THEN errs \cup {f} ELSE errs
        /\ UNCHANGED <<caller, worker, wg, closed, err, code>>
    BY <1>9 DEF Collect
  <2>2. /\ statusCh' \in Seq(Files) /\ f \in ToSet(statusCh) /\ IsInjective(statusCh')
        /\ ToSet(statusCh') = ToSet(statusCh) \ {f}
    BY <1>1, <2>1, TailOfDistinct DEF Delivered
  <2> HIDE DEF f
  <2>3. f \in Files /\ f \notin ToSet(statuses)
    BY <1>1, <2>2 DEF Delivered
  <2>4. /\ statuses' \in Seq(Files) /\ IsInjective(statuses')
        /\ ToSet(statuses') = ToSet(statuses) \cup {f}
    BY <1>1, <2>1, <2>3, AppendNew DEF Delivered
  <2>5. Delivered'
    BY <1>1, <2>1, <2>2, <2>3, <2>4 DEF Delivered
  <2>6. Shapes' /\ Counted' /\ Told'
    BY <1>1, <2>1 DEF Shapes, Counted, Live, Told, Over
  <2> QED BY <2>5, <2>6 DEF Inv
<1>10. CASE ReturnMulti
  BY <1>1, <1>10 DEF ReturnMulti, Inv, Shapes, Counted, Live, Delivered, Told, Over
<1>11. CASE UNCHANGED vars
  BY <1>1, <1>11 DEF vars, Inv, Shapes, Counted, Live, Delivered, Told, Over
<1> QED BY <1>2, <1>3, <1>4, <1>5, <1>6, <1>7, <1>8, <1>9, <1>10, <1>11 DEF Next

\* What was started, sent and received fits together in every state
\* (UploadMulti).
LEMMA Invariance == Spec => []Inv
<1> QED BY InvInit, InvKept, PTL DEF Spec

\* UploadMulti returns each file's status once and no send meets a closed
\* channel, for any number of files.
THEOREM StatusesAlwaysWhole == Spec => []OneStatusEach
<1>1. ASSUME Inv PROVE OneStatusEach
  <2>1. ASSUME Over
        PROVE  ToSet(statuses) = Files
    <3>1. \A f \in Files : worker[f] = "done"
      BY <1>1, <2>1 DEF Inv, Counted, Over
    <3>2. ToSet(statusCh) = {}
      BY <1>1, <2>1, EmptyQueue DEF Inv, Told
    <3> QED BY <1>1, <3>1, <3>2 DEF Inv, Delivered
  <2> QED BY <1>1, <2>1 DEF OneStatusEach, Inv, Counted, Delivered
<1> QED BY <1>1, Invariance, PTL

\* UploadMulti has no error only if the server answered every file with 200, and
\* an error only if an Upload failed.
THEOREM SuccessAlwaysMeansAll == Spec => []SuccessMeansAll
<1>1. ASSUME Inv PROVE SuccessMeansAll
  <2>1. ASSUME Over
        PROVE  /\ errs = {f \in Files : err[f]}
               /\ \A f \in Files : worker[f] = "done"
    <3>1. \A f \in Files : worker[f] = "done"
      BY <1>1, <2>1 DEF Inv, Counted, Over
    <3>2. ToSet(statusCh) = {}
      BY <1>1, <2>1, EmptyQueue DEF Inv, Told
    <3> QED BY <1>1, <3>1, <3>2 DEF Inv, Delivered
  <2> QED BY <1>1, <2>1 DEF SuccessMeansAll, Inv, Told, Over
<1> QED BY <1>1, Invariance, PTL

\* What UploadMulti keeps has its type; the counter of its wait group is never
\* negative, which would end the program (client.go:86-96).
THEOREM MultiTypes == Spec => []TypeOK
<1>1. ASSUME Inv PROVE TypeOK
  <2>1. wg \in Nat
    BY <1>1, FS_CardinalityType DEF Inv, Counted
  <2>2. errs \subseteq Files
    BY <1>1 DEF Inv, Delivered
  <2> QED BY <1>1, <2>1, <2>2 DEF Inv, Shapes, Delivered, TypeOK
<1> QED BY <1>1, Invariance, PTL
=============================================================================
