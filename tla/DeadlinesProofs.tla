-------------------------- MODULE DeadlinesProofs --------------------------
(***************************************************************************)
(* Proofs about Deadlines, for all settings, server timeouts and times.    *)
(* The recursions of the module (the power of the factor, the time of an   *)
(* attempt, the time of all of them) are first shown to be what their      *)
(* equations say; then the clock is bounded by the budget of the attempts  *)
(* begun so far.                                                           *)
(***************************************************************************)
EXTENDS Deadlines, InductionLemmas

-----------------------------------------------------------------------------
\* The larger of a number and zero.
LEMMA Clipped ==
  ASSUME NEW n \in Int
  PROVE  Max({n, 0}) = IF n > 0 THEN n ELSE 0
BY DEF Max

\* The larger of two numbers.
LEMMA MaxOfTwo ==
  ASSUME NEW n \in Int, NEW k \in Int
  PROVE  Max({n, k}) = IF n > k THEN n ELSE k
BY DEF Max

-----------------------------------------------------------------------------
\* A text has a value, whatever it is.
LEMMA TextsHaveValues ==
  ASSUME NEW text \in AnyText
  PROVE  /\ text.value \in Int
         /\ text.kind = "number" <=> text \notin {Unset, Garbage}
         /\ text.kind = "number" => text = Number(text.value)
BY DEF AnyText, Unset, Garbage, Number

\* The defaults of conf.go: every one but that of the endpoint is a number.
LEMMA DefaultsTyped ==
  /\ \A s \in Ints : IntDefault[s] \in Int
  /\ \A s \in Texts : TextDefault[s] \in AnyText
  /\ \A s \in Texts : TextDefault[s].kind # "number" => s = "EndpointUrl"
  /\ Ints \cap Texts = {}
<1>1. Ints = {"Port", "UploadMaxParallel", "UploadTimeoutFactor", "UploadTries"}
  BY DEF Ints, IntDefault
<1>2. Texts = {"EndpointUrl", "UploadTimeout", "QueueTimeout", "UploadPartsize",
               "UploadBwlimit", "UploadWriteBufferSize"}
  BY DEF Texts, TextDefault
<1>3. \A s \in Ints : IntDefault[s] \in Int
  BY <1>1 DEF IntDefault
<1>4. \A s \in Texts : TextDefault[s] \in AnyText
  BY <1>2 DEF TextDefault, AnyText, Unset, Number
<1>5. \A s \in Texts : TextDefault[s].kind # "number" => s = "EndpointUrl"
  BY <1>2 DEF TextDefault, Unset, Number
<1> QED BY <1>1, <1>2, <1>3, <1>4, <1>5

\* The configuration of a server is a number for each setting.
LEMMA ConfTyped ==
  ASSUME NEW texts \in [Settings -> [flag : AnyText, env : AnyText]]
  PROVE  NewS3ndConf(texts) \in [Settings -> Int]
<1> SUFFICES ASSUME NEW s \in Settings
             PROVE  NewS3ndConf(texts)[s] \in Int
  BY DEF NewS3ndConf
<1>1. texts[s].flag \in AnyText /\ texts[s].env \in AnyText
  OBVIOUS
<1>2. s \in Ints => IntSetting(texts, s) \in Int
  BY <1>1, DefaultsTyped, TextsHaveValues DEF IntSetting, IntFromEnv
<1>3. s \in Texts => Text(texts, s) \in AnyText
  BY <1>1, DefaultsTyped DEF Text
<1>4. s \in Texts => Text(texts, s).value \in Int
  BY <1>3, TextsHaveValues
<1> QED BY <1>2, <1>4, DefaultsTyped DEF NewS3ndConf, Settings

\* An integer setting of a server that was not rejected.
LEMMA IntAsGiven ==
  ASSUME NEW texts \in [Settings -> [flag : AnyText, env : AnyText]],
         ~ Rejected(texts), NEW s \in Ints
  PROVE  LET flag == texts[s].flag
             env == texts[s].env
             value == NewS3ndConf(texts)[s]
         IN  /\ flag # Unset => flag = Number(value)
             /\ flag = Unset /\ env = Unset => value = IntDefault[s]
<1>1. s \in Settings /\ texts[s].flag \in AnyText /\ texts[s].env \in AnyText
  BY DEF Settings
<1>2. texts[s].flag # Garbage
  BY DEF Rejected
<1>3. NewS3ndConf(texts)[s] = IntSetting(texts, s)
  BY <1>1 DEF NewS3ndConf
<1>4. texts[s].flag # Unset => texts[s].flag = Number(IntSetting(texts, s))
  BY <1>1, <1>2, TextsHaveValues DEF IntSetting
<1>5. Unset.value = 0
  BY DEF Unset
<1> QED BY <1>3, <1>4, <1>5 DEF IntSetting, IntFromEnv

\* A setting that is parsed as a text, of a server that was not rejected.
LEMMA TextAsGiven ==
  ASSUME NEW texts \in [Settings -> [flag : AnyText, env : AnyText]],
         ~ Rejected(texts), NEW s \in Texts
  PROVE  LET flag == texts[s].flag
             env == texts[s].env
             value == NewS3ndConf(texts)[s]
         IN  /\ flag # Unset => flag = Number(value)
             /\ flag = Unset /\ env # Unset => env = Number(value)
             /\ flag = Unset /\ env = Unset => value = TextDefault[s].value
<1>1. s \in Settings /\ texts[s].flag \in AnyText /\ texts[s].env \in AnyText
  BY DEF Settings
<1>2. s \notin Ints
  BY DefaultsTyped
<1>3. NewS3ndConf(texts)[s] = Text(texts, s).value
  BY <1>1, <1>2 DEF NewS3ndConf
<1>4. Text(texts, s).kind = "number"
  BY DEF Rejected
<1>5. texts[s].flag # Unset => texts[s].flag = Number(Text(texts, s).value)
  BY <1>1, <1>4, TextsHaveValues DEF Text
<1>6. texts[s].flag = Unset /\ texts[s].env # Unset => texts[s].env = Number(Text(texts, s).value)
  BY <1>1, <1>4, TextsHaveValues DEF Text
<1> QED BY <1>3, <1>5, <1>6 DEF Text

\* Why a configuration is rejected.
LEMMA RejectedAsGiven ==
  ASSUME NEW texts \in [Settings -> [flag : AnyText, env : AnyText]], Rejected(texts)
  PROVE  \E s \in Settings :
           \/ texts[s].flag = Garbage
           \/ s \in Texts /\ texts[s].flag = Unset /\ texts[s].env = Garbage
           \/ s = "EndpointUrl" /\ texts[s] = [flag |-> Unset, env |-> Unset]
<1>1. CASE \E s \in Ints : texts[s].flag = Garbage
  BY <1>1 DEF Settings
<1>2. CASE \E s \in Texts : Text(texts, s).kind # "number"
  <2>1. PICK s \in Texts : Text(texts, s).kind # "number"
    BY <1>2
  <2>2. s \in Settings /\ texts[s].flag \in AnyText /\ texts[s].env \in AnyText
    BY DEF Settings
  <2>3. texts[s].flag # Unset => texts[s].flag = Garbage
    BY <2>1, <2>2, TextsHaveValues DEF Text
  <2>4. texts[s].flag = Unset /\ texts[s].env # Unset => texts[s].env = Garbage
    BY <2>1, <2>2, TextsHaveValues DEF Text
  <2>5. texts[s].flag = Unset /\ texts[s].env = Unset =>
          s = "EndpointUrl" /\ texts[s] = [flag |-> Unset, env |-> Unset]
    BY <2>1, <2>2, DefaultsTyped DEF Text
  <2> QED BY <2>2, <2>3, <2>4, <2>5
<1> QED BY <1>1, <1>2 DEF Rejected

-----------------------------------------------------------------------------
\* The recursions of the module, for a configuration.
LEMMA PowerIs ==
  ASSUME conf \in [Settings -> Int]
  PROVE  /\ \A n \in Nat : Power[n] \in Int
         /\ Power[0] = 1
         /\ \A n \in Nat : Power[n + 1] = conf["UploadTimeoutFactor"] * Power[n]
<1> DEFINE factor == conf["UploadTimeoutFactor"]
           step == [n \in Nat |-> [v \in Int |-> factor * v]]
           Is(f) == f = [n \in Nat |-> IF n = 0 THEN 1 ELSE factor * f[n - 1]]
<1>1. factor \in Int
  BY DEF Settings, Ints, IntDefault
<1> HIDE DEF factor
<1>2. step \in [Nat -> [Int -> Int]]
  BY <1>1
<1>3. PICK f \in [Nat -> Int] : f[0] = 1 /\ \A n \in Nat : f[n + 1] = step[n][f[n]]
  <2>1. 1 \in Int
    OBVIOUS
  <2> HIDE DEF step
  <2> QED BY <1>2, <2>1, RecursionExists
<1>4. Is(f)
  <2>1. ASSUME NEW n \in Nat \ {0} PROVE f[n] = factor * f[n - 1]
    <3>1. n - 1 \in Nat /\ (n - 1) + 1 = n
      OBVIOUS
    <3> QED BY <1>3, <3>1
  <2> QED BY <1>3, <2>1
<1>5. Is(Power)
  BY <1>4 DEF Power, factor
<1>6. Power[0] = 1 /\ \A n \in Nat : Power[n + 1] = factor * Power[n]
  BY <1>5
<1>7. \A n \in Nat : Power[n] \in Int
  <2> HIDE DEF Is
  <2>1. \A n \in Nat : Power[n] \in Int => Power[n + 1] = step[n][Power[n]]
    BY <1>6
  <2>2. Power[0] \in Int
    BY <1>6
  <2> HIDE DEF step
  <2> QED BY <1>2, <2>1, <2>2, RecursionTyped
<1> QED BY <1>6, <1>7 DEF factor

\* The time of attempt n is that of the attempt before times the factor.
LEMMA AllowedIs ==
  ASSUME conf \in [Settings -> Int]
  PROVE  /\ \A n \in Nat : Allowed[n] \in Int
         /\ Allowed[0] = conf["UploadTimeout"]
         /\ Allowed[1] = conf["UploadTimeout"]
         /\ \A n \in Nat \ {0} : Allowed[n + 1] = Max({conf["UploadTimeoutFactor"], 1}) * Allowed[n]
<1> DEFINE base == conf["UploadTimeout"]
           factor == Max({conf["UploadTimeoutFactor"], 1})
           step == [n \in Nat |-> [v \in Int |-> IF n = 0 THEN base ELSE factor * v]]
           Is(f) == f = [n \in Nat |-> IF n <= 1 THEN base ELSE factor * f[n - 1]]
<1>1. base \in Int /\ factor \in Int
  BY MaxOfTwo DEF Settings, Ints, IntDefault, Texts, TextDefault
<1> HIDE DEF base, factor
<1>2. step \in [Nat -> [Int -> Int]]
  BY <1>1
<1>3. PICK f \in [Nat -> Int] : f[0] = base /\ \A n \in Nat : f[n + 1] = step[n][f[n]]
  <2> HIDE DEF step
  <2> QED BY <1>1, <1>2, RecursionExists
<1>4. Is(f)
  <2>1. ASSUME NEW n \in Nat \ {0} PROVE f[n] = IF n <= 1 THEN base ELSE factor * f[n - 1]
    <3>1. n - 1 \in Nat /\ (n - 1) + 1 = n
      OBVIOUS
    <3>2. f[n] = step[n - 1][f[n - 1]]
      BY <1>3, <3>1
    <3> QED BY <1>3, <3>1, <3>2
  <2> QED BY <1>3, <2>1
<1>5. Is(Allowed)
  BY <1>4 DEF Allowed, base, factor
<1>6. /\ Allowed[0] = base /\ Allowed[1] = base
      /\ \A n \in Nat \ {0} : Allowed[n + 1] = factor * Allowed[n]
  BY <1>5
<1>7. \A n \in Nat : Allowed[n] \in Int
  <2> HIDE DEF Is
  <2>1. \A n \in Nat : Allowed[n] \in Int => Allowed[n + 1] = step[n][Allowed[n]]
    BY <1>6
  <2>2. Allowed[0] \in Int
    BY <1>1, <1>6
  <2> HIDE DEF step
  <2> QED BY <1>2, <2>1, <2>2, RecursionTyped
<1> QED BY <1>6, <1>7 DEF factor, base

\* The budget of n attempts grows by what the next one is allowed, and never
\* shrinks.
LEMMA BudgetIs ==
  ASSUME conf \in [Settings -> Int]
  PROVE  /\ \A n \in Int : Budget[n] \in Nat
         /\ \A n \in Int : n <= 0 => Budget[n] = 0
         /\ \A n \in Nat : Budget[n + 1] = Budget[n] + Max({Allowed[n + 1], 0})
         /\ \A n, k \in Nat : n <= k => Budget[n] <= Budget[k]
<1> DEFINE more(n) == Max({Allowed[n], 0})
           step == [n \in Nat |-> [v \in Int |-> v + more(n + 1)]]
           Is(f) == f = [n \in Int |-> IF n <= 0 THEN 0 ELSE f[n - 1] + more(n)]
<1>1. \A n \in Nat : more(n) \in Nat
  BY AllowedIs, Clipped
<1> HIDE DEF more
<1>2. step \in [Nat -> [Int -> Int]]
  BY <1>1
<1>3. PICK f \in [Nat -> Int] : f[0] = 0 /\ \A n \in Nat : f[n + 1] = step[n][f[n]]
  <2>1. 0 \in Int
    OBVIOUS
  <2> HIDE DEF step
  <2> QED BY <1>2, <2>1, RecursionExists
<1> DEFINE g == [n \in Int |-> IF n <= 0 THEN 0 ELSE f[n]]
<1>4. Is(g)
  <2>1. ASSUME NEW n \in Nat \ {0} PROVE g[n] = g[n - 1] + more(n)
    <3>1. n - 1 \in Nat /\ (n - 1) + 1 = n
      OBVIOUS
    <3>2. f[n] = f[n - 1] + more(n)
      BY <1>3, <3>1
    <3> QED BY <1>3, <3>1, <3>2
  <2>2. ASSUME NEW n \in Int
        PROVE  g[n] = IF n <= 0 THEN 0 ELSE g[n - 1] + more(n)
    BY <2>1
  <2> HIDE DEF g
  <2>3. g = [n \in Int |-> g[n]]
    BY DEF g
  <2> QED BY <2>2, <2>3
<1>5. Is(Budget)
  <2> HIDE DEF g
  <2> QED BY <1>4 DEF Budget, more
<1>6. /\ \A n \in Int : n <= 0 => Budget[n] = 0
      /\ \A n \in Nat : Budget[n + 1] = Budget[n] + more(n + 1)
  BY <1>5
<1>7. \A n \in Nat : Budget[n] \in Int
  <2> HIDE DEF Is
  <2>1. \A n \in Nat : Budget[n] \in Int => Budget[n + 1] = step[n][Budget[n]]
    BY <1>6
  <2>2. Budget[0] \in Int
    BY <1>6
  <2> HIDE DEF step
  <2> QED BY <1>2, <2>1, <2>2, RecursionTyped
<1>8. ASSUME NEW n \in Nat, NEW k \in Nat, n <= k PROVE Budget[n] <= Budget[k]
  <2> DEFINE Bad == {j \in Nat : n <= j /\ ~ (Budget[n] <= Budget[j])}
  <2> SUFFICES ASSUME Bad # {} PROVE FALSE
    BY <1>8
  <2>1. Bad \subseteq Nat
    OBVIOUS
  <2>2. PICK m \in Bad : \A j \in Bad : m <= j
    BY <2>1, LeastNat
  <2>3. m # n
    BY <1>7
  <2>4. m - 1 \in Nat /\ n <= m - 1 /\ m - 1 \notin Bad
    BY <2>1, <2>2, <2>3
  <2>5. Budget[(m - 1) + 1] = Budget[m - 1] + more((m - 1) + 1) /\ more((m - 1) + 1) \in Nat
    BY <1>1, <1>6, <2>4
  <2>6. (m - 1) + 1 = m
    OBVIOUS
  <2> QED BY <1>7, <2>2, <2>4, <2>5, <2>6
<1>9. \A n \in Int : Budget[n] \in Nat
  <2>1. \A n \in Nat : Budget[0] <= Budget[n]
    BY <1>8
  <2>2. Budget[0] = 0
    BY <1>6
  <2> QED BY <1>6, <1>7, <2>1, <2>2
<1> QED BY <1>6, <1>8, <1>9 DEF more

\* The power of the code gives what the attempts are allowed step by step.
LEMMA AllowedIsPower ==
  ASSUME conf \in [Settings -> Int], NEW n \in Nat
  PROVE  /\ Constant(n) => Allowed[n] = conf["UploadTimeout"]
         /\ ~ Constant(n) => Allowed[n] = conf["UploadTimeout"] * Power[n - 1]
<1> DEFINE base == conf["UploadTimeout"]
           factor == conf["UploadTimeoutFactor"]
           Is(k) == IF k <= 1 \/ factor <= 1 THEN Allowed[k] = base ELSE Allowed[k] = base * Power[k - 1]
           Bad == {k \in Nat : ~ Is(k)}
<1>1. base \in Int /\ factor \in Int
  BY DEF Settings, Ints, IntDefault, Texts, TextDefault
<1>2. Max({factor, 1}) = IF factor > 1 THEN factor ELSE 1
  BY <1>1, MaxOfTwo
<1>3. /\ Allowed[0] = base /\ Allowed[1] = base
      /\ \A k \in Nat \ {0} : Allowed[k + 1] = Max({factor, 1}) * Allowed[k]
  BY AllowedIs
<1>4. Power[0] = 1 /\ \A k \in Nat : Power[k] \in Int /\ Power[k + 1] = factor * Power[k]
  BY PowerIs
<1> HIDE DEF base, factor
<1>5. Bad = {}
  <2> SUFFICES ASSUME Bad # {} PROVE FALSE
    OBVIOUS
  <2>1. Bad \subseteq Nat
    OBVIOUS
  <2>2. PICK m \in Bad : \A k \in Bad : m <= k
    BY <2>1, LeastNat
  <2>3. m \in Nat /\ ~ (m <= 1) /\ ~ Is(m)
    BY <1>3, <2>1
  <2>4. m - 1 \in Nat \ {0} /\ m - 2 \in Nat /\ (m - 1) + 1 = m /\ (m - 2) + 1 = m - 1
    BY <2>3
  <2>5. Is(m - 1)
    BY <2>2, <2>4
  <2>6. Allowed[m] = Max({factor, 1}) * Allowed[m - 1]
    BY <1>3, <2>4
  <2>7. CASE factor <= 1
    BY <1>1, <1>2, <2>3, <2>5, <2>6, <2>7
  <2>8. CASE factor > 1
    <3>1. Power[m - 1] = factor * Power[m - 2]
      BY <1>4, <2>4
    <3>2. Allowed[m - 1] = base * Power[m - 2]
      BY <1>1, <1>3, <1>4, <2>3, <2>4, <2>5, <2>8
    <3>3. factor * (base * Power[m - 2]) = base * (factor * Power[m - 2])
      BY <1>1, <1>4, <2>4
    <3>4. Allowed[m] = base * Power[m - 1]
      BY <1>2, <2>6, <2>8, <3>1, <3>2, <3>3
    <3> QED BY <1>1, <2>3, <2>8, <3>4
  <2> QED BY <1>1, <2>7, <2>8
<1>6. Is(n)
  BY <1>5
<1> QED BY <1>1, <1>6 DEF Constant, base, factor

\* The timeout of an attempt is the time it is allowed, clipped to nothing when
\* that is negative, unless no Duration can hold it.
LEMMA TimeoutIs ==
  ASSUME conf \in [Settings -> Int], NEW n \in Nat \ {0}, NEW t \in UploadTimeout(n)
  PROVE  /\ t \in Int
         /\ Max({t, 0}) \in Nat
         /\ Max({Allowed[n], 0}) \in Nat
         /\ Max({t, 0}) <= Max({Allowed[n], 0})
         /\ Allowed[n] <= MaxDuration => Max({t, 0}) = Max({Allowed[n], 0})
<1> DEFINE base == conf["UploadTimeout"]
           product == base * Power[n - 1]
<1>1. base \in Int /\ Allowed[n] \in Int /\ Power[n - 1] \in Int
  BY AllowedIs, PowerIs DEF Settings, Texts, TextDefault
<1>2. product \in Int /\ MaxDuration \in Nat
  BY <1>1, DeadlinesAssumption
<1>3. CASE Constant(n)
  <2>1. t = Allowed[n]
    BY <1>3, AllowedIsPower DEF UploadTimeout
  <2> QED BY <1>1, <2>1, Clipped
<1>4. CASE ~ Constant(n)
  <2>1. Allowed[n] = product
    BY <1>4, AllowedIsPower
  <2>2. t \in IF product > MaxDuration THEN {-MaxDuration, MaxDuration} ELSE {Max({product, -MaxDuration})}
    BY <1>4 DEF UploadTimeout, Exponent
  <2> HIDE DEF product
  <2>3. Max({product, -MaxDuration}) = IF product > -MaxDuration THEN product ELSE -MaxDuration
    BY <1>2, MaxOfTwo
  <2>4. t \in Int
    BY <1>2, <2>2, <2>3
  <2>5. Max({t, 0}) = IF t > 0 THEN t ELSE 0
    BY <2>4, Clipped
  <2>6. Max({product, 0}) = IF product > 0 THEN product ELSE 0
    BY <1>2, Clipped
  <2> QED BY <1>2, <2>1, <2>2, <2>3, <2>4, <2>5, <2>6
<1> QED BY <1>3, <1>4

-----------------------------------------------------------------------------
\* What is known of the start of the server.
Started ==
  /\ server = "rejected" => Rejected(given)
  /\ server \in {"configured", "exited", "serving", "panicked"} =>
       ~ Rejected(given) /\ conf = NewS3ndConf(given)
  /\ pc # "none" => server = "serving"

\* The request before its transfer.
Waiting ==
  /\ pc \in {"none", "reading", "asking"} => ~ uploadQueued
  /\ pc \in {"none", "reading", "asking", "queued", "panicked"} => transferStart = Never
  /\ pc \in {"asking", "queued"} => now <= queueEnd

\* The time of the attempts so far is within what they were allowed.
Transferring ==
  /\ pc \in {"loop", "uploading"} =>
       /\ transferStart \in 0..now
       /\ transferStart <= queueEnd
       /\ attempt # 0
  /\ pc = "loop" =>
       /\ now - transferStart <= Budget[attempt - 1]
       /\ attempt = 1 \/ attempt - 1 <= conf["UploadTries"]
  /\ pc = "uploading" =>
       /\ attempt <= conf["UploadTries"]
       /\ transferStart <= attemptStart
       /\ attemptStart - transferStart <= Budget[attempt - 1]
       /\ now \in attemptStart..attemptEnd

\* The timer of an attempt gives it all the time it is allowed, and no more.
Timed ==
  pc = "uploading" =>
    /\ attemptEnd - attemptStart <= Max({Allowed[attempt], 0})
    /\ Allowed[attempt] <= MaxDuration => attemptEnd - attemptStart = Max({Allowed[attempt], 0})

\* There is a code when there is an answer.
Answered == code # 0 <=> pc = "answered"

\* The inductive invariant; the last three parts are what it is for.
IInv ==
  /\ TypeOK /\ Started /\ Waiting /\ Transferring /\ Timed /\ Answered
  /\ AnsweredInTime /\ TimeoutsHonoured /\ TimesTrue

\* The settings that the request uses.
LEMMA SettingsTyped ==
  ASSUME conf \in [Settings -> Int]
  PROVE  /\ conf["UploadTries"] \in Int /\ conf["QueueTimeout"] \in Int
         /\ Budget[conf["UploadTries"]] \in Nat
<1>1. conf["UploadTries"] \in Int /\ conf["QueueTimeout"] \in Int
  BY DEF Settings, Ints, IntDefault, Texts, TextDefault
<1> QED BY <1>1, BudgetIs

\* What an attempt is allowed depends on the configuration only.
LEMMA AllowedKept ==
  ASSUME conf' = conf
  PROVE  Allowed' = Allowed /\ Budget' = Budget
BY DEF Allowed, Budget

\* The times of the task are three numbers.
LEMMA ThreeTimes ==
  ASSUME NEW a \in Nat, NEW b \in Nat, NEW c \in Nat
  PROVE  [total |-> a, queued |-> b, transfer |-> c] \in [{"total", "queued", "transfer"} -> Nat]
OBVIOUS

\* It holds before the server has read its settings.
LEMMA IInvInit == Init => IInv
<1> SUFFICES ASSUME Init PROVE IInv
  OBVIOUS
<1>1. TypeOK
  <2>1. [total |-> 0, queued |-> 0, transfer |-> 0] \in [{"total", "queued", "transfer"} -> Nat]
    BY ThreeTimes
  <2>2. conf \in [Settings -> Int]
    BY DEF Init
  <2>3. now \in 0..ServerTimeout
    BY DeadlinesAssumption DEF Init
  <2> QED BY <2>1, <2>2, <2>3 DEF Init, TypeOK, Never
<1>2. Started /\ Waiting /\ Transferring /\ Timed /\ Answered
  BY DEF Init, Started, Waiting, Transferring, Timed, Answered
<1>3. AnsweredInTime /\ TimeoutsHonoured /\ TimesTrue
  BY DEF Init, AnsweredInTime, TimeoutsHonoured, TimesTrue
<1> QED BY <1>1, <1>2, <1>3 DEF IInv

\* Where a request is when it can be answered, and how late it may be.
InTime ==
  /\ now <= queueEnd + Budget[conf["UploadTries"]]
  /\ transferStart # Never => now - transferStart <= Budget[conf["UploadTries"]]

\* A request in the queue has used nothing of the time of its attempts.
LEMMA InTimeWaiting ==
  ASSUME IInv, pc \in {"asking", "queued"}
  PROVE  InTime
<1>1. now <= queueEnd /\ transferStart = Never /\ now \in Nat /\ queueEnd \in Nat
  BY DEF IInv, Waiting, TypeOK
<1>2. Budget[conf["UploadTries"]] \in Nat
  BY SettingsTyped DEF IInv, TypeOK
<1> QED BY <1>1, <1>2 DEF InTime

\* A transfer is inside the budget of the attempts begun, and its attempt ends
\* inside the budget of all the tries.
LEMMA InTimeTransferring ==
  ASSUME IInv, pc \in {"loop", "uploading"}
  PROVE  InTime /\ (pc = "uploading" => attemptEnd <= queueEnd + Budget[conf["UploadTries"]])
<1> DEFINE tries == conf["UploadTries"]
<1>1. /\ transferStart \in 0..now /\ transferStart <= queueEnd
      /\ now \in Nat /\ queueEnd \in Nat /\ attempt \in Nat \ {0}
      /\ attemptStart \in Nat /\ attemptEnd \in Nat
  BY DEF IInv, Transferring, TypeOK
<1>2. tries \in Int /\ Budget[tries] \in Nat /\ conf \in [Settings -> Int]
  BY SettingsTyped DEF IInv, TypeOK
<1>3. /\ \A n \in Int : Budget[n] \in Nat
      /\ \A n \in Int : n <= 0 => Budget[n] = 0
      /\ \A n \in Nat : Budget[n + 1] = Budget[n] + Max({Allowed[n + 1], 0})
      /\ \A n, k \in Nat : n <= k => Budget[n] <= Budget[k]
  BY <1>2, BudgetIs
<1>4. attempt - 1 \in Nat /\ (attempt - 1) + 1 = attempt
  BY <1>1
<1>5. CASE pc = "loop"
  <2>1. now - transferStart <= Budget[attempt - 1] /\ (attempt = 1 \/ attempt - 1 <= tries)
    BY <1>5 DEF IInv, Transferring
  <2>2. Budget[attempt - 1] <= Budget[tries]
    <3>1. CASE attempt = 1
      BY <1>2, <1>3, <3>1
    <3>2. CASE attempt - 1 <= tries
      BY <1>2, <1>3, <1>4, <3>2
    <3> QED BY <2>1, <3>1, <3>2
  <2> QED BY <1>1, <1>2, <1>3, <1>4, <1>5, <2>1, <2>2 DEF InTime
<1>6. CASE pc = "uploading"
  <2>1. /\ attempt <= tries
        /\ transferStart <= attemptStart
        /\ attemptStart - transferStart <= Budget[attempt - 1]
        /\ now \in attemptStart..attemptEnd
        /\ attemptEnd - attemptStart <= Max({Allowed[attempt], 0})
    BY <1>6 DEF IInv, Transferring, Timed
  <2>2. Budget[attempt] = Budget[attempt - 1] + Max({Allowed[attempt], 0})
    BY <1>3, <1>4
  <2>3. Budget[attempt] <= Budget[tries]
    BY <1>1, <1>2, <1>3, <2>1
  <2>4. Max({Allowed[attempt], 0}) \in Nat
    BY <1>1, <1>2, AllowedIs, Clipped
  <2>5. attemptEnd - transferStart <= Budget[attempt]
    BY <1>1, <1>3, <1>4, <2>1, <2>2, <2>4
  <2> QED BY <1>1, <1>2, <1>3, <2>1, <2>3, <2>5 DEF InTime
<1> QED BY <1>5, <1>6

-----------------------------------------------------------------------------
\* Answering keeps the invariant, when the answer comes in time and, for a
\* timeout, when it is due.
LEMMA AnswerKept ==
  ASSUME IInv, NEW status \in {200, 400, 404, 408, 418, 502, 504}, Answer(status),
         UNCHANGED <<startVars, attemptVars, taskVars, now, gone>>,
         pc \in {"reading", "queued", "loop", "uploading"},
         status # 400 => InTime,
         transferStart # Never => InTime,
         status = 408 => now = queueEnd,
         status = 504 => pc = "uploading" /\ now = attemptEnd
  PROVE  IInv'
<1> DEFINE tries == conf["UploadTries"]
<1> USE DEF Answer, startVars, attemptVars, taskVars
<1>1. TypeOK /\ Started /\ Waiting /\ Transferring /\ Timed
  BY DEF IInv
<1>2. Budget' = Budget /\ Allowed' = Allowed
  BY AllowedKept
<1>3. now \in Nat /\ (transferStart # Never => transferStart \in 0..now /\ transferStart <= queueEnd)
      /\ (uploadQueued /\ transferStart = Never => pc = "queued")
  BY <1>1 DEF TypeOK, Waiting, Transferring, Never
<1>4. /\ Queued \in Nat /\ Transfer \in Nat
      /\ transferStart # Never => Queued + Transfer = now /\ Queued <= queueEnd
                                  /\ (uploadQueued => Transfer = now - transferStart)
      /\ transferStart = Never => Transfer = 0
      /\ uploadQueued /\ transferStart = Never => Queued = now
      /\ ~ uploadQueued => Queued = 0
  BY <1>1, <1>3 DEF Queued, Transfer, TypeOK, Never
<1> HIDE DEF Queued, Transfer
<1>5. TypeOK'
  <2>1. times' \in [{"total", "queued", "transfer"} -> Nat]
    BY <1>3, <1>4, ThreeTimes
  <2> QED BY <1>1, <2>1 DEF TypeOK
<1>6. Started' /\ Waiting' /\ Transferring' /\ Timed' /\ Answered'
  BY <1>1 DEF Started, Waiting, Transferring, Timed, Answered
<1>7. AnsweredInTime'
  BY <1>2 DEF AnsweredInTime, InTime
<1>8. TimeoutsHonoured'
  <2>1. status = 504 => now = attemptEnd /\ (Allowed[attempt] <= MaxDuration =>
                          attemptEnd - attemptStart = Max({Allowed[attempt], 0}))
    BY <1>1 DEF Timed
  <2> QED BY <1>2, <2>1 DEF TimeoutsHonoured
<1>9. TimesTrue'
  BY <1>2, <1>4 DEF TimesTrue, InTime
<1> QED BY <1>5, <1>6, <1>7, <1>8, <1>9 DEF IInv

\* Every step keeps the invariant.
LEMMA IInvKept == IInv /\ [Next]_vars => IInv'
<1> SUFFICES ASSUME IInv, [Next]_vars PROVE IInv'
  OBVIOUS
<1> DEFINE Parts == TypeOK /\ Started /\ Waiting /\ Transferring /\ Timed /\ Answered
<1>1. Parts
  BY DEF IInv
<1>2. ASSUME Parts', code' = 0,
             pc' \in {"asking", "queued", "loop", "uploading"} =>
               now' <= queueEnd' + Budget'[conf'["UploadTries"]]
      PROVE  IInv'
  BY <1>2 DEF IInv, TypeOK, AnsweredInTime, TimeoutsHonoured, TimesTrue
<1>3. ASSUME UNCHANGED vars PROVE IInv'
  <2>1. Allowed' = Allowed /\ Budget' = Budget
    BY <1>3, AllowedKept DEF vars, startVars
  <2> QED BY <1>3, <2>1
      DEF vars, startVars, attemptVars, taskVars, answerVars, IInv, TypeOK, Started, Waiting,
          Transferring, Timed, Answered, AnsweredInTime, TimeoutsHonoured, TimesTrue
<1>4. /\ DeadlinesAssumption /\ conf \in [Settings -> Int] /\ now \in Nat /\ queueEnd \in Nat
      /\ attempt \in Nat /\ conf["UploadTries"] \in Int /\ conf["QueueTimeout"] \in Int
      /\ Budget[conf["UploadTries"]] \in Nat
  BY <1>1, DeadlinesAssumption, SettingsTyped DEF TypeOK
<1>5. code = 0 <=> pc # "answered"
  BY <1>1 DEF Answered
<1>6. CASE ReadConf
  <2>1. pc = "none" /\ code = 0 /\ given \in [Settings -> [flag : AnyText, env : AnyText]]
    BY <1>1, <1>4, <1>6 DEF ReadConf, Started, Answered, TypeOK, DeadlinesAssumption
  <2>2. conf' \in [Settings -> Int]
    BY <1>4, <1>6, <2>1, ConfTyped DEF ReadConf
  <2>3. Parts'
    BY <1>1, <1>6, <2>1, <2>2
    DEF ReadConf, TypeOK, Started, Waiting, Transferring, Timed, Answered,
        attemptVars, taskVars, answerVars
  <2> QED BY <1>2, <1>6, <2>1, <2>3 DEF ReadConf, answerVars
<1>7. CASE NewS3ndHandler
  <2>1. pc = "none" /\ code = 0
    BY <1>1, <1>7 DEF NewS3ndHandler, Started, Answered
  <2>2. Parts'
    BY <1>1, <1>7, <2>1
    DEF NewS3ndHandler, TypeOK, Started, Waiting, Transferring, Timed, Answered,
        attemptVars, taskVars, answerVars
  <2> QED BY <1>2, <1>7, <2>1, <2>2 DEF NewS3ndHandler, answerVars
<1>8. CASE ParseRequest
  <2> USE <1>8 DEF ParseRequest, startVars, attemptVars, taskVars, answerVars
  <2>1. pc = "reading" /\ code = 0 /\ transferStart = Never /\ ~ uploadQueued
    BY <1>1 DEF Waiting, Answered
  <2>2. CASE Answer(400)
    <3>1. UNCHANGED <<startVars, attemptVars, taskVars, now, gone>>
      BY <2>1, <2>2 DEF Answer
    <3> QED BY <2>1, <2>2, <3>1, AnswerKept
  <2>3. CASE pc' = "asking" /\ queueEnd' = After(conf["QueueTimeout"])
    <3>1. queueEnd' \in Nat /\ now <= queueEnd'
      BY <1>4, <2>3, Clipped DEF After
    <3>2. Parts'
      BY <1>1, <2>1, <2>3, <3>1 DEF TypeOK, Started, Waiting, Transferring, Timed, Answered, Answer
    <3> QED BY <1>2, <1>4, <2>1, <2>3, <3>1, <3>2, AllowedKept DEF Answer
  <2>4. CASE pc' = "panicked"
    <3>1. Parts'
      BY <1>1, <2>1, <2>4 DEF TypeOK, Started, Waiting, Transferring, Timed, Answered, Answer
    <3> QED BY <1>2, <2>1, <2>4, <3>1 DEF Answer
  <2> QED BY <2>2, <2>3, <2>4
<1>9. CASE JoinQueue
  <2> USE <1>9 DEF JoinQueue, startVars, attemptVars, answerVars
  <2>1. Budget' = Budget /\ Allowed' = Allowed
    BY AllowedKept
  <2>2. Parts'
    BY <1>1, <2>1 DEF TypeOK, Started, Waiting, Transferring, Timed, Answered
  <2> QED BY <1>1, <1>2, <1>4, <1>5, <2>1, <2>2 DEF Waiting
<1>10. CASE StartTransfer
  <2> USE <1>10 DEF StartTransfer, startVars, answerVars
  <2>1. Budget' = Budget /\ Allowed' = Allowed /\ Budget[0] = 0
    BY <1>4, AllowedKept, BudgetIs
  <2>2. now <= queueEnd
    BY <1>1 DEF Waiting
  <2>3. Parts'
    BY <1>1, <1>4, <2>1, <2>2 DEF TypeOK, Started, Waiting, Transferring, Timed, Answered
  <2> QED BY <1>2, <1>4, <1>5, <2>1, <2>2, <2>3
<1>11. CASE LeaveQueue
  <2>1. PICK status \in {408, 418} : Answer(status) /\ (status = 408 => now = queueEnd)
    BY <1>11 DEF LeaveQueue
  <2>2. InTime
    BY <1>11, InTimeWaiting DEF LeaveQueue
  <2> QED BY <1>11, <2>1, <2>2, AnswerKept DEF LeaveQueue
<1>12. CASE BeginAttempt
  <2> USE <1>12 DEF BeginAttempt, startVars, taskVars, answerVars
  <2>1. Budget' = Budget /\ Allowed' = Allowed
    BY AllowedKept
  <2>2. attempt \in Nat \ {0}
    BY <1>1, <1>4 DEF Transferring
  <2>3. PICK t \in UploadTimeout(attempt) : attemptEnd' = After(t)
    OBVIOUS
  <2>4. /\ attemptEnd' = now + Max({t, 0}) /\ Max({t, 0}) \in Nat
        /\ Max({t, 0}) <= Max({Allowed[attempt], 0})
        /\ Allowed[attempt] <= MaxDuration => Max({t, 0}) = Max({Allowed[attempt], 0})
    BY <1>4, <2>2, <2>3, TimeoutIs DEF After
  <2>5. Max({Allowed[attempt], 0}) \in Nat
    BY <1>4, <2>2, AllowedIs, Clipped
  <2>6. attemptEnd' \in Nat /\ now \in attemptStart'..attemptEnd'
    BY <1>4, <2>4
  <2>7. TypeOK' /\ Started' /\ Waiting' /\ Answered'
    BY <1>1, <2>6 DEF TypeOK, Started, Waiting, Answered
  <2>8. Transferring'
    BY <1>1, <1>4, <2>1, <2>6 DEF Transferring
  <2>9. Timed'
    <3>1. attemptEnd' - attemptStart' = Max({t, 0})
      BY <1>4, <2>4
    <3> QED BY <2>1, <2>4, <3>1 DEF Timed
  <2> QED BY <1>2, <1>4, <1>5, <2>1, <2>7, <2>8, <2>9, InTimeTransferring DEF InTime
<1>13. CASE LeaveLoop
  <2>1. InTime
    BY <1>13, InTimeTransferring DEF LeaveLoop
  <2> QED BY <1>13, <2>1, AnswerKept DEF LeaveLoop
<1>14. CASE AttemptReturns
  <2> USE <1>14 DEF AttemptReturns
  <2>1. pc = "uploading" /\ InTime
    BY InTimeTransferring
  <2>2. CASE UNCHANGED attempt
    <3>1. PICK status \in {200, 404, 418, 502, 504} :
            Answer(status) /\ (status = 504 => now = attemptEnd)
      BY <1>4, <2>2
    <3>2. UNCHANGED <<startVars, attemptVars, taskVars, now, gone>>
      BY <2>2 DEF attemptVars
    <3> QED BY <2>1, <3>1, <3>2, AnswerKept
  <2>3. CASE attempt # conf["UploadTries"] /\ attempt' = attempt + 1 /\ pc' = "loop" /\ UNCHANGED answerVars
    <3> USE DEF startVars, taskVars, answerVars
    <3>1. Budget' = Budget /\ Allowed' = Allowed
      BY AllowedKept
    <3>2. attempt \in Nat \ {0} /\ attempt <= conf["UploadTries"]
      BY <1>1, <1>4, <2>1 DEF Transferring
    <3>3. Budget[attempt] = Budget[attempt - 1] + Max({Allowed[attempt], 0})
      <4>1. attempt - 1 \in Nat /\ (attempt - 1) + 1 = attempt
        BY <3>2
      <4> QED BY <1>4, <4>1, BudgetIs
    <3>4. Budget[attempt] \in Nat /\ Budget[attempt - 1] \in Nat /\ Max({Allowed[attempt], 0}) \in Nat
      <4>1. Allowed[attempt] \in Int
        BY <1>4, <3>2, AllowedIs
      <4>2. Budget[attempt] \in Nat /\ Budget[attempt - 1] \in Nat
        BY <1>4, <3>2, BudgetIs
      <4> QED BY <4>1, <4>2, Clipped
    <3>5. now - transferStart <= Budget[attempt] /\ transferStart \in 0..now
      BY <1>1, <1>4, <2>1, <3>3, <3>4 DEF Transferring, Timed, TypeOK
    <3>6. TypeOK' /\ Started' /\ Waiting' /\ Timed' /\ Answered'
      BY <1>1, <2>1, <2>3 DEF TypeOK, Started, Waiting, Timed, Answered
    <3>7. Transferring'
      BY <1>1, <1>4, <2>1, <2>3, <3>1, <3>2, <3>5 DEF Transferring
    <3> QED BY <1>2, <1>4, <1>5, <2>1, <2>3, <3>1, <3>6, <3>7 DEF InTime
  <2> QED BY <2>2, <2>3
<1>15. CASE Disconnect \/ ServerCuts
  <2>1. /\ UNCHANGED <<startVars, attemptVars, taskVars, answerVars, pc, now>>
        /\ gone' \in {"left", "cut"} /\ pc \in {"asking", "queued", "loop", "uploading"}
    BY <1>15 DEF Disconnect, ServerCuts
  <2> USE <2>1 DEF startVars, attemptVars, taskVars, answerVars
  <2>2. Budget' = Budget /\ Allowed' = Allowed
    BY AllowedKept
  <2>3. TypeOK' /\ Started' /\ Waiting' /\ Timed' /\ Answered'
    BY <1>1, <2>2 DEF TypeOK, Started, Waiting, Timed, Answered
  <2>4. Transferring'
    BY <1>1, <2>2 DEF Transferring
  <2>5. InTime
    BY InTimeWaiting, InTimeTransferring
  <2> QED BY <1>2, <1>5, <2>2, <2>3, <2>4, <2>5 DEF InTime
<1>16. CASE Tick
  <2> USE <1>16 DEF Tick, Waits, startVars, attemptVars, taskVars, answerVars
  <2>1. Budget' = Budget /\ Allowed' = Allowed
    BY AllowedKept
  <2>2. TypeOK' /\ Started' /\ Waiting' /\ Answered' /\ Timed'
    BY <1>1, <1>4, <2>1 DEF TypeOK, Started, Waiting, Timed, Answered, DeadlinesAssumption
  <2>3. Transferring'
    BY <1>1, <1>4, <2>1 DEF Transferring, TypeOK
  <2>4. CASE pc = "queued"
    BY <1>2, <1>4, <1>5, <2>1, <2>2, <2>3, <2>4
  <2>5. CASE pc = "uploading"
    <3>1. now' <= attemptEnd /\ attemptEnd \in Nat
      BY <1>1, <1>4, <2>5 DEF TypeOK
    <3>2. attemptEnd <= queueEnd + Budget[conf["UploadTries"]]
      BY <2>5, InTimeTransferring
    <3> QED BY <1>2, <1>4, <1>5, <2>1, <2>2, <2>3, <2>5, <3>1, <3>2
  <2> QED BY <1>2, <1>5, <2>2, <2>3, <2>4, <2>5
<1> QED BY <1>3, <1>6, <1>7, <1>8, <1>9, <1>10, <1>11, <1>12, <1>13, <1>14, <1>15, <1>16
        DEF Next, Finished

\* Where a request is bounds the time it has used, for all settings, timers
\* and answers of S3 (doServeHTTP, uploadFileMultipart).
THEOREM TimingInvariant == Spec => []IInv
BY IInvInit, IInvKept, PTL DEF Spec

\* The clock, the settings, the times and the answer keep their types: no time
\* the task reports is negative.
THEOREM DeadlineTypes == Spec => []TypeOK
<1>1. IInv => TypeOK
  BY DEF IInv
<1> QED BY <1>1, TimingInvariant, PTL

\* Whatever the settings, S3 and the other requests do, a request that was
\* accepted is answered within its queue timeout and the timeouts of all its
\* tries (handler.go:596-600, 650-700).
THEOREM AlwaysAnsweredInTime == Spec => []AnsweredInTime
<1>1. IInv => AnsweredInTime
  BY DEF IInv
<1> QED BY <1>1, TimingInvariant, PTL

\* A 408 comes when the queue timeout has passed and a 504 when the last attempt
\* had the time that timeout, factor and tries allow it.
THEOREM TimeoutsAlwaysHonoured == Spec => []TimeoutsHonoured
<1>1. IInv => TimeoutsHonoured
  BY DEF IInv
<1> QED BY <1>1, TimingInvariant, PTL

\* The times of the task always add up.
THEOREM TimesAlwaysTrue == Spec => []TimesTrue
<1>1. IInv => TimesTrue
  BY DEF IInv
<1> QED BY <1>1, TimingInvariant, PTL

\* The flags, the texts of the environment and the defaults are what the server
\* goes on with, and it is rejected only for a reason among them, whatever they
\* are (NewS3ndConf).
THEOREM SettingsAlwaysAsGiven == Spec => []SettingsAsGiven
<1>1. IInv => SettingsAsGiven
  <2> SUFFICES ASSUME IInv PROVE SettingsAsGiven
    OBVIOUS
  <2>1. given \in [Settings -> [flag : AnyText, env : AnyText]]
    BY DeadlinesAssumption DEF IInv, TypeOK
  <2>2. CASE server \in {"configured", "exited", "serving", "panicked"}
    <3>1. ~ Rejected(given) /\ conf = NewS3ndConf(given)
      BY <2>2 DEF IInv, Started
    <3>2. \A s \in Ints : s \notin Texts
      BY DefaultsTyped
    <3>3. Settings = Ints \cup Texts
      BY DEF Settings
    <3> QED BY <2>1, <2>2, <3>1, <3>2, <3>3, IntAsGiven, TextAsGiven DEF SettingsAsGiven
  <2>3. CASE server = "rejected"
    BY <2>1, <2>3, RejectedAsGiven DEF IInv, Started, SettingsAsGiven
  <2> QED BY <2>2, <2>3 DEF SettingsAsGiven
<1> QED BY <1>1, TimingInvariant, PTL
=============================================================================
