-------------------------------- MODULE Conf --------------------------------
(***************************************************************************)
(* conf/conf.go: the settings the server is started with. Each may be      *)
(* given as a flag and in the environment, as a text that is a number of   *)
(* its unit, or is not, or is empty, which for the environment is the same *)
(* as absent. Times are in seconds. Any text is good for the endpoint but  *)
(* the empty one, which is its garbage. The host and the version, which    *)
(* any text is good for, and numbers too large for an int are left out.    *)
(***************************************************************************)
EXTENDS Integers

Unset == [kind |-> "unset", value |-> 0]
Garbage == [kind |-> "garbage", value |-> 0]
Number(n) == [kind |-> "number", value |-> n]
AnyText == [kind : {"number"}, value : Int] \cup {Unset, Garbage}

\* Settings that the flag package parses as integers, with their defaults.
IntDefault == [Port |-> 15555, UploadMaxParallel |-> 100,
               UploadTimeoutFactor |-> 1, UploadTries |-> 1]

\* Settings that NewS3ndConf parses itself. The endpoint has no default.
TextDefault == [EndpointUrl |-> Unset, UploadTimeout |-> Number(10),
                QueueTimeout |-> Number(10), UploadPartsize |-> Number(5 * 1024 * 1024),
                UploadBwlimit |-> Number(0), UploadWriteBufferSize |-> Number(64 * 1024)]

Ints == DOMAIN IntDefault
Texts == DOMAIN TextDefault
Settings == Ints \cup Texts

-----------------------------------------------------------------------------
\* The error of Atoi is dropped. It returns 0 for a text that is no number, as
\* it does for "0": both stand for the default.
IntFromEnv(env, default) == IF env.value = 0 THEN default ELSE env.value

\* A wrong IntSetting: the environment wins over the flag.
IntSettingEnvFirst(given, s) ==
  IntFromEnv(given[s].env, IF given[s].flag = Unset THEN IntDefault[s] ELSE given[s].flag.value)

IntSetting(given, s) ==
  IF given[s].flag = Unset
  THEN IntFromEnv(given[s].env, IntDefault[s]) ELSE given[s].flag.value

\* The text to parse: that of the environment is the default of the flag.
Text(given, s) ==
  IF given[s].flag # Unset THEN given[s].flag
  ELSE IF given[s].env # Unset THEN given[s].env
  ELSE TextDefault[s]

\* flag.Parse exits on an integer it cannot parse, NewS3ndConf on a missing
\* endpoint and on a duration or quantity it cannot parse.
Rejected(given) ==
  \/ \E s \in Ints : given[s].flag = Garbage
  \/ \E s \in Texts : Text(given, s).kind # "number"

NewS3ndConf(given) ==
  [s \in Settings |-> IF s \in Ints THEN IntSetting(given, s) ELSE Text(given, s).value]
=============================================================================
