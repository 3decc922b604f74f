------------------------------- MODULE Startup -------------------------------
(***************************************************************************)
(* The agent's way from its start to its event loop: main.py:111-149       *)
(* connects to Elasticsearch in up to Attempts rounds of create_es_client, *)
(* each of up to Tries constructions of ElasticsearchClient (es.py:209),   *)
(* each of which makes sure of the transform (es.py:136-206).  Then        *)
(* EventLoop.__init__ connects to Redis (event_loop.py:131-135).           *)
(*                                                                         *)
(* Every request may fail, with or without its effect.  A missing source   *)
(* index is answered while no document is indexed: transform_src and       *)
(* es_index_pattern are one pattern (config.py:79-85).                     *)
(*                                                                         *)
(* SystemConfig has no redis_host: reading it raises AttributeError, which *)
(* only main catches.  `redisHost` keeps that visible: FALSE is the code   *)
(* as it is, TRUE the setting that es.py:45 was written for.               *)
(***************************************************************************)
EXTENDS Integers

CONSTANTS
  Attempts,     \* 10 in the code (main.py:114)
  Tries,        \* 5 in the code (es.py:211)
  MaxWait,      \* max_wait in units of wait_interval; 60 in the code (es.py:184)
  RedisHosts    \* subset of BOOLEAN: see above

ASSUME StartupAssumption ==
  /\ {Attempts, Tries, MaxWait} \subseteq Nat \ {0}
  /\ RedisHosts \subseteq BOOLEAN /\ RedisHosts # {}

VARIABLES
  redisHost,   \* system_config has redis_host
  transform,   \* Elasticsearch: "absent", "stopped" or "started"
  phase,       \* "get", "put", "start" (requests), "build", "run" or "exit"
  attempt,     \* i of main
  tries,       \* i of create_es_client
  waited,      \* waited of _start_transform
  gaveUp       \* history: this process waited MaxWait for the source index

locals == <<attempt, tries, waited>>
startup == <<redisHost, transform, phase, locals, gaveUp>>

StartupInit == /\ redisHost \in RedisHosts
               /\ transform \in {"absent", "stopped", "started"}
               /\ phase = "get"
               /\ attempt = 0 /\ tries = 0 /\ waited = 0
               /\ gaveUp = FALSE

NotCreated == transform = "absent"

\* get_transform answers, or raises NotFoundError.
GetTransform == /\ phase = "get"
                /\ phase' = IF NotCreated THEN "put" ELSE "start"
                /\ waited' = 0
                /\ UNCHANGED <<redisHost, transform, attempt, tries, gaveUp>>

\* _create_transform.
PutTransform == /\ phase = "put"
                /\ transform' = "stopped"
                /\ phase' = "start" /\ waited' = 0
                /\ UNCHANGED <<redisHost, attempt, tries, gaveUp>>

\* The client is made, and the counters of the loops are gone.
Connected == phase' = "build" /\ attempt' = 0 /\ tries' = 0 /\ waited' = 0

\* start_transform succeeds, or raises ConflictError: it is running already.
StartTransform == /\ phase = "start" /\ ~NotCreated
                  /\ transform' = "started"
                  /\ Connected
                  /\ UNCHANGED <<redisHost, gaveUp>>

\* Any "source index" error: wait, and after MaxWait log an error and go on.
AwaitSourceIndex(indexed) ==
  /\ phase = "start" /\ transform = "stopped" /\ ~indexed
  /\ IF waited + 1 < MaxWait
     THEN waited' = waited + 1 /\ UNCHANGED <<phase, attempt, tries, gaveUp>>
     ELSE Connected /\ gaveUp' = TRUE
  /\ UNCHANGED <<redisHost, transform>>

\* The request of `phase` raises; it may have been carried out nevertheless.
Raised == /\ phase \in {"get", "put", "start"}
          /\ \/ UNCHANGED transform
             \/ phase = "put" /\ transform' = "stopped"
             \/ phase = "start" /\ transform' = "started"

\* create_es_client tries again.
NextTry == /\ tries + 1 < Tries
           /\ tries' = tries + 1 /\ phase' = "get" /\ UNCHANGED attempt

\* Mutant: main tries until it succeeds.
AlwaysAgain == /\ tries + 1 = Tries
               /\ tries' = 0 /\ phase' = "get" /\ UNCHANGED attempt

\* create_es_client has given up; main calls it again, or exits.
NextAttempt ==
  /\ tries + 1 = Tries /\ tries' = 0
  /\ IF attempt + 1 < Attempts THEN attempt' = attempt + 1 /\ phase' = "get"
                               ELSE attempt' = 0 /\ phase' = "exit"

\* Mutant: _start_transform takes any error for a transform that is running.
FailIgnoresStart == /\ Raised
                    /\ IF phase = "start" THEN Connected
                       ELSE (NextTry \/ NextAttempt) /\ waited' = 0
                    /\ UNCHANGED <<redisHost, gaveUp>>

\* A request fails: its exception ends this construction of the client.
Fail == /\ Raised
        /\ NextTry \/ NextAttempt
        /\ waited' = 0
        /\ UNCHANGED <<redisHost, gaveUp>>

\* EventLoop.__init__: with redis_host the ping answers or raises ConnectionError,
\* which disables the publisher only.
Build == /\ phase = "build" /\ redisHost
         /\ phase' = "run"
         /\ UNCHANGED <<redisHost, transform, locals, gaveUp>>

\* The constructor raises AttributeError, or an error of Redis that is no
\* ConnectionError; main logs it and exits.
BuildFails == /\ phase = "build"
              /\ phase' = "exit"
              /\ UNCHANGED <<redisHost, transform, locals, gaveUp>>

\* The container restarts the agent ("restart: unless-stopped"), after it exited
\* or was killed.
StartAgain == /\ phase \in {"run", "exit"}
              /\ phase' = "get" /\ gaveUp' = FALSE
              /\ UNCHANGED <<redisHost, transform, locals>>

\* Making the client, where `indexed` says that the source index exists.
Connecting(indexed) == \/ GetTransform \/ PutTransform \/ StartTransform
                       \/ AwaitSourceIndex(indexed) \/ Fail

-----------------------------------------------------------------------------
(* Properties *)

\* The variables range over the values the code can give them.
StartupTypeOK ==
  /\ redisHost \in RedisHosts /\ transform \in {"absent", "stopped", "started"}
  /\ phase \in {"get", "put", "start", "build", "run", "exit"}
  /\ attempt \in 0 .. Attempts - 1 /\ tries \in 0 .. Tries - 1
  /\ waited \in 0 .. MaxWait - 1 /\ gaveUp \in BOOLEAN

(***************************************************************************)
(* "Ensure the required transform exists and is running" (es.py:137):      *)
(* whichever requests failed, with or without effect, and however often    *)
(* they were repeated, the event loop runs only with a transform that was  *)
(* created, and started unless its source index was missing for MaxWait    *)
(* (es.py:206 logs that and goes on), and with the setting the publisher   *)
(* needs (es.py:45).                                                       *)
(***************************************************************************)
RunsPrepared ==
  phase = "run" => /\ redisHost
                   /\ transform = "started" \/ (transform = "stopped" /\ gaveUp)

(***************************************************************************)
(* Every start ends in the event loop or in exit(1): the nested retries    *)
(* and the wait for the source index are bounded (main.py:114, es.py:188,  *)
(* 211).                                                                   *)
(***************************************************************************)
StartupSettles ==
  (phase \notin {"run", "exit"}) ~> (phase \in {"run", "exit"})
=============================================================================
