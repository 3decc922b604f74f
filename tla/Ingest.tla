-------------------------------- MODULE Ingest -------------------------------
(***************************************************************************)
(* The agent from its start to the states it decides on: Startup brings up *)
(* the process, EventSource polls Elasticsearch, and Observation turns     *)
(* each document it yields into a row of the attacker's state.  `for doc   *)
(* in get_events()` (event_loop.py:193) runs both in one thread: the       *)
(* document is handled, or its exception logged, before the generator goes *)
(* on.  What is decided on the state is EventLoop's.                       *)
(***************************************************************************)
EXTENDS EventSource, Observation, Startup

CONSTANTS
  FaultMaps,   \* what may be wrong with the documents
  Starts       \* times at which a source may start

\* The counts that occur, of which Unit is a multiple, go up to MaxYields.
ASSUME IngestAssumption ==
  /\ DOMAIN IpOf = Docs /\ FaultMaps \subseteq [Docs -> SUBSET Faults]
  /\ Starts \subseteq Nat
  /\ \A n \in 1 .. MaxYields : Unit % n = 0

VARIABLE taken       \* history: when the documents of `delivered` were handled

ingest == <<vars, observation, startup, taken>>

\* The documents may become visible during start-up, and so need not be before.
IngestInit == /\ Init /\ StartupInit
              /\ visible = {}
              /\ fault \in FaultMaps
              /\ bad = {d \in Docs : fault[d] \cap {"time", "zone"} # {}}
              /\ clock = 0 /\ taken = <<>> /\ ObserverInit

Running == phase = "run" /\ UNCHANGED startup

\* The steps of main before the event loop is there.
Prepare == /\ Connecting(visible # {}) \/ BuildFails
           /\ UNCHANGED <<vars, observation, taken>>

\* The constructor makes the source, which starts now minus the lookback.
BuildLoop == /\ Build
             /\ last' \in Starts
             /\ late' = {d \in visible : stamp[d] <= last'}
             /\ UNCHANGED <<stamp, bad, visible, batch, pc, delivered, observation, taken>>

Poll == Running /\ (Search \/ Advance) /\ UNCHANGED <<observation, taken>>

Process == /\ Running /\ Yield
           /\ LET d == Head(batch) IN PassOver(d) \/ BreakOff(d) \/ Observe(d)
           /\ taken' = Append(taken, clock)
           /\ UNCHANGED <<fault, clock>>

Pass == Running /\ Tick /\ UNCHANGED <<vars, taken>>

Arrive == /\ \E d \in Docs : Index(d)
          /\ UNCHANGED <<observation, startup, taken>>

\* A new process has nothing of the old one but the transform.
Restart == /\ StartAgain
           /\ last' = 0 /\ batch' = <<>> /\ pc' = "search"
           /\ delivered' = <<>> /\ taken' = <<>> /\ late' = {d \in visible : stamp[d] = 0}
           /\ clock' = 0 /\ Forget
           /\ UNCHANGED <<stamp, bad, visible, fault>>

IngestNext == Prepare \/ BuildLoop \/ Poll \/ Process \/ Pass \/ Arrive \/ Restart

IngestSpec == IngestInit /\ [][IngestNext]_ingest

\* The process takes its steps; nothing makes documents arrive or time pass.
IngestFairSpec == IngestSpec /\ WF_ingest(Prepare \/ BuildLoop) /\ WF_ingest(Poll \/ Process)

-----------------------------------------------------------------------------
(* Properties *)

\* The variables range over the values the code can give them.
IngestTypeOK == TypeOK /\ StartupTypeOK /\ ObservationTypeOK
                /\ taken \in Seq(0 .. clock) /\ Len(taken) = Len(delivered)

\* The deliveries of an attacker, by their number; those that his profile kept;
\* those of the Window up to the i-th one; and those of which a row was kept.
Flows(ip) == {i \in DOMAIN delivered :
                "no_ip" \notin fault[delivered[i]] /\ IpOf[delivered[i]] = ip}
Events(ip) == {i \in Flows(ip) : "proto" \notin fault[delivered[i]]}
Recent(ip, i) == {j \in Events(ip) : j <= i /\ taken[i] - taken[j] <= Window}
Company(ip, i) == {delivered[j] : j \in Recent(ip, i)}
Kept(ip) == {i \in Events(ip) : Accepted(delivered[i], Company(ip, i))}

(***************************************************************************)
(* A document in time is yielded in the end, unless the process ends, the  *)
(* document shares its time with another one, or there is a document whose *)
(* time does not parse, which the source would yield again and again.      *)
(***************************************************************************)
InTimeDelivered ==
  \A d \in Docs :
    ( /\ phase = "run" /\ d \in visible \ late /\ bad = {}
      /\ \A e \in Docs \ {d} : stamp[e] # stamp[d] )
      ~> (d \in ToSet(delivered) \/ phase # "run")

(***************************************************************************)
(* The rows of an attacker's state are the last SeqLen accepted events of  *)
(* this attacker, none left out between them, and those whose time the     *)
(* source can compare are different documents in the order of their times, *)
(* whatever broke off the extraction of events in between.  One event with *)
(* a list in it keeps the attacker's other events from being accepted for  *)
(* as long as it is in the Window (event_loop.py:225-228,                  *)
(* connection_tracker.py:81-83).                                           *)
(***************************************************************************)
StatesAreWindows ==
  \A ip \in IPs :
    LET rows == buffer[ip]
        kept == Kept(ip)
        ago(i) == Cardinality({j \in kept : j >= i})
    IN /\ Len(rows) = Min({SeqLen, Cardinality(kept)})
       /\ \A i \in kept :
            ago(i) <= Len(rows) => rows[Len(rows) + 1 - ago(i)] = delivered[i]
       /\ \A i, j \in DOMAIN rows :
            (i < j /\ {rows[i], rows[j]} \cap bad = {}) =>
              rows[i] # rows[j] /\ stamp[rows[i]] <= stamp[rows[j]]

(***************************************************************************)
(* A profile holds exactly the attacker's events of the Window before its  *)
(* last one, by the time they were handled, in this order, those whose     *)
(* extraction broke off included, and total_flows counts them and those    *)
(* whose update broke off.  Only a document whose time the source cannot   *)
(* compare is in it twice (connection_tracker.py:45-69).                   *)
(***************************************************************************)
ProfilesAreWindows ==
  \A ip \in IPs :
    LET events == Events(ip)
        recent == {i \in events : \A j \in events : taken[j] - taken[i] <= Window}
        held == window[ip]
    IN /\ flows[ip] = Cardinality(Flows(ip))
       /\ Len(held) = Cardinality(recent)
       /\ \A i \in recent : LET k == Cardinality({j \in recent : j <= i})
                            IN held[k] = [time |-> taken[i], doc |-> delivered[i]]
       /\ \A i, j \in DOMAIN held : held[i].doc = held[j].doc => i = j \/ held[i].doc \in bad

\* What the agent decides on and what it normalises with: both histories of every
\* attacker are what was delivered, no more and no less.
HistoriesExact == StatesAreWindows /\ ProfilesAreWindows

\* The rows before the i-th delivery.
Before(ip, i) == {j \in Kept(ip) : j < i}

\* What a feature was for the i-th delivery, from the deliveries before it.
Sample(f, i) ==
  LET d == delivered[i]
      before == Before(IpOf[d], i)
      gap == taken[i] - taken[Max(before)]
  IN CASE f = "number" -> Number[d]
       [] f = "time_since_last_min" -> IF before = {} THEN 0 ELSE Min({gap, Cap})
       [] f = "ev_5m" -> Cardinality(Recent(IpOf[d], i))
       [] f = "payload_len" -> PayloadLen[d]

\* The deliveries that a feature was learned from.
Samples(f) ==
  UNION {{i \in Events(ip) : f \in Reached(delivered[i], Company(ip, i))} : ip \in IPs}

\* What it was for each delivery, 0 if it was not learned.
Values(f) == LET samples == Samples(f)
             IN [i \in DOMAIN delivered |-> IF i \in samples THEN Sample(f, i) ELSE 0]

Squares(v) == [i \in DOMAIN v |-> v[i] * v[i]]

\* The sum of a sequence of numbers.
Total(v) == LET sum[i \in 0 .. Len(v)] == IF i = 0 THEN 0 ELSE sum[i - 1] + v[i]
            IN sum[Len(v)]

(***************************************************************************)
(* Every normaliser holds the mean and the sum of squared differences of   *)
(* exactly the values its feature had in the events that extract came to   *)
(* it for, those that come again and again included: not in the ones that  *)
(* broke off before it, for a number, the port or the time of the event,   *)
(* or for a list in any event of the attacker in the Window; and for a     *)
(* payload's features in those that have a payload (features.py:170-175,   *)
(* 219-303, connection_tracker.py:81-83).                                  *)
(***************************************************************************)
StatisticsExact ==
  \A f \in Features :
    LET n == Cardinality(Samples(f))
        values == Values(f)
        sum == Total(values)
        squares == Total(Squares(values))
    IN /\ norm[f].count = n
       /\ n * norm[f].mean = Unit * sum
       /\ n * norm[f].m2 = Unit * Unit * (n * squares - sum * sum)
=============================================================================
