----------------------------- MODULE Observation -----------------------------
(***************************************************************************)
(* The first half of EventLoop._process_event (event_loop.py:202-244):     *)
(* a log document becomes a row of its attacker's state tensor.            *)
(*                                                                         *)
(* The attacker's IPProfile (connection_tracker.py:32-96) counts the event *)
(* and keeps those of the last Window; FeatureExtractor.extract            *)
(* (features.py:219-312) normalises the features one after the other, each *)
(* with a FeatureNormalizer of its own that learns from the value; then    *)
(* the row enters ip_buffers.  A document may break off the profile's      *)
(* update, or extract at any of five places, and one of them fails for     *)
(* what an earlier event left in the profile; what was counted and learned *)
(* before stays.                                                           *)
(*                                                                         *)
(* A row is named by its document.  Four features stand for all: a number  *)
(* of the document, time_since_last_min, ev_5m and payload_len, in the     *)
(* order of the code.  Means are in units of 1/Unit and M2 in units of     *)
(* 1/Unit^2, which makes Welford's updates exact.                          *)
(***************************************************************************)
EXTENDS Integers, SequencesExt

CONSTANTS
  IPs,          \* attackers
  IpOf,         \* src_ip: document -> attacker
  Number,       \* a numeric feature of a document
  PayloadLen,   \* length of its payload; 0 is no payload
  SeqLen,       \* sequence_length
  Window,       \* history_window
  Cap,          \* the cap of time_since_last_min; 10 in the code
  MaxClock,     \* bound: the clock
  Step,         \* the clock moves in such steps
  Unit,         \* a common multiple of the counts that occur
  Never         \* no last event

ASSUME ObservationAssumption ==
  /\ IpOf \in [DOMAIN IpOf -> IPs]
  /\ Number \in [DOMAIN IpOf -> Int] /\ PayloadLen \in [DOMAIN IpOf -> Nat]
  /\ {SeqLen, Unit, Step} \subseteq Nat \ {0} /\ {Window, Cap, MaxClock} \subseteq Nat
  /\ Never \notin Nat

Features == {"number", "time_since_last_min", "ev_5m", "payload_len"}

\* What may be wrong with a document: it has no src_ip, or one that is no key; its
\* proto is no string; a number of it is none; its port cannot be compared; its time
\* does not parse, or has no zone (which only the event source minds); a list stands
\* for a port, a protocol or a target, which no set takes; its payload is not hex.
Faults == {"no_ip", "proto", "number", "port", "time", "zone", "list", "payload"}

VARIABLES
  fault,     \* what is wrong with a document: a set of Faults
  clock,     \* time.time(), the time of processing
  flows,     \* IPProfile.total_flows
  window,    \* IPProfile.events: ip -> sequence of [time, doc]
  lastSeen,  \* last_timestamp: ip -> time, or Never
  buffer,    \* ip_buffers: ip -> the last SeqLen rows
  norm       \* FeatureExtractor.normalizers: feature -> [count, mean, m2]

observer == <<flows, window, lastSeen, buffer, norm>>
observation == <<fault, clock, observer>>

\* A new process: load_stats finds no file.
Fresh == [flows    |-> [ip \in IPs |-> 0],
          window   |-> [ip \in IPs |-> <<>>],
          lastSeen |-> [ip \in IPs |-> Never],
          buffer   |-> [ip \in IPs |-> <<>>],
          norm     |-> [f \in Features |-> [count |-> 0, mean |-> 0, m2 |-> 0]]]

ObserverInit == /\ flows = Fresh.flows /\ window = Fresh.window
                /\ lastSeen = Fresh.lastSeen /\ buffer = Fresh.buffer /\ norm = Fresh.norm

Forget == /\ flows' = Fresh.flows /\ window' = Fresh.window
          /\ lastSeen' = Fresh.lastSeen /\ buffer' = Fresh.buffer /\ norm' = Fresh.norm

\* Mutant: M2 grows by the square of the first difference.
LearnedSquare(n, value) ==
  LET delta == value * Unit - n.mean
      count == n.count + 1
      mean == n.mean + delta \div count
  IN [count |-> count, mean |-> mean, m2 |-> n.m2 + delta * delta]

\* FeatureNormalizer.update.
Learned(n, value) ==
  LET delta == value * Unit - n.mean
      count == n.count + 1
      mean == n.mean + delta \div count
  IN [count |-> count, mean |-> mean, m2 |-> n.m2 + delta * (value * Unit - mean)]

\* Mutant: at most one old event is dropped.
PrunedOnce(events, now) ==
  IF now - Head(events).time > Window THEN Tail(events) ELSE events

\* _prune_old_events, of events whose last one is from now.
Pruned(events, now) ==
  LET young(e) == now - e.time <= Window
  IN SubSeq(events, SelectInSeq(events, young), Len(events))

SinceLast(ip) == IF lastSeen[ip] = Never THEN 0
                 ELSE IF clock - lastSeen[ip] < Cap THEN clock - lastSeen[ip] ELSE Cap

\* get_historical_features makes sets of what the documents of a profile hold.
Hashable(docs) == \A d \in docs : "list" \notin fault[d]

\* The features of d that extract comes to before it breaks off, if the profile
\* holds docs: lines 225 and 230, then 250 and 254, 265, 273.
Reached(d, docs) ==
  {f \in Features :
     /\ "number" \notin fault[d]
     /\ f # "number" => fault[d] \cap {"port", "time"} = {}
     /\ f \in {"ev_5m", "payload_len"} => Hashable(docs)
     /\ f = "payload_len" => "payload" \notin fault[d] /\ PayloadLen[d] > 0}

\* It comes to its end.
Accepted(d, docs) == fault[d] \cap {"number", "port", "time", "payload"} = {} /\ Hashable(docs)

\* Mutant: a deque without maxlen.
PushedUnbounded(rows, d) == Append(rows, d)

\* A deque with maxlen.
Pushed(rows, d) == IF Len(rows) = SeqLen THEN Append(Tail(rows), d) ELSE Append(rows, d)

\* Without an address nothing happens (event_loop.py:206-208).
PassOver(d) == "no_ip" \in fault[d] /\ UNCHANGED observer

\* Mutant: the row is taken before extract has succeeded.
KeepRowEarly(ip, d, docs) ==
  /\ buffer' = [buffer EXCEPT ![ip] = Pushed(@, d)]
  /\ lastSeen' = IF Accepted(d, docs) THEN [lastSeen EXCEPT ![ip] = clock] ELSE lastSeen

\* Lines 227-228; an exception of extract skips them.
KeepRow(ip, d, docs) ==
  IF Accepted(d, docs) THEN /\ buffer' = [buffer EXCEPT ![ip] = Pushed(@, d)]
                            /\ lastSeen' = [lastSeen EXCEPT ![ip] = clock]
  ELSE UNCHANGED <<buffer, lastSeen>>

\* IPProfile.update counts the flow, and fails before it keeps the event.
BreakOff(d) == /\ "no_ip" \notin fault[d] /\ "proto" \in fault[d]
               /\ flows' = [flows EXCEPT ![IpOf[d]] = @ + 1]
               /\ UNCHANGED <<window, lastSeen, buffer, norm>>

\* Profile, features, buffer.
Observe(d) ==
  /\ fault[d] \cap {"no_ip", "proto"} = {}
  /\ LET ip == IpOf[d]
         events == Pruned(Append(window[ip], [time |-> clock, doc |-> d]), clock)
         docs == {e.doc : e \in ToSet(events)}
         value == [number |-> Number[d], time_since_last_min |-> SinceLast(ip),
                   ev_5m |-> Len(events), payload_len |-> PayloadLen[d]]
     IN /\ flows' = [flows EXCEPT ![ip] = @ + 1]
        /\ window' = [window EXCEPT ![ip] = events]
        /\ norm' = [f \in Features |-> IF f \in Reached(d, docs) THEN Learned(norm[f], value[f])
                                       ELSE norm[f]]
        /\ KeepRow(ip, d, docs)

Tick == /\ clock + Step <= MaxClock
        /\ clock' = clock + Step
        /\ UNCHANGED <<fault, observer>>

\* The variables range over the values the code can give them.
ObservationTypeOK ==
  /\ fault \in [DOMAIN IpOf -> SUBSET Faults] /\ clock \in Nat
  /\ flows \in [IPs -> Nat]
  /\ window \in [IPs -> Seq([time : 0 .. clock, doc : DOMAIN IpOf])]
  /\ lastSeen \in [IPs -> 0 .. clock \cup {Never}]
  /\ buffer \in [IPs -> Seq(DOMAIN IpOf)] /\ \A ip \in IPs : Len(buffer[ip]) <= SeqLen
  /\ norm \in [Features -> [count : Nat, mean : Int, m2 : Nat]]
=============================================================================
