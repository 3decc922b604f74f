--------------------------- MODULE MadcatRedirector --------------------------
(***************************************************************************)
(* The redirector inside the MADCAT container of the sensor                *)
(* (sensor/madcat/dist/redirector.py).  The main thread adds a DNAT/SNAT   *)
(* pair of rules per source or extends the entry of a known source; the gc *)
(* thread removes what has expired.  Both use the dictionary `rules`, and  *)
(* there is no lock: a step is what one thread does between two accesses   *)
(* of `rules` or of the kernel.                                            *)
(*                                                                         *)
(* iptables runs with check=True: a failed command raises and skips what   *)
(* follows.  -A appends a rule, -D deletes the first equal one and fails   *)
(* when there is none.  A DNAT rule names a source and a destination; the  *)
(* SNAT rule names the destination only, so that equal ones are counted.   *)
(* Container and host share the network: a restart forgets `rules`, while  *)
(* the chains stay and nothing flushes them.  Malformed messages raise     *)
(* before line 50 and change nothing; they are left out.                   *)
(***************************************************************************)
EXTENDS Integers, FiniteSets, SequencesExt

CONSTANTS
  Sources, Dests,   \* src and dst of the messages
  Ttls,             \* ttl of the messages
  NoRule,           \* `rules` has no entry
  CommandOutcomes,  \* {TRUE}, or BOOLEAN when iptables may fail for no reason
  MaxClock,         \* bound: the clock
  MaxMessages,      \* bound: messages received
  MaxCrashes        \* bound: restarts of the process

ASSUME MadcatAssumption ==
  /\ Sources # {} /\ Dests # {}
  /\ Ttls \subseteq Int /\ Ttls # {}
  /\ NoRule \notin [dst : Dests, exp : Int]
  /\ CommandOutcomes \subseteq BOOLEAN
  /\ MaxClock \in Nat /\ MaxMessages \in Nat /\ MaxCrashes \in Nat

Entries == [dst : Dests, exp : Int]

NatRules == [src : Sources, dst : Dests]

VARIABLES
  clock,     \* int(time.time())
  rules,     \* src -> (dst, expires), or NoRule
  dnat,      \* kernel: the PREROUTING rules in matching order
  snat,      \* kernel: how many POSTROUTING rules name a destination
  mpc,       \* main thread: "listen", "extend", "dnat", "snat", "record"
  msg,       \* main thread: the source and the entry of the message
  gpc,       \* gc thread: "sleep", "loop", "dnat", "snat", "del"
  now, left, \* gc thread: time of this pass, sources it has yet to look at
  read,      \* gc thread: the source it handles, and the dst it read
  messages, crashes,  \* counters of the bounds
  failed     \* history: a command failed for no reason, or a restart forgot rules

main == <<mpc, msg>>
gc == <<gpc, now, left, read>>
kernel == <<dnat, snat>>
vars == <<clock, rules, kernel, main, gc, messages, crashes, failed>>

Init == /\ clock = 0
        /\ rules = [s \in Sources |-> NoRule]
        /\ dnat = <<>> /\ snat = [d \in Dests |-> 0]
        /\ mpc = "listen"
        /\ msg = [src |-> CHOOSE s \in Sources : TRUE,
                  entry |-> [dst |-> CHOOSE d \in Dests : TRUE, exp |-> 0]]
        /\ gpc = "sleep" /\ now = 0 /\ left = {}
        /\ read = CHOOSE r \in NatRules : TRUE
        /\ messages = 0 /\ crashes = 0 /\ failed = FALSE

Target == [src |-> msg.src, dst |-> msg.entry.dst]

-----------------------------------------------------------------------------
(* The main thread: apply_map *)

\* Mutant: a known source is added once more.
ReceiveAddsAgain ==
  /\ mpc = "listen" /\ messages < MaxMessages
  /\ messages' = messages + 1
  /\ \E s \in Sources, d \in Dests, ttl \in Ttls :
       msg' = [src |-> s, entry |-> [dst |-> d, exp |-> clock + ttl]]
  /\ mpc' = "dnat"
  /\ UNCHANGED <<clock, rules, kernel, gc, crashes, failed>>

\* Lines 42-50: the entry is computed, and `src in rules` decides what follows.
Receive ==
  /\ mpc = "listen" /\ messages < MaxMessages
  /\ messages' = messages + 1
  /\ \E s \in Sources, d \in Dests, ttl \in Ttls :
       /\ msg' = [src |-> s, entry |-> [dst |-> d, exp |-> clock + ttl]]
       /\ mpc' = IF rules[s] # NoRule THEN "extend" ELSE "dnat"
  /\ UNCHANGED <<clock, rules, kernel, gc, crashes, failed>>

\* Mutant: the two addresses are swapped.
ExtendSwapsAddresses ==
  /\ mpc = "extend"
  /\ rules' = [rules EXCEPT ![msg.src] = [msg.entry EXCEPT !.dst = msg.src]]
  /\ mpc' = "listen"
  /\ UNCHANGED <<clock, kernel, msg, gc, messages, crashes, failed>>

\* Line 51: only the dictionary changes, also when dst is another one.
Extend == /\ mpc = "extend"
          /\ rules' = [rules EXCEPT ![msg.src] = msg.entry]
          /\ mpc' = "listen"
          /\ UNCHANGED <<clock, kernel, msg, gc, messages, crashes, failed>>

\* ipt("-A", ...): a failed command ends the message.
AddDnat ==
  /\ mpc = "dnat"
  /\ \E ok \in CommandOutcomes :
       /\ dnat' = IF ok THEN Append(dnat, Target) ELSE dnat
       /\ mpc' = IF ok THEN "snat" ELSE "listen"
       /\ failed' = (failed \/ ~ok)
  /\ UNCHANGED <<clock, rules, snat, msg, gc, messages, crashes>>

AddSnat ==
  /\ mpc = "snat"
  /\ \E ok \in CommandOutcomes :
       /\ snat' = IF ok THEN [snat EXCEPT ![msg.entry.dst] = @ + 1] ELSE snat
       /\ mpc' = IF ok THEN "record" ELSE "listen"
       /\ failed' = (failed \/ ~ok)
  /\ UNCHANGED <<clock, rules, dnat, msg, gc, messages, crashes>>

Record == /\ mpc = "record"
          /\ rules' = [rules EXCEPT ![msg.src] = msg.entry]
          /\ mpc' = "listen"
          /\ UNCHANGED <<clock, kernel, msg, gc, messages, crashes, failed>>

-----------------------------------------------------------------------------
(* The gc thread: gc_loop *)

Wake == /\ gpc = "sleep"
        /\ now' = clock
        /\ left' = {s \in Sources : rules[s] # NoRule}
        /\ gpc' = "loop"
        /\ UNCHANGED <<clock, rules, kernel, main, read, messages, crashes, failed>>

\* Mutant: the entry is forgotten before its rules are deleted.
LookForgets(s) ==
  /\ gpc = "loop" /\ s \in left
  /\ left' = left \ {s}
  /\ IF rules[s].exp < now
     THEN /\ gpc' = "dnat" /\ read' = [src |-> s, dst |-> rules[s].dst]
          /\ rules' = [rules EXCEPT ![s] = NoRule]
     ELSE UNCHANGED <<gpc, read, rules>>
  /\ UNCHANGED <<clock, kernel, main, now, messages, crashes, failed>>

\* Lines 66-67.
Look(s) == /\ gpc = "loop" /\ s \in left
           /\ left' = left \ {s}
           /\ IF rules[s].exp < now
              THEN gpc' = "dnat" /\ read' = [src |-> s, dst |-> rules[s].dst]
              ELSE UNCHANGED <<gpc, read>>
           /\ UNCHANGED <<clock, rules, kernel, main, now, messages, crashes, failed>>

\* Mutant: an exception of iptables ends the thread.
FailureEndsGc ==
  /\ gpc = "dnat"
  /\ \E ok \in CommandOutcomes :
       LET done == ok /\ Contains(dnat, read)
       IN /\ dnat' = IF done THEN RemoveFirst(dnat, read) ELSE dnat
          /\ gpc' = IF done THEN "snat" ELSE "end"
          /\ failed' = (failed \/ ~ok)
  /\ UNCHANGED <<clock, rules, snat, main, now, left, read, messages, crashes>>

\* ipt("-D", ...): a failure is logged, and the entry is tried again next time.
DeleteDnat ==
  /\ gpc = "dnat"
  /\ \E ok \in CommandOutcomes :
       LET done == ok /\ Contains(dnat, read)
       IN /\ dnat' = IF done THEN RemoveFirst(dnat, read) ELSE dnat
          /\ gpc' = IF done THEN "snat" ELSE "loop"
          /\ failed' = (failed \/ ~ok)
  /\ UNCHANGED <<clock, rules, snat, main, now, left, read, messages, crashes>>

\* Mutant: the SNAT rule of an expired entry is left.
DeleteForgetsSnat ==
  /\ gpc = "snat"
  /\ gpc' = "del"
  /\ UNCHANGED <<clock, rules, kernel, main, now, left, read, messages, crashes, failed>>

DeleteSnat ==
  /\ gpc = "snat"
  /\ \E ok \in CommandOutcomes :
       LET done == ok /\ snat[read.dst] > 0
       IN /\ snat' = IF done THEN [snat EXCEPT ![read.dst] = @ - 1] ELSE snat
          /\ gpc' = IF done THEN "del" ELSE "loop"
          /\ failed' = (failed \/ ~ok)
  /\ UNCHANGED <<clock, rules, dnat, main, now, left, read, messages, crashes>>

\* Line 70: the entry goes, be it the one that was read or a newer one.
Del == /\ gpc = "del"
       /\ rules' = [rules EXCEPT ![read.src] = NoRule]
       /\ gpc' = "loop"
       /\ UNCHANGED <<clock, kernel, main, now, left, read, messages, crashes, failed>>

Sleep == /\ gpc = "loop" /\ left = {}
         /\ gpc' = "sleep"
         /\ UNCHANGED <<clock, rules, kernel, main, now, left, read, messages,
                        crashes, failed>>

-----------------------------------------------------------------------------
(* The environment *)

Tick == /\ clock < MaxClock
        /\ clock' = clock + 1
        /\ UNCHANGED <<rules, kernel, main, gc, messages, crashes, failed>>

\* pubsub.listen() raises, or the process dies; the container is started again.
Crash == /\ crashes < MaxCrashes
         /\ crashes' = crashes + 1
         /\ rules' = [s \in Sources |-> NoRule]
         /\ mpc' = "listen" /\ gpc' = "sleep" /\ left' = {}
         /\ failed' = (failed \/ dnat # <<>> \/ \E d \in Dests : snat[d] # 0)
         /\ UNCHANGED <<clock, kernel, msg, now, read, messages>>

Main == Extend \/ AddDnat \/ AddSnat \/ Record

Gc == Wake \/ DeleteDnat \/ DeleteSnat \/ Del \/ Sleep \/ \E s \in Sources : Look(s)

Next == Receive \/ Main \/ Gc \/ Tick \/ Crash

Spec == Init /\ [][Next]_vars

\* Time passes and both threads run; no message has to arrive.
FairSpec == Spec /\ WF_vars(Tick) /\ WF_vars(Main) /\ WF_vars(Gc)

-----------------------------------------------------------------------------
(* Properties *)

\* The variables range over the values the code can give them.
TypeOK ==
  /\ clock \in Nat
  /\ rules \in [Sources -> Entries \cup {NoRule}]
  /\ dnat \in Seq(NatRules) /\ snat \in [Dests -> Nat]
  /\ mpc \in {"listen", "extend", "dnat", "snat", "record"}
  /\ msg \in [src : Sources, entry : Entries]
  /\ gpc \in {"sleep", "loop", "dnat", "snat", "del"}
  /\ now \in Nat /\ left \subseteq Sources /\ read \in NatRules
  /\ messages \in Nat /\ crashes \in Nat /\ failed \in BOOLEAN

\* The positions of the DNAT rules of a source.
RulesOf(s) == {i \in DOMAIN dnat : dnat[i].src = s}

\* The main thread is adding rules for s.
Adding(s) == msg.src = s /\ mpc \in {"snat", "record"}

(***************************************************************************)
(* Without a lock, a source still never gets a second DNAT rule, which -A  *)
(* would put behind the first and -D would never reach: line 50 keeps      *)
(* known sources from being added, and line 70 forgets a source only after *)
(* its rules are gone, whatever the two threads do in between.  Once a     *)
(* command failed for no reason or a restart forgot rules, this is lost.   *)
(***************************************************************************)
OneRulePerSource == ~failed => \A s \in Sources : Cardinality(RulesOf(s)) <= 1

(***************************************************************************)
(* No DNAT rule is in the kernel without an entry that the gc thread will  *)
(* look at, except while it is being added (lines 55-56 and 69-70).        *)
(***************************************************************************)
EveryRuleRecorded ==
  ~failed => \A s \in Sources : RulesOf(s) # {} => rules[s] # NoRule \/ Adding(s)

(***************************************************************************)
(* The two chains go together, also when sources share a destination and   *)
(* so their SNAT rules are equal: a destination has as many SNAT rules as  *)
(* DNAT rules when neither thread is between the two commands (31-38).     *)
(***************************************************************************)
ChainsAgree ==
  (~failed /\ mpc # "snat" /\ gpc # "snat") =>
    \A d \in Dests : snat[d] = Cardinality({i \in DOMAIN dnat : dnat[i].dst = d})

\* The kernel leads s where its entry says, and the entry is over.
ExpiredAndInPlace(s) == /\ rules[s] # NoRule /\ rules[s].exp < clock
                        /\ Contains(dnat, [src |-> s, dst |-> rules[s].dst])

(***************************************************************************)
(* An expired entry whose rule is in the kernel is removed, or extended by *)
(* a message, even when another source's entry can never be removed: the   *)
(* try of line 68 is inside the loop over the sources.                     *)
(***************************************************************************)
ExpiredRulesGo ==
  \A s \in Sources : (ExpiredAndInPlace(s) /\ ~failed)
                       ~> (~ExpiredAndInPlace(s) \/ failed)

(***************************************************************************)
(* "Verlängere TTL für {src} → {dst}" (redirector.py:52): once it says so, *)
(* the source is led to that destination until the entry is removed.       *)
(***************************************************************************)
LedWhereRecorded ==
  (mpc = "listen" /\ gpc \in {"sleep", "loop"}) =>
    \A s \in Sources : rules[s] # NoRule =>
      Contains(dnat, [src |-> s, dst |-> rules[s].dst])
=============================================================================
