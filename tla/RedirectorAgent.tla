--------------------------- MODULE RedirectorAgent --------------------------
(***************************************************************************)
(* The sensor's redirector agent (sensor/redirector-agent/agent.py).  The  *)
(* main thread receives "add" and "remove" commands from Redis, a cleanup  *)
(* thread drops expired rules; both change active_rules and the NAT chains *)
(* of the kernel under one lock.  The process may crash at any step: its   *)
(* memory is lost, the chains stay, and the next start flushes them.       *)
(*                                                                         *)
(* A NAT rule is the pair of its attacker and the honeypod it leads to; a  *)
(* chain is the sequence of its rules in matching order (-I 1 puts a rule  *)
(* first, -D deletes the first rule equal to the one named).  Pub/sub      *)
(* loses messages while the agent is disconnected, so a lost or delayed    *)
(* command is one that is not received, or received later: the agent may   *)
(* receive any command at any time.  Messages without all five fields are  *)
(* discarded before the lock (agent.py:94-96) and are left out.            *)
(***************************************************************************)
EXTENDS Integers, SequencesExt

CONSTANTS
  Attackers, Pods,    \* addresses the commands name
  Ttls,               \* ttl values of the commands; BadTtl may be one
  BadTtl,             \* a ttl that int() refuses (agent.py:101)
  NoRule,             \* active_rules has no entry
  CommandOutcomes,    \* {TRUE}, or BOOLEAN when iptables may fail
  MaxClock,           \* bound: the clock
  MaxCommands,        \* bound: commands received
  MaxCrashes          \* bound: crashes of the process

ASSUME AgentAssumption ==
  /\ Attackers # {} /\ Pods # {}
  /\ Ttls \subseteq Int \cup {BadTtl}
  /\ BadTtl \notin Int
  /\ NoRule \notin [pod : Pods, expires : Int]
  /\ CommandOutcomes \subseteq BOOLEAN
  /\ MaxClock \in Nat /\ MaxCommands \in Nat /\ MaxCrashes \in Nat

Commands == [action : {"add"}, attacker : Attackers, pod : Pods, ttl : Ttls]
              \cup [action : {"remove"}, attacker : Attackers]

NatRules == [attacker : Attackers, pod : Pods]

Entries == [pod : Pods, expires : Int]

VARIABLES
  clock,      \* time.time()
  active,     \* active_rules: attacker -> entry or NoRule
  pre, post,  \* kernel: PREROUTING (DNAT) and POSTROUTING (SNAT) chains
  lock,       \* "free", "main" or "cleaner"
  mpc,        \* main thread: "flushPre", "flushPost", "listen", "lock",
              \* "dnat", "snat", "record"
  command,    \* the command the main thread handles
  target,     \* the NAT rule the main thread inserts or deletes
  cpc,        \* cleanup thread: "off", "sleep", "lock", "loop", "dnat", "snat"
  now,        \* cleanup thread: the time read before the lock
  expired,    \* cleanup thread: what is left of expired_ips
  dropped,    \* cleanup thread: the NAT rule it deletes
  commands, crashes,   \* counters of the bounds
  faulty      \* history: attackers one of whose updates failed half way

agent == <<active, lock, mpc, command, target, cpc, now, expired, dropped>>
vars == <<clock, pre, post, agent, commands, crashes, faulty>>

Init == /\ clock = 0
        /\ active = [a \in Attackers |-> NoRule]
        /\ pre = <<>> /\ post = <<>>
        /\ lock = "free"
        /\ mpc = "flushPre" /\ command = CHOOSE m \in Commands : TRUE
        /\ target = CHOOSE r \in NatRules : TRUE
        /\ cpc = "off" /\ now = 0 /\ expired = {} /\ dropped = target
        /\ commands = 0 /\ crashes = 0
        /\ faulty = {}

-----------------------------------------------------------------------------
(* iptables: run_command reports a failure to the log only. *)

Insert(chain, r) == <<r>> \o chain

Delete(chain, r) == RemoveFirst(chain, r)

\* One iptables command about rule r on one chain; it may fail or time out.
Run(chain, new, r) ==
  \E ok \in CommandOutcomes :
    /\ chain' = IF ok THEN new ELSE chain
    /\ faulty' = IF ok THEN faulty ELSE faulty \cup {r.attacker}

\* -F: a failed flush leaves rules that nobody remembers.
Flush(chain) ==
  \E ok \in CommandOutcomes :
    /\ chain' = IF ok THEN <<>> ELSE chain
    /\ faulty' = IF ok THEN faulty ELSE Attackers

-----------------------------------------------------------------------------
(* The main thread: start-up, then handle_message *)

FlushPre == /\ mpc = "flushPre"
            /\ Flush(pre)
            /\ mpc' = "flushPost"
            /\ UNCHANGED <<clock, active, post, lock, command, target, cpc, now,
                           expired, dropped, commands, crashes>>

FlushPost == /\ mpc = "flushPost"
             /\ Flush(post)
             /\ mpc' = "listen"
             /\ cpc' = "sleep"
             /\ UNCHANGED <<clock, active, pre, lock, command, target, now,
                            expired, dropped, commands, crashes>>

Receive == /\ mpc = "listen"
           /\ commands < MaxCommands
           /\ command' \in Commands
           /\ commands' = commands + 1
           /\ mpc' = "lock"
           /\ UNCHANGED <<clock, active, pre, post, lock, target, cpc, now,
                          expired, dropped, crashes, faulty>>

\* with lock, action "add": the rules are inserted before they are recorded.
BeginAdd == /\ mpc = "lock" /\ lock = "free"
            /\ command.action = "add"
            /\ lock' = "main"
            /\ target' = [attacker |-> command.attacker, pod |-> command.pod]
            /\ mpc' = "dnat"
            /\ UNCHANGED <<clock, active, pre, post, command, cpc, now, expired,
                           dropped, commands, crashes, faulty>>

\* with lock, action "remove": what is removed is what was recorded.
BeginRemove ==
  /\ mpc = "lock" /\ lock = "free"
  /\ command.action = "remove"
  /\ LET a == command.attacker
     IN IF active[a] = NoRule
        THEN mpc' = "listen" /\ UNCHANGED <<lock, target, active>>
        ELSE /\ lock' = "main"
             /\ target' = [attacker |-> a, pod |-> active[a].pod]
             /\ active' = [active EXCEPT ![a] = NoRule]
             /\ mpc' = "dnat"
  /\ UNCHANGED <<clock, pre, post, command, cpc, now, expired, dropped,
                 commands, crashes, faulty>>

\* Mutant: -A for -I, so that an older rule keeps matching first.
DnatAppends ==
  /\ mpc = "dnat"
  /\ Run(pre, IF command.action = "add" THEN Append(pre, target)
                                         ELSE Delete(pre, target), target)
  /\ mpc' = "snat"
  /\ UNCHANGED <<clock, active, post, lock, command, target, cpc, now, expired,
                 dropped, commands, crashes>>

Dnat ==
  /\ mpc = "dnat"
  /\ Run(pre, IF command.action = "add" THEN Insert(pre, target)
                                         ELSE Delete(pre, target), target)
  /\ mpc' = "snat"
  /\ UNCHANGED <<clock, active, post, lock, command, target, cpc, now, expired,
                 dropped, commands, crashes>>

\* Mutant: the lock is given back before the entry is recorded.
SnatUnlocks ==
  /\ mpc = "snat"
  /\ Run(post, IF command.action = "add" THEN Insert(post, target)
                                          ELSE Delete(post, target), target)
  /\ mpc' = IF command.action = "add" THEN "record" ELSE "listen"
  /\ lock' = "free"
  /\ UNCHANGED <<clock, active, pre, command, target, cpc, now, expired,
                 dropped, commands, crashes>>

Snat ==
  /\ mpc = "snat"
  /\ Run(post, IF command.action = "add" THEN Insert(post, target)
                                          ELSE Delete(post, target), target)
  /\ IF command.action = "add"
     THEN mpc' = "record" /\ UNCHANGED lock
     ELSE mpc' = "listen" /\ lock' = "free"
  /\ UNCHANGED <<clock, active, pre, command, target, cpc, now, expired,
                 dropped, commands, crashes>>

\* Mutant: the ttl is stored as received, and never converted.
RecordsRawTtl ==
  /\ mpc = "record"
  /\ active' = [active EXCEPT ![command.attacker] =
                   [pod |-> command.pod, expires |-> command.ttl]]
  /\ lock' = "free"
  /\ mpc' = "listen"
  /\ UNCHANGED <<clock, pre, post, command, target, cpc, now, expired, dropped,
                 commands, crashes, faulty>>

\* int(ttl) may raise: the rules are in the kernel and no entry remembers them.
Record ==
  /\ mpc = "record"
  /\ IF command.ttl = BadTtl
     THEN faulty' = faulty \cup {command.attacker} /\ UNCHANGED active
     ELSE /\ active' = [active EXCEPT ![command.attacker] =
                          [pod |-> command.pod, expires |-> clock + command.ttl]]
          /\ UNCHANGED faulty
  /\ lock' = "free"
  /\ mpc' = "listen"
  /\ UNCHANGED <<clock, pre, post, command, target, cpc, now, expired, dropped,
                 commands, crashes>>

-----------------------------------------------------------------------------
(* The cleanup thread *)

\* The sleep is over; the time is read before the lock is taken.
CleanerWakes == /\ cpc = "sleep"
                /\ now' = clock
                /\ cpc' = "lock"
                /\ UNCHANGED <<clock, active, pre, post, lock, mpc, command, target,
                               expired, dropped, commands, crashes, faulty>>

ExpiredAt(t) == {a \in Attackers : active[a] # NoRule /\ t > active[a].expires}

Scan == /\ cpc = "lock" /\ lock = "free"
        /\ lock' = "cleaner"
        /\ expired' = ExpiredAt(now)
        /\ cpc' = "loop"
        /\ UNCHANGED <<clock, active, pre, post, mpc, command, target, now, dropped,
                       commands, crashes, faulty>>

DropExpired(a) ==
  /\ cpc = "loop" /\ a \in expired
  /\ dropped' = [attacker |-> a, pod |-> active[a].pod]
  /\ active' = [active EXCEPT ![a] = NoRule]
  /\ expired' = expired \ {a}
  /\ cpc' = "dnat"
  /\ UNCHANGED <<clock, pre, post, lock, mpc, command, target, now, commands,
                 crashes, faulty>>

CleanerDnat == /\ cpc = "dnat"
               /\ Run(pre, Delete(pre, dropped), dropped)
               /\ cpc' = "snat"
               /\ UNCHANGED <<clock, active, post, lock, mpc, command, target, now,
                              expired, dropped, commands, crashes>>

\* Mutant: only the DNAT rule of an expired entry is deleted.
CleanerForgetsSnat ==
  /\ cpc = "snat"
  /\ cpc' = "loop"
  /\ UNCHANGED <<clock, active, pre, post, lock, mpc, command, target, now,
                 expired, dropped, commands, crashes, faulty>>

CleanerSnat == /\ cpc = "snat"
               /\ Run(post, Delete(post, dropped), dropped)
               /\ cpc' = "loop"
               /\ UNCHANGED <<clock, active, pre, lock, mpc, command, target, now,
                              expired, dropped, commands, crashes>>

\* Mutant: the cleanup thread ends after its first pass.
CleanerStops == /\ cpc = "loop" /\ expired = {}
                /\ lock' = "free"
                /\ cpc' = "off"
                /\ UNCHANGED <<clock, active, pre, post, mpc, command, target, now,
                               expired, dropped, commands, crashes, faulty>>

CleanerSleeps == /\ cpc = "loop" /\ expired = {}
                 /\ lock' = "free"
                 /\ cpc' = "sleep"
                 /\ UNCHANGED <<clock, active, pre, post, mpc, command, target, now,
                                expired, dropped, commands, crashes, faulty>>

-----------------------------------------------------------------------------
(* The environment *)

Tick == /\ clock < MaxClock
        /\ clock' = clock + 1
        /\ UNCHANGED <<pre, post, agent, commands, crashes, faulty>>

\* The process dies and is started again: main() from its first line.
Crash == /\ crashes < MaxCrashes
         /\ crashes' = crashes + 1
         /\ active' = [a \in Attackers |-> NoRule]
         /\ lock' = "free"
         /\ mpc' = "flushPre" /\ cpc' = "off"
         /\ expired' = {}
         /\ faulty' = {}
         /\ UNCHANGED <<clock, pre, post, command, target, now, dropped, commands>>

Main == FlushPre \/ FlushPost \/ Receive \/ BeginAdd \/ BeginRemove
          \/ Dnat \/ Snat \/ Record

Cleaner == \/ CleanerWakes \/ Scan \/ CleanerDnat \/ CleanerSnat \/ CleanerSleeps
           \/ \E a \in Attackers : DropExpired(a)

Next == Main \/ Cleaner \/ Tick \/ Crash

Spec == Init /\ [][Next]_vars

(***************************************************************************)
(* Time passes, both threads run, and neither is kept from the lock: the   *)
(* bounded number of commands makes weak fairness enough.  Nothing forces  *)
(* a command to arrive or the process to crash.                            *)
(***************************************************************************)
Fairness == /\ WF_vars(Tick)
            /\ WF_vars(FlushPre \/ FlushPost)
            /\ WF_vars(BeginAdd \/ BeginRemove \/ Dnat \/ Snat \/ Record)
            /\ WF_vars(Cleaner)

FairSpec == Spec /\ Fairness

-----------------------------------------------------------------------------
(* Properties *)

\* The variables range over the values the code can give them.
TypeOK ==
  /\ clock \in Nat
  /\ active \in [Attackers -> Entries \cup {NoRule}]
  /\ pre \in Seq(NatRules) /\ post \in Seq(NatRules)
  /\ lock \in {"free", "main", "cleaner"}
  /\ mpc \in {"flushPre", "flushPost", "listen", "lock", "dnat", "snat", "record"}
  /\ command \in Commands
  /\ target \in NatRules /\ dropped \in NatRules
  /\ cpc \in {"off", "sleep", "lock", "loop", "dnat", "snat"}
  /\ now \in Nat
  /\ expired \subseteq Attackers
  /\ commands \in Nat /\ crashes \in Nat
  /\ faulty \subseteq Attackers

\* No thread is between the kernel change and its record.
Quiet == lock = "free" /\ mpc \notin {"flushPre", "flushPost"}

\* The first rule of the chain that matches attacker a, as a set of at most one.
FirstMatch(chain, a) ==
  LET i == SelectInSeq(chain, LAMBDA r : r.attacker = a)
  IN IF i = 0 THEN {} ELSE {chain[i]}

(***************************************************************************)
(* Whenever no update is in progress, an attacker with an entry is led to  *)
(* the honeypod of that entry: its first DNAT rule names it and an SNAT    *)
(* rule completes it, however often the attacker was redirected before     *)
(* (-I 1 at agent.py:63-64, the lock at 98 and 125).                       *)
(***************************************************************************)
RedirectedAsRecorded ==
  Quiet => \A a \in Attackers \ faulty : active[a] # NoRule =>
             LET r == [attacker |-> a, pod |-> active[a].pod]
             IN FirstMatch(pre, a) = {r} /\ Contains(post, r)

(***************************************************************************)
(* Every rule inserted in one chain is inserted in the other, and deleted  *)
(* from both: between updates the chains hold the same rules, unless a     *)
(* command failed (agent.py:80-81).                                        *)
(***************************************************************************)
ChainsAgree ==
  (Quiet /\ faulty = {}) => ToBag(pre) = ToBag(post)

\* The cleanup thread drops an entry only when that entry has expired, even
\* though it read the time before it waited for the lock (agent.py:123-128).
NeverDroppedEarly ==
  [][\A a \in Attackers :
       (cpc = "loop" /\ cpc' = "dnat" /\ active'[a] # active[a])
         => active[a] # NoRule /\ clock > active[a].expires]_vars

\* An expired entry does not stay: it is dropped, replaced or lost in a crash.
ExpiredEntriesGo ==
  \A a \in Attackers : \A t \in 0 .. MaxClock - 1 :
    (active[a] # NoRule /\ active[a].expires = t)
      ~> ~(active[a] # NoRule /\ active[a].expires = t)

(***************************************************************************)
(* "Periodically checks for and removes expired iptables rules"            *)
(* (agent.py:120): an attacker whose entry is gone has no rule left in the *)
(* kernel.  Not so after a second "add" for the same attacker: its entry   *)
(* replaces the first one, whose rule nobody deletes any more.             *)
(***************************************************************************)
ExpiredRulesAreRemoved ==
  Quiet => \A a \in Attackers \ faulty :
             active[a] = NoRule => FirstMatch(pre, a) = {}
=============================================================================
