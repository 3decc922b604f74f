---------------------------- MODULE RequestReply ----------------------------
(***************************************************************************)
(* What the batched inference service promises its callers, without its    *)
(* threads, batches or locks: requests are served in the order in which    *)
(* they were made, each is served at most once, and a call returns either  *)
(* an answer computed for that very call or, once its timeout has passed,  *)
(* a fallback of its own.  Inference.tla implements this specification.    *)
(***************************************************************************)
EXTENDS Naturals, Sequences

CONSTANTS
  Clients,    \* threads that call get_action
  MaxCalls    \* bound: calls made by one client

Requests == Clients \X (1 .. MaxCalls)

\* The row of Q-values an action was chosen from, and how it was chosen.
Answers == [how : {"policy", "explore"}, row : Requests]

VARIABLES
  calls,     \* calls[c]: number of calls c has made
  open,      \* requests accepted and not yet served, oldest first
  slot,      \* slot[r]: <<>> or the one answer waiting for the caller of r
  result,    \* result[c]: <<>> during a call, else the value it returned
  calling    \* the clients inside a call

rrvars == <<calls, open, slot, result, calling>>

Current(c) == <<c, calls[c]>>

Fallback(c) == [how |-> "fallback", row |-> Current(c)]

RRInit == /\ calls = [c \in Clients |-> 0]
          /\ open = <<>>
          /\ slot = [r \in Requests |-> <<>>]
          /\ result = [c \in Clients |-> <<>>]
          /\ calling = {}

Ask(c) == /\ c \notin calling
          /\ calls[c] < MaxCalls
          /\ calls' = [calls EXCEPT ![c] = @ + 1]
          /\ open' = Append(open, <<c, calls[c] + 1>>)
          /\ result' = [result EXCEPT ![c] = <<>>]
          /\ calling' = calling \cup {c}
          /\ UNCHANGED slot

\* The oldest request is served, with an action chosen from its own state.
Serve == /\ open # <<>>
         /\ \E how \in {"policy", "explore"} :
              slot' = [slot EXCEPT ![Head(open)] =
                                     <<[how |-> how, row |-> Head(open)]>>]
         /\ open' = Tail(open)
         /\ UNCHANGED <<calls, result, calling>>

\* The n oldest requests are given up: their callers will time out.
Lose == /\ \E n \in 1 .. Len(open) : open' = SubSeq(open, n + 1, Len(open))
        /\ UNCHANGED <<calls, slot, result, calling>>

Return(c) == /\ c \in calling
             /\ \/ /\ slot[Current(c)] # <<>>
                   /\ result' = [result EXCEPT ![c] = slot[Current(c)]]
                   /\ slot' = [slot EXCEPT ![Current(c)] = <<>>]
                \/ /\ slot[Current(c)] = <<>>
                   /\ result' = [result EXCEPT ![c] = <<Fallback(c)>>]
                   /\ UNCHANGED slot
             /\ calling' = calling \ {c}
             /\ UNCHANGED <<calls, open>>

RRNext == Serve \/ Lose \/ \E c \in Clients : Ask(c) \/ Return(c)

RRSpec == RRInit /\ [][RRNext]_rrvars
=============================================================================
