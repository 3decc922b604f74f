----------------------------- MODULE Inference ------------------------------
(***************************************************************************)
(* The batched inference service of hive/rl-agent/rl_agent/inference.py:   *)
(* client threads put requests on an unbounded queue and wait, with a      *)
(* timeout, on a response queue of their own; one worker thread collects a *)
(* batch, runs the model under the agent's _model_lock, and answers.       *)
(*                                                                         *)
(* The client threads also train the model (EventLoop runs train_batch in  *)
(* the thread that calls get_action), under the same lock.  A row of       *)
(* Q-values is abstracted to the request whose state it was computed from, *)
(* because what matters is whose answer a caller gets.  get_action passes  *)
(* metadata = {}, so the promotion of inference.py:126-134 never applies.  *)
(* Epsilon is never 0 (agent.py:95-97), so exploration is always possible. *)
(***************************************************************************)
EXTENDS Naturals, Sequences

CONSTANTS
  Clients,    \* threads that call get_action
  MaxBatch,   \* InferenceConfig.max_batch_size
  MaxCalls    \* bound: calls made by one client

ASSUME InferenceAssumption == /\ MaxBatch \in Nat \ {0}
                              /\ MaxCalls \in Nat

Requests == Clients \X (1 .. MaxCalls)

Answers == [how : {"policy", "explore"}, row : Requests]

VARIABLES
  pc,        \* pc[c] \in {"idle", "waiting", "served", "training"}
  calls,     \* calls[c]: number of requests c has made
  queue,     \* request_queue
  slot,      \* slot[r]: response_queue of request r (maxsize 1)
  result,    \* result[c]: <<>>, or what c's last call returned
  wpc,       \* worker: "collect", "predict", "predicting", "respond", "sleep"
  batch,     \* the worker's batch (what is left of it while it responds)
  rows,      \* q_values: the request each remaining row was computed from
  lock       \* agent._model_lock: "free", "worker" or "trainer"

vars == <<pc, calls, queue, slot, result, wpc, batch, rows, lock>>

Current(c) == <<c, calls[c]>>

Init == /\ pc = [c \in Clients |-> "idle"]
        /\ calls = [c \in Clients |-> 0]
        /\ queue = <<>>
        /\ slot = [r \in Requests |-> <<>>]
        /\ result = [c \in Clients |-> <<>>]
        /\ wpc = "collect"
        /\ batch = <<>>
        /\ rows = <<>>
        /\ lock = "free"

-----------------------------------------------------------------------------
(* Client threads *)

GetAction(c) ==
  /\ pc[c] \in {"idle", "served"}
  /\ calls[c] < MaxCalls
  /\ calls' = [calls EXCEPT ![c] = @ + 1]
  /\ queue' = Append(queue, <<c, calls[c] + 1>>)
  /\ result' = [result EXCEPT ![c] = <<>>]
  /\ pc' = [pc EXCEPT ![c] = "waiting"]
  /\ UNCHANGED <<slot, wpc, batch, rows, lock>>

Receive(c) ==
  /\ pc[c] = "waiting"
  /\ slot[Current(c)] # <<>>
  /\ result' = [result EXCEPT ![c] = slot[Current(c)]]
  /\ slot' = [slot EXCEPT ![Current(c)] = <<>>]
  /\ pc' = [pc EXCEPT ![c] = "served"]
  /\ UNCHANGED <<calls, queue, wpc, batch, rows, lock>>

\* Mutant: a response_queue.get with no timeout.
NoTimeout(c) == FALSE /\ UNCHANGED vars

\* Mutant: a caller that times out submits its request again.
TimeoutResubmits(c) ==
  /\ pc[c] = "waiting"
  /\ slot[Current(c)] = <<>>
  /\ result' = [result EXCEPT ![c] = <<[how |-> "fallback", row |-> Current(c)]>>]
  /\ queue' = Append(queue, Current(c))
  /\ pc' = [pc EXCEPT ![c] = "served"]
  /\ UNCHANGED <<calls, slot, wpc, batch, rows, lock>>

\* queue.Empty: the request stays with the worker, the caller goes on.
Timeout(c) ==
  /\ pc[c] = "waiting"
  /\ slot[Current(c)] = <<>>
  /\ result' = [result EXCEPT ![c] = <<[how |-> "fallback", row |-> Current(c)]>>]
  /\ pc' = [pc EXCEPT ![c] = "served"]
  /\ UNCHANGED <<calls, queue, slot, wpc, batch, rows, lock>>

\* replay() between two calls; at most once per call (maintenance is rarer).
StartTraining(c) ==
  /\ pc[c] = "served"
  /\ lock = "free"
  /\ lock' = "trainer"
  /\ pc' = [pc EXCEPT ![c] = "training"]
  /\ UNCHANGED <<calls, queue, slot, result, wpc, batch, rows>>

EndTraining(c) ==
  /\ pc[c] = "training"
  /\ lock' = "free"
  /\ pc' = [pc EXCEPT ![c] = "idle"]
  /\ UNCHANGED <<calls, queue, slot, result, wpc, batch, rows>>

-----------------------------------------------------------------------------
(* The worker thread *)

\* Mutant: `<=` for `<` in the loop condition of _collect_batch.
TakeOneMore ==
  /\ wpc = "collect"
  /\ Len(batch) <= MaxBatch
  /\ queue # <<>>
  /\ batch' = Append(batch, Head(queue))
  /\ queue' = Tail(queue)
  /\ UNCHANGED <<pc, calls, slot, result, wpc, rows, lock>>

\* Mutant: a LifoQueue for the Queue of requests.
TakeLast ==
  /\ wpc = "collect"
  /\ Len(batch) < MaxBatch
  /\ queue # <<>>
  /\ batch' = Append(batch, queue[Len(queue)])
  /\ queue' = SubSeq(queue, 1, Len(queue) - 1)
  /\ UNCHANGED <<pc, calls, slot, result, wpc, rows, lock>>

Take ==
  /\ wpc = "collect"
  /\ Len(batch) < MaxBatch
  /\ queue # <<>>
  /\ batch' = Append(batch, Head(queue))
  /\ queue' = Tail(queue)
  /\ UNCHANGED <<pc, calls, slot, result, wpc, rows, lock>>

\* The batch is full, or max_wait_ms is over.  An empty batch changes nothing.
CloseBatch ==
  /\ wpc = "collect"
  /\ batch # <<>>
  /\ wpc' = "predict"
  /\ UNCHANGED <<pc, calls, queue, slot, result, batch, rows, lock>>

\* Mutant: model.predict without the model lock.
PredictUnlocked ==
  /\ wpc = "predict"
  /\ wpc' = "predicting"
  /\ UNCHANGED <<pc, calls, queue, slot, result, batch, rows, lock>>

StartPredict ==
  /\ wpc = "predict"
  /\ lock = "free"
  /\ lock' = "worker"
  /\ wpc' = "predicting"
  /\ UNCHANGED <<pc, calls, queue, slot, result, batch, rows>>

EndPredict ==
  /\ wpc = "predicting"
  /\ rows' = batch
  /\ lock' = "free"
  /\ wpc' = "respond"
  /\ UNCHANGED <<pc, calls, queue, slot, result, batch>>

\* Mutant: the worker loop without its catch-all: the thread dies.
PredictKillsWorker ==
  /\ wpc \in {"predict", "predicting"}
  /\ lock' = IF wpc = "predicting" THEN "free" ELSE lock
  /\ wpc' = "dead"
  /\ UNCHANGED <<pc, calls, queue, slot, result, batch, rows>>

\* np.stack or model.predict raises: the whole batch is lost, without answers.
PredictFails ==
  /\ wpc \in {"predict", "predicting"}
  /\ lock' = IF wpc = "predicting" THEN "free" ELSE lock
  /\ batch' = <<>>
  /\ wpc' = "sleep"
  /\ UNCHANGED <<pc, calls, queue, slot, result, rows>>

Wake ==
  /\ wpc = "sleep"
  /\ wpc' = "collect"
  /\ UNCHANGED <<pc, calls, queue, slot, result, batch, rows, lock>>

\* Mutant: one response queue per client instead of one per request.
PutInClientQueue(r, answer) ==
  LET q == Current(r[1])
  IN slot' = IF slot[q] = <<>> THEN [slot EXCEPT ![q] = <<answer>>] ELSE slot

\* put_nowait: the answer is dropped when the response queue is full.
PutAnswer(r, answer) ==
  slot' = IF slot[r] = <<>> THEN [slot EXCEPT ![r] = <<answer>>] ELSE slot

Respond ==
  /\ wpc = "respond"
  /\ \E how \in {"policy", "explore"} :
       PutAnswer(Head(batch), [how |-> how, row |-> Head(rows)])
  /\ batch' = Tail(batch)
  /\ rows' = Tail(rows)
  /\ wpc' = IF Len(batch) = 1 THEN "collect" ELSE wpc
  /\ UNCHANGED <<pc, calls, queue, result, lock>>

Worker == Take \/ CloseBatch \/ StartPredict \/ EndPredict \/ PredictFails
            \/ Wake \/ Respond

Client(c) == GetAction(c) \/ Receive(c) \/ Timeout(c)
               \/ StartTraining(c) \/ EndTraining(c)

Next == Worker \/ \E c \in Clients : Client(c)

Spec == Init /\ [][Next]_vars

(***************************************************************************)
(* The worker thread never stops running, a timeout always fires, and a    *)
(* training step ends.  The lock needs only weak fairness because a client *)
(* trains at most once between two of its calls.                           *)
(***************************************************************************)
Fairness == /\ WF_vars(Take) /\ WF_vars(CloseBatch) /\ WF_vars(StartPredict)
            /\ WF_vars(EndPredict \/ PredictFails) /\ WF_vars(Wake)
            /\ WF_vars(Respond)
            /\ \A c \in Clients : /\ WF_vars(Receive(c) \/ Timeout(c))
                                  /\ WF_vars(EndTraining(c))

FairSpec == Spec /\ Fairness

-----------------------------------------------------------------------------
(* Properties *)

\* The variables range over the values the code can give them; in particular
\* a batch never exceeds max_batch_size (inference.py:95).
TypeOK ==
  /\ pc \in [Clients -> {"idle", "waiting", "served", "training"}]
  /\ calls \in [Clients -> 0 .. MaxCalls]
  /\ queue \in Seq(Requests)
  /\ slot \in [Requests -> {<<>>} \cup {<<a>> : a \in Answers}]
  /\ result \in [Clients -> {<<>>} \cup
                   {<<a>> : a \in [how : {"policy", "explore", "fallback"},
                                   row : Requests]}]
  /\ wpc \in {"collect", "predict", "predicting", "respond", "sleep"}
  /\ batch \in Seq(Requests) /\ Len(batch) <= MaxBatch
  /\ rows \in Seq(Requests)
  /\ lock \in {"free", "worker", "trainer"}

(***************************************************************************)
(* A call returns an action chosen from the state of that call, never the  *)
(* late answer to an earlier call of the same client that timed out, nor   *)
(* the row of another request of the batch (inference.py:57-72, 118).      *)
(***************************************************************************)
OwnAnswer ==
  \A c \in Clients : result[c] # <<>> => result[c][1].row = Current(c)

(***************************************************************************)
(* The response queue is empty whenever the worker answers, so the branch  *)
(* of inference.py:139-140, queue.Full with the comment "Client already    *)
(* timed out", is never taken: an answer nobody waits for is stored in the *)
(* abandoned queue instead.                                                *)
(***************************************************************************)
NeverFull == wpc = "respond" => slot[Head(batch)] = <<>>

(***************************************************************************)
(* The worker never runs the model while a client trains it: the Keras     *)
(* model is shared by inference.py:114 and agent.py:198.                   *)
(***************************************************************************)
ModelExclusive ==
  wpc = "predicting" => \A c \in Clients : pc[c] # "training"

\* The service implements the abstract request/reply service.
RR == INSTANCE RequestReply
        WITH open <- (batch \o queue),
             calling <- {c \in Clients : pc[c] = "waiting"}

ImplementsRequestReply == RR!RRSpec

\* A call returns, whatever becomes of the worker (inference.py:65-72).
EveryCallReturns ==
  \A c \in Clients : (pc[c] = "waiting") ~> (pc[c] # "waiting")

\* The request is still somewhere in the service.
Pending(r) == \/ \E i \in DOMAIN queue : queue[i] = r
              \/ \E i \in DOMAIN batch : batch[i] = r

(***************************************************************************)
(* Every request is eventually answered or lost with its batch, even after *)
(* failures of the model: an exception ends a batch, never the worker      *)
(* (inference.py:86-88).                                                   *)
(***************************************************************************)
EveryRequestLeaves ==
  \A r \in Requests : Pending(r) ~> ~Pending(r)
=============================================================================
