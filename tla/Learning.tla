------------------------------ MODULE Learning ------------------------------
(***************************************************************************)
(* DQNAgent (hive/rl-agent/rl_agent/agent.py) as the event loop uses it:   *)
(* a bounded replay memory, training steps on batches sampled from it, and *)
(* a target network that is copied from the model every TargetEvery steps. *)
(*                                                                         *)
(* Weights are named by the number of the training step that made them.    *)
(* What a batch holds and what is learned from it is left out.  epsilon is *)
(* a function of the number of steps.                                      *)
(***************************************************************************)
EXTENDS Integers, SequencesExt

CONSTANTS
  Capacity,          \* memory_size
  BatchSize,         \* batch_size
  TrainIterations,   \* train_iterations
  TargetEvery        \* max(target_update_freq, 500)

ASSUME LearningAssumption ==
  {Capacity, BatchSize, TrainIterations, TargetEvery} \subseteq Nat \ {0}

\* DQNAgent.__init__: two networks with the same weights.
NewAgent == [replay |-> <<>>, steps |-> 0, target |-> 0]

\* A deque with maxlen keeps the newest experiences.
Newest(xs) == IF Len(xs) <= Capacity THEN xs
              ELSE SubSeq(xs, Len(xs) - Capacity + 1, Len(xs))

\* remember, called for the experiences xs one after the other.
Remembered(a, xs) == [a EXCEPT !.replay = Newest(@ \o xs)]

\* replay: one training step, if there are enough experiences to sample.
Replayed(a) ==
  IF Len(a.replay) < BatchSize THEN a
  ELSE [a EXCEPT !.steps = @ + 1,
                 !.target = IF (a.steps + 1) % TargetEvery = 0 THEN a.steps + 1 ELSE @]

\* train_batch.
Trained(a, iterations) ==
  LET after[i \in 0 .. iterations] == IF i = 0 THEN a ELSE Replayed(after[i - 1])
  IN after[iterations]

\* The agents there can be, with experiences from X.
Agents(X) == {a \in [replay : Seq(X), steps : Nat, target : Nat] :
                /\ Len(a.replay) <= Capacity
                /\ a.target <= a.steps /\ a.steps < a.target + TargetEvery}
=============================================================================
