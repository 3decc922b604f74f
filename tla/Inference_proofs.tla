-------------------------- MODULE Inference_proofs --------------------------
(***************************************************************************)
(* Proofs about the batched inference service, for any set of clients, any *)
(* batch size and any number of calls: the type invariant, OwnAnswer,      *)
(* NeverFull, ModelExclusive, and that the service implements RequestReply.*)
(*                                                                         *)
(* The pending requests are one sequence, what is left of the batch before *)
(* the queue.  The inductive invariant says that this sequence never holds *)
(* a request twice, nor one that already has an answer, nor one that was   *)
(* not made yet; so the next request of a client is new, its response      *)
(* queue is empty, and a full response queue cannot occur.                 *)
(***************************************************************************)
EXTENDS Inference, SequenceTheorems, TLAPS

PendingSeq == batch \o queue

\* The worker answers from a non-empty batch and from the rows of that batch.
WorkerInv == /\ wpc \in {"predict", "predicting", "respond"} => batch # <<>>
             /\ wpc = "respond" => rows = batch

\* The model lock has one owner, and a thread that uses the model is it.
LockInv ==
  /\ wpc = "predicting" => lock = "worker"
  /\ \A c \in Clients : pc[c] = "training" => lock = "trainer"
  /\ \A c, d \in Clients : pc[c] = "training" /\ pc[d] = "training" => c = d

\* A waiting client has made a call.
CallInv == \A c \in Clients : pc[c] = "waiting" => calls[c] # 0

\* An answer waits in the response queue of the request it was computed for.
SlotInv ==
  \A r \in Requests : slot[r] # <<>> =>
                        /\ slot[r][1].row = r
                        /\ r[2] <= calls[r[1]]

\* A pending request was made, has no answer yet, and is pending once.
PendingInv ==
  /\ \A i \in 1 .. Len(PendingSeq) :
       /\ PendingSeq[i][2] <= calls[PendingSeq[i][1]]
       /\ slot[PendingSeq[i]] = <<>>
  /\ \A i, j \in 1 .. Len(PendingSeq) : PendingSeq[i] = PendingSeq[j] => i = j

IInv == /\ TypeOK
        /\ WorkerInv
        /\ LockInv
        /\ CallInv
        /\ SlotInv
        /\ PendingInv
        /\ OwnAnswer

-----------------------------------------------------------------------------
(* Sequences: a batch b in front of a queue q. *)

\* Moving the head of the queue to the end of the batch moves nothing.
LEMMA MoveHead ==
  ASSUME NEW S, NEW b \in Seq(S), NEW q \in Seq(S), q # <<>>
  PROVE  /\ Append(b, Head(q)) \in Seq(S)
         /\ Tail(q) \in Seq(S)
         /\ Append(b, Head(q)) \o Tail(q) = b \o q
<1>1. /\ Append(b, Head(q)) \in Seq(S)
      /\ Tail(q) \in Seq(S)
  BY HeadTailProperties, AppendProperties
<1>2. Len(Append(b, Head(q)) \o Tail(q)) = Len(b \o q)
  BY <1>1, HeadTailProperties, AppendProperties, ConcatProperties
<1>3. ASSUME NEW i \in 1 .. Len(b \o q)
      PROVE  (Append(b, Head(q)) \o Tail(q))[i] = (b \o q)[i]
  BY <1>1, HeadTailProperties, AppendProperties, ConcatProperties
<1> QED
  BY <1>1, <1>2, <1>3, ConcatProperties, SeqEqual

\* Appending to the queue appends to the whole.
LEMMA AppendRight ==
  ASSUME NEW S, NEW b \in Seq(S), NEW q \in Seq(S), NEW e \in S
  PROVE  /\ Append(q, e) \in Seq(S)
         /\ b \o Append(q, e) = Append(b \o q, e)
<1>1. /\ Append(q, e) \in Seq(S)
      /\ b \o q \in Seq(S)
      /\ <<e>> \in Seq(S)
  BY AppendProperties, ConcatProperties
<1> QED
  BY <1>1, AppendIsConcat, ConcatAssociative

\* Dropping the head of the batch drops the head of the whole.
LEMMA DropHead ==
  ASSUME NEW S, NEW b \in Seq(S), NEW q \in Seq(S), b # <<>>
  PROVE  /\ Tail(b) \in Seq(S)
         /\ b \o q \in Seq(S)
         /\ b \o q # <<>>
         /\ Head(b \o q) = Head(b)
         /\ Tail(b) \o q = Tail(b \o q)
<1>1. /\ Tail(b) \in Seq(S)
      /\ b \o q \in Seq(S)
      /\ Len(b) >= 1
      /\ b \o q # <<>>
  BY HeadTailProperties, ConcatProperties, EmptySeq
<1>2. Head(b \o q) = Head(b)
  BY <1>1, ConcatProperties
<1>3. Len(Tail(b) \o q) = Len(Tail(b \o q))
  BY <1>1, HeadTailProperties, ConcatProperties
<1>4. ASSUME NEW i \in 1 .. Len(Tail(b) \o q)
      PROVE  (Tail(b) \o q)[i] = Tail(b \o q)[i]
  BY <1>1, HeadTailProperties, ConcatProperties
<1> QED
  BY <1>1, <1>2, <1>3, <1>4, HeadTailProperties, ConcatProperties, SeqEqual

\* Without the batch, the queue is what follows it.
LEMMA DropBatch ==
  ASSUME NEW S, NEW b \in Seq(S), NEW q \in Seq(S)
  PROVE  <<>> \o q = SubSeq(b \o q, Len(b) + 1, Len(b \o q))
<1> DEFINE t == SubSeq(b \o q, Len(b) + 1, Len(b \o q))
<1>1. /\ b \o q \in Seq(S)
      /\ Len(b) \in Nat /\ Len(q) \in Nat
      /\ Len(b \o q) = Len(b) + Len(q)
      /\ \A i \in Len(b) + 1 .. Len(b \o q) : (b \o q)[i] = q[i - Len(b)]
  BY ConcatProperties, LenProperties
<1>2. \A i \in Len(b) + 1 .. Len(b \o q) : (b \o q)[i] \in S
  BY <1>1, ElementOfSeq
<1>3. /\ t \in Seq(S)
      /\ Len(t) = Len(q)
      /\ \A i \in 1 .. Len(q) : t[i] = (b \o q)[Len(b) + i]
  BY <1>1, <1>2, SubSeqProperties, Z3
<1>4. \A i \in 1 .. Len(q) : t[i] = q[i]
  BY <1>1, <1>3
<1> QED
  BY <1>3, <1>4, SeqEqual, ConcatEmptySeq
-----------------------------------------------------------------------------
(* What a step does to the pending requests. *)

LEMMA PendingType ==
  ASSUME TypeOK
  PROVE  /\ PendingSeq \in Seq(Requests)
         /\ \A i \in 1 .. Len(PendingSeq) : PendingSeq[i] \in Requests
BY ConcatProperties, ElementOfSeq DEF TypeOK, PendingSeq

\* A call adds its request at the end.
LEMMA PendingGetAction ==
  ASSUME TypeOK, NEW c \in Clients, GetAction(c)
  PROVE  /\ <<c, calls[c] + 1>> \in Requests
         /\ PendingSeq' = Append(PendingSeq, <<c, calls[c] + 1>>)
<1>1. <<c, calls[c] + 1>> \in Requests
  BY InferenceAssumption DEF TypeOK, GetAction, Requests
<1> QED
  BY <1>1, AppendRight DEF TypeOK, GetAction, PendingSeq

\* Collecting a batch leaves the sequence as it is.
LEMMA PendingTake ==
  ASSUME TypeOK, Take
  PROVE  /\ PendingSeq' = PendingSeq
         /\ batch' \in Seq(Requests) /\ Len(batch') <= MaxBatch
         /\ queue' \in Seq(Requests)
<1>1. /\ batch \in Seq(Requests) /\ queue \in Seq(Requests)
      /\ Len(batch) < MaxBatch /\ queue # <<>>
      /\ batch' = Append(batch, Head(queue)) /\ queue' = Tail(queue)
  BY DEF TypeOK, Take
<1>2. /\ PendingSeq' = PendingSeq
      /\ batch' \in Seq(Requests)
      /\ queue' \in Seq(Requests)
  BY <1>1, MoveHead DEF PendingSeq
<1>3. Len(batch') = Len(batch) + 1 /\ Len(batch) \in Nat
  BY <1>1, HeadTailProperties, AppendProperties, LenProperties
<1> QED
  BY <1>1, <1>2, <1>3, InferenceAssumption

\* An answer removes the first request.
LEMMA PendingRespond ==
  ASSUME TypeOK, WorkerInv, Respond
  PROVE  /\ PendingSeq # <<>>
         /\ Head(PendingSeq) = Head(batch)
         /\ PendingSeq' = Tail(PendingSeq)
         /\ Head(batch) \in Requests
         /\ batch' \in Seq(Requests) /\ Len(batch') <= MaxBatch
         /\ (wpc' = "respond" => batch' # <<>>)
<1>1. /\ Head(batch) \in Requests
      /\ Tail(batch) \in Seq(Requests)
      /\ Len(Tail(batch)) = Len(batch) - 1
      /\ Len(batch) \in Nat
  BY HeadTailProperties, LenProperties DEF TypeOK, WorkerInv, Respond
<1>2. wpc' = "respond" => batch' # <<>>
  BY <1>1, EmptySeq DEF Respond
<1> QED
  BY <1>1, <1>2, DropHead, InferenceAssumption
  DEF TypeOK, WorkerInv, Respond, PendingSeq

\* A failure removes the requests of the batch.
LEMMA PendingFails ==
  ASSUME TypeOK, WorkerInv, PredictFails
  PROVE  /\ Len(batch) \in 1 .. Len(PendingSeq)
         /\ PendingSeq' = SubSeq(PendingSeq, Len(batch) + 1, Len(PendingSeq))
<1>1. /\ batch \in Seq(Requests) /\ queue \in Seq(Requests)
      /\ batch # <<>>
      /\ batch' = <<>> /\ queue' = queue
  BY DEF TypeOK, WorkerInv, PredictFails
<1>2. Len(batch) \in Nat \ {0} /\ Len(queue) \in Nat
  BY <1>1, EmptySeq, LenProperties
<1>3. Len(PendingSeq) = Len(batch) + Len(queue)
  BY <1>1, ConcatProperties DEF PendingSeq
<1>4. PendingSeq' = SubSeq(PendingSeq, Len(batch) + 1, Len(PendingSeq))
  BY <1>1, DropBatch DEF PendingSeq
<1> QED
  BY <1>2, <1>3, <1>4

\* Every other step leaves queue and batch alone.
LEMMA PendingSame ==
  ASSUME UNCHANGED <<queue, batch>>
  PROVE  PendingSeq' = PendingSeq
BY DEF PendingSeq

-----------------------------------------------------------------------------
(* The inductive invariant. *)

LEMMA InitIInv == Init => IInv
<1> SUFFICES ASSUME Init PROVE IInv
  OBVIOUS
<1>1. TypeOK
  BY InferenceAssumption, EmptySeq DEF Init, TypeOK
<1>2. PendingSeq = <<>>
  BY EmptySeq, ConcatEmptySeq DEF Init, PendingSeq
<1>3. PendingInv
  BY <1>2, EmptySeq DEF PendingInv
<1>4. WorkerInv /\ LockInv /\ CallInv /\ SlotInv /\ OwnAnswer
  BY DEF Init, WorkerInv, LockInv, CallInv, SlotInv, OwnAnswer
<1> QED
  BY <1>1, <1>3, <1>4 DEF IInv

LEMMA NextTypeOK == IInv /\ [Next]_vars => TypeOK'
<1> SUFFICES ASSUME TypeOK, WorkerInv, CallInv, [Next]_vars PROVE TypeOK'
  BY DEF IInv
<1>1. ASSUME NEW c \in Clients, GetAction(c) PROVE TypeOK'
  <2>1. calls' \in [Clients -> 0 .. MaxCalls]
    BY <1>1, InferenceAssumption DEF TypeOK, GetAction
  <2>2. queue' \in Seq(Requests)
    BY <1>1, PendingGetAction, AppendProperties DEF TypeOK, GetAction
  <2> QED
    BY <1>1, <2>1, <2>2 DEF TypeOK, GetAction
<1>2. ASSUME NEW c \in Clients, Receive(c) PROVE TypeOK'
  <2>1. Current(c) \in Requests
    BY <1>2 DEF TypeOK, CallInv, Receive, Current, Requests
  <2>2. slot[Current(c)] \in {<<a>> : a \in Answers}
    BY <1>2, <2>1 DEF TypeOK, Receive
  <2>3. slot[Current(c)] \in
          {<<a>> : a \in [how : {"policy", "explore", "fallback"}, row : Requests]}
    BY <2>2 DEF Answers
  <2>4. PICK v : v = slot[Current(c)]
    OBVIOUS
  <2> QED
    BY <1>2, <2>1, <2>3, <2>4 DEF TypeOK, Receive
<1>3. ASSUME NEW c \in Clients, Timeout(c) PROVE TypeOK'
  <2>1. Current(c) \in Requests
    BY <1>3 DEF TypeOK, CallInv, Timeout, Current, Requests
  <2> QED
    BY <1>3, <2>1 DEF TypeOK, Timeout
<1>4. ASSUME NEW c \in Clients, StartTraining(c) \/ EndTraining(c) PROVE TypeOK'
  BY <1>4 DEF TypeOK, StartTraining, EndTraining
<1>5. CASE Take
  BY <1>5, PendingTake DEF TypeOK, Take
<1>6. CASE CloseBatch
  BY <1>6 DEF TypeOK, CloseBatch
<1>7. CASE StartPredict
  BY <1>7 DEF TypeOK, StartPredict
<1>8. CASE EndPredict
  BY <1>8 DEF TypeOK, EndPredict
<1>9. CASE PredictFails
  BY <1>9, EmptySeq, InferenceAssumption DEF TypeOK, PredictFails
<1>10. CASE Wake
  BY <1>10 DEF TypeOK, Wake
<1>11. CASE Respond
  <2>1. /\ Head(batch) \in Requests
        /\ batch' \in Seq(Requests) /\ Len(batch') <= MaxBatch
    BY <1>11, PendingRespond
  <2>2. rows = batch /\ batch # <<>>
    BY <1>11 DEF WorkerInv, Respond
  <2>3. rows' \in Seq(Requests)
    BY <1>11, <2>1, <2>2 DEF Respond
  <2>4. PICK how \in {"policy", "explore"} :
          PutAnswer(Head(batch), [how |-> how, row |-> Head(rows)])
    BY <1>11 DEF Respond
  <2>5. [how |-> how, row |-> Head(rows)] \in Answers
    BY <2>1, <2>2 DEF Answers
  <2>6. slot' \in [Requests -> {<<>>} \cup {<<a>> : a \in Answers}]
    BY <2>1, <2>4, <2>5 DEF TypeOK, PutAnswer
  <2> QED
    BY <1>11, <2>1, <2>3, <2>6 DEF TypeOK, Respond
<1>12. CASE UNCHANGED vars
  BY <1>12 DEF TypeOK, vars
<1> QED
  BY <1>1, <1>2, <1>3, <1>4, <1>5, <1>6, <1>7, <1>8, <1>9, <1>10, <1>11, <1>12
  DEF Next, Client, Worker

LEMMA NextWorkerInv == IInv /\ [Next]_vars => WorkerInv'
<1> SUFFICES ASSUME TypeOK, WorkerInv, [Next]_vars PROVE WorkerInv'
  BY DEF IInv
<1>1. CASE Take
  BY <1>1 DEF Take, WorkerInv
<1>2. CASE CloseBatch \/ StartPredict \/ EndPredict \/ PredictFails \/ Wake
  BY <1>2 DEF CloseBatch, StartPredict, EndPredict, PredictFails, Wake, WorkerInv
<1>3. CASE Respond
  BY <1>3, PendingRespond DEF Respond, WorkerInv
<1>4. ASSUME NEW c \in Clients, Client(c) PROVE WorkerInv'
  BY <1>4 DEF Client, GetAction, Receive, Timeout, StartTraining, EndTraining,
              WorkerInv
<1>5. CASE UNCHANGED vars
  BY <1>5 DEF vars, WorkerInv
<1> QED
  BY <1>1, <1>2, <1>3, <1>4, <1>5 DEF Next, Worker

LEMMA NextLockInv == IInv /\ [Next]_vars => LockInv'
<1> SUFFICES ASSUME TypeOK, LockInv, [Next]_vars PROVE LockInv'
  BY DEF IInv
<1>1. ASSUME NEW c \in Clients, GetAction(c) \/ Receive(c) \/ Timeout(c)
      PROVE  LockInv'
  BY <1>1 DEF GetAction, Receive, Timeout, TypeOK, LockInv
<1>2. ASSUME NEW c \in Clients, StartTraining(c) PROVE LockInv'
  BY <1>2 DEF StartTraining, TypeOK, LockInv
<1>3. ASSUME NEW c \in Clients, EndTraining(c) PROVE LockInv'
  BY <1>3 DEF EndTraining, TypeOK, LockInv
<1>4. CASE Worker
  BY <1>4 DEF Worker, Take, CloseBatch, StartPredict, EndPredict, PredictFails,
              Wake, Respond, TypeOK, LockInv
<1>5. CASE UNCHANGED vars
  BY <1>5 DEF vars, LockInv
<1> QED
  BY <1>1, <1>2, <1>3, <1>4, <1>5 DEF Next, Client

LEMMA NextCallInv == IInv /\ [Next]_vars => CallInv'
<1> SUFFICES ASSUME TypeOK, CallInv, [Next]_vars PROVE CallInv'
  BY DEF IInv
<1>1. ASSUME NEW c \in Clients, GetAction(c) PROVE CallInv'
  BY <1>1, InferenceAssumption DEF GetAction, TypeOK, CallInv
<1>2. ASSUME NEW c \in Clients,
             Receive(c) \/ Timeout(c) \/ StartTraining(c) \/ EndTraining(c)
      PROVE  CallInv'
  BY <1>2 DEF Receive, Timeout, StartTraining, EndTraining, TypeOK, CallInv
<1>3. CASE Worker
  BY <1>3 DEF Worker, Take, CloseBatch, StartPredict, EndPredict, PredictFails,
              Wake, Respond, CallInv
<1>4. CASE UNCHANGED vars
  BY <1>4 DEF vars, CallInv
<1> QED
  BY <1>1, <1>2, <1>3, <1>4 DEF Next, Client

\* The head of the pending requests has no answer: the response queue is empty.
LEMMA HeadHasNoAnswer ==
  ASSUME IInv, Respond
  PROVE  /\ Head(batch) \in Requests
         /\ rows = batch
         /\ slot[Head(batch)] = <<>>
         /\ Head(batch)[2] <= calls[Head(batch)[1]]
<1>1. /\ PendingSeq # <<>>
      /\ Head(PendingSeq) = Head(batch)
      /\ Head(batch) \in Requests
  BY PendingRespond DEF IInv
<1>2. 1 \in 1 .. Len(PendingSeq) /\ Head(PendingSeq) = PendingSeq[1]
  BY <1>1, PendingType, EmptySeq DEF IInv
<1> QED
  BY <1>1, <1>2 DEF IInv, WorkerInv, PendingInv, Respond

LEMMA NextSlotInv == IInv /\ [Next]_vars => SlotInv'
<1> SUFFICES ASSUME IInv, [Next]_vars PROVE SlotInv'
  OBVIOUS
<1>0. TypeOK /\ SlotInv
  BY DEF IInv
<1>1. ASSUME NEW c \in Clients, GetAction(c) PROVE SlotInv'
  <2>1. \A r \in Requests : r[2] <= calls[r[1]] => r[2] <= calls'[r[1]]
    BY <1>0, <1>1, InferenceAssumption DEF GetAction, TypeOK, Requests
  <2> QED
    BY <1>0, <1>1, <2>1 DEF GetAction, SlotInv
<1>2. ASSUME NEW c \in Clients, Receive(c) PROVE SlotInv'
  BY <1>0, <1>2 DEF Receive, TypeOK, SlotInv
<1>3. ASSUME NEW c \in Clients, Timeout(c) \/ StartTraining(c) \/ EndTraining(c)
      PROVE SlotInv'
  BY <1>0, <1>3 DEF Timeout, StartTraining, EndTraining, SlotInv
<1>4. CASE Respond
  <2>1. PICK how \in {"policy", "explore"} :
          slot' = [slot EXCEPT ![Head(batch)] = <<[how |-> how, row |-> Head(batch)]>>]
    BY <1>4, HeadHasNoAnswer DEF Respond, PutAnswer
  <2> QED
    BY <1>0, <1>4, <2>1, HeadHasNoAnswer DEF Respond, TypeOK, SlotInv
<1>5. CASE Take \/ CloseBatch \/ StartPredict \/ EndPredict \/ PredictFails \/ Wake
  BY <1>0, <1>5 DEF Take, CloseBatch, StartPredict, EndPredict, PredictFails, Wake,
                    SlotInv
<1>6. CASE UNCHANGED vars
  BY <1>0, <1>6 DEF vars, SlotInv
<1> QED
  BY <1>1, <1>2, <1>3, <1>4, <1>5, <1>6 DEF Next, Client, Worker

\* PendingInv is kept by any step that drops a prefix of the sequence, keeps the
\* number of calls and answers no request that stays pending.
LEMMA PendingSuffix ==
  ASSUME TypeOK, PendingInv, NEW k \in 0 .. Len(PendingSeq),
         PendingSeq' = SubSeq(PendingSeq, k + 1, Len(PendingSeq)),
         calls' = calls,
         \A i \in k + 1 .. Len(PendingSeq) : slot'[PendingSeq[i]] = <<>>
  PROVE  PendingInv'
<1> DEFINE n == Len(PendingSeq)
<1>1. PendingSeq \in Seq(Requests) /\ n \in Nat
  BY PendingType, LenProperties
<1>2. /\ Len(PendingSeq') = n - k
      /\ \A i \in 1 .. n - k : PendingSeq'[i] = PendingSeq[k + i]
  <2>1. \A i \in k + 1 .. n : PendingSeq[i] \in Requests
    BY <1>1, ElementOfSeq
  <2>2. /\ Len(SubSeq(PendingSeq, k + 1, n)) = IF k + 1 <= n THEN n - (k + 1) + 1 ELSE 0
        /\ \A i \in 1 .. n - (k + 1) + 1 :
             SubSeq(PendingSeq, k + 1, n)[i] = PendingSeq[(k + 1) + i - 1]
    BY <1>1, <2>1, SubSeqProperties, Z3
  <2> QED
    BY <1>1, <2>2
<1>3. ASSUME NEW i \in 1 .. Len(PendingSeq')
      PROVE  /\ k + i \in k + 1 .. n
             /\ k + i \in 1 .. n
             /\ PendingSeq'[i] = PendingSeq[k + i]
  BY <1>1, <1>2
<1>4. \A i \in 1 .. Len(PendingSeq') :
        /\ PendingSeq'[i][2] <= calls'[PendingSeq'[i][1]]
        /\ slot'[PendingSeq'[i]] = <<>>
  BY <1>3 DEF PendingInv
<1>5. \A i, j \in 1 .. Len(PendingSeq') :
        PendingSeq'[i] = PendingSeq'[j] => i = j
  <2> SUFFICES ASSUME NEW i \in 1 .. Len(PendingSeq'),
                      NEW j \in 1 .. Len(PendingSeq'),
                      PendingSeq'[i] = PendingSeq'[j]
               PROVE  i = j
    OBVIOUS
  <2>1. k + i = k + j
    BY <1>3 DEF PendingInv
  <2> QED
    BY <1>1, <1>2, <2>1
<1> QED
  BY <1>4, <1>5 DEF PendingInv

LEMMA PendingKept ==
  ASSUME PendingInv, PendingSeq' = PendingSeq, calls' = calls,
         \A r \in Requests : slot[r] = <<>> => slot'[r] = <<>>, TypeOK
  PROVE  PendingInv'
BY PendingType DEF PendingInv

LEMMA NextPendingInv == IInv /\ [Next]_vars => PendingInv'
<1> SUFFICES ASSUME IInv, [Next]_vars PROVE PendingInv'
  OBVIOUS
<1>0. TypeOK /\ WorkerInv /\ SlotInv /\ PendingInv
  BY DEF IInv
<1>1. ASSUME NEW c \in Clients, GetAction(c) PROVE PendingInv'
  <2> DEFINE new == <<c, calls[c] + 1>>
             n == Len(PendingSeq)
  <2>1. /\ new \in Requests
        /\ PendingSeq' = Append(PendingSeq, new)
        /\ PendingSeq \in Seq(Requests)
    BY <1>0, <1>1, PendingGetAction, PendingType
  <2>2. /\ Len(PendingSeq') = n + 1 /\ n \in Nat
        /\ \A i \in 1 .. n : PendingSeq'[i] = PendingSeq[i]
        /\ PendingSeq'[n + 1] = new
    BY <2>1, AppendProperties, LenProperties
  <2>3. /\ \A d \in Clients : calls[d] \in Nat /\ calls[d] <= calls'[d]
        /\ calls'[c] = calls[c] + 1
        /\ slot' = slot
    BY <1>0, <1>1, InferenceAssumption DEF GetAction, TypeOK
  <2>4. \A i \in 1 .. n : /\ PendingSeq[i] \in Requests
                          /\ PendingSeq[i] # new
    BY <1>0, <2>3, PendingType DEF PendingInv, Requests
  <2>5. slot[new] = <<>>
    BY <1>0, <2>1, <2>3 DEF SlotInv, Requests
  <2>6. ASSUME NEW i \in 1 .. Len(PendingSeq')
        PROVE  /\ PendingSeq'[i][2] <= calls'[PendingSeq'[i][1]]
               /\ slot'[PendingSeq'[i]] = <<>>
    <3>1. CASE i \in 1 .. n
      <4>1. PendingSeq'[i] = PendingSeq[i]
        BY <2>2, <3>1
      <4>2. /\ PendingSeq[i][2] \in Nat
            /\ PendingSeq[i][1] \in Clients
            /\ PendingSeq[i][2] <= calls[PendingSeq[i][1]]
            /\ slot[PendingSeq[i]] = <<>>
        BY <1>0, <2>4, <3>1, InferenceAssumption DEF PendingInv, Requests
      <4>3. /\ calls[PendingSeq[i][1]] <= calls'[PendingSeq[i][1]]
            /\ calls[PendingSeq[i][1]] \in Nat
            /\ calls'[PendingSeq[i][1]] \in Nat
        BY <2>3, <4>2, NextTypeOK, InferenceAssumption DEF TypeOK
      <4>4. /\ PendingSeq[i][2] <= calls'[PendingSeq[i][1]]
            /\ slot'[PendingSeq[i]] = <<>>
        BY <2>3, <4>2, <4>3
      <4> QED
        BY <4>1, <4>4
    <3>2. CASE i = n + 1
      BY <2>2, <2>3, <2>5, <3>2
    <3> QED
      BY <2>2, <3>1, <3>2
  <2>7. \A i, j \in 1 .. Len(PendingSeq') :
          PendingSeq'[i] = PendingSeq'[j] => i = j
    BY <1>0, <2>2, <2>4 DEF PendingInv
  <2> QED
    BY <2>6, <2>7 DEF PendingInv
<1>2. ASSUME NEW c \in Clients, Receive(c) PROVE PendingInv'
  BY <1>0, <1>2, PendingKept, PendingSame DEF Receive, TypeOK
<1>3. ASSUME NEW c \in Clients, Timeout(c) \/ StartTraining(c) \/ EndTraining(c)
      PROVE  PendingInv'
  BY <1>0, <1>3, PendingKept, PendingSame DEF Timeout, StartTraining, EndTraining
<1>4. CASE Take
  BY <1>0, <1>4, PendingKept, PendingTake DEF Take
<1>5. CASE CloseBatch \/ StartPredict \/ EndPredict \/ Wake
  BY <1>0, <1>5, PendingKept, PendingSame DEF CloseBatch, StartPredict, EndPredict, Wake
<1>6. CASE PredictFails
  BY <1>0, <1>6, PendingSuffix, PendingFails DEF PredictFails, PendingInv
<1>7. CASE Respond
  <2>1. /\ PendingSeq # <<>>
        /\ Head(PendingSeq) = Head(batch)
        /\ PendingSeq' = Tail(PendingSeq)
        /\ PendingSeq \in Seq(Requests)
    BY <1>0, <1>7, PendingRespond, PendingType
  <2>2. /\ Len(PendingSeq) \in Nat \ {0}
        /\ PendingSeq' = SubSeq(PendingSeq, 1 + 1, Len(PendingSeq))
        /\ PendingSeq[1] = Head(batch)
    BY <2>1, EmptySeq, TailIsSubSeq
  <2>3. PICK a : slot' = [slot EXCEPT ![Head(batch)] = <<a>>]
    BY <1>7, HeadHasNoAnswer DEF Respond, PutAnswer
  <2>4. \A i \in 1 + 1 .. Len(PendingSeq) : PendingSeq[i] # Head(batch)
    BY <1>0, <2>2 DEF PendingInv
  <2>5. \A i \in 1 + 1 .. Len(PendingSeq) : slot'[PendingSeq[i]] = <<>>
    BY <1>0, <2>2, <2>3, <2>4, PendingType DEF PendingInv, TypeOK
  <2>6. 1 \in 0 .. Len(PendingSeq)
    BY <2>2
  <2>7. calls' = calls
    BY <1>7 DEF Respond
  <2> QED
    BY <1>0, <2>2, <2>5, <2>6, <2>7, PendingSuffix
<1>8. CASE UNCHANGED vars
  BY <1>0, <1>8, PendingKept, PendingSame DEF vars
<1> QED
  BY <1>1, <1>2, <1>3, <1>4, <1>5, <1>6, <1>7, <1>8 DEF Next, Client, Worker

LEMMA NextOwnAnswer == IInv /\ [Next]_vars => OwnAnswer'
<1> SUFFICES ASSUME IInv, [Next]_vars PROVE OwnAnswer'
  OBVIOUS
<1>0. TypeOK /\ CallInv /\ SlotInv /\ OwnAnswer
  BY DEF IInv
<1>1. ASSUME NEW c \in Clients, GetAction(c) PROVE OwnAnswer'
  BY <1>0, <1>1 DEF GetAction, TypeOK, OwnAnswer, Current
<1>2. ASSUME NEW c \in Clients, Receive(c) PROVE OwnAnswer'
  <2>1. Current(c) \in Requests
    BY <1>0, <1>2 DEF Receive, TypeOK, CallInv, Current, Requests
  <2>2. slot[Current(c)][1].row = Current(c)
    BY <1>0, <1>2, <2>1 DEF Receive, SlotInv
  <2> QED
    BY <1>0, <1>2, <2>2 DEF Receive, TypeOK, OwnAnswer, Current
<1>3. ASSUME NEW c \in Clients, Timeout(c) PROVE OwnAnswer'
  BY <1>0, <1>3 DEF Timeout, TypeOK, OwnAnswer, Current
<1>4. ASSUME NEW c \in Clients, StartTraining(c) \/ EndTraining(c) PROVE OwnAnswer'
  BY <1>0, <1>4 DEF StartTraining, EndTraining, OwnAnswer, Current
<1>5. CASE Worker
  BY <1>0, <1>5 DEF Worker, Take, CloseBatch, StartPredict, EndPredict,
                    PredictFails, Wake, Respond, OwnAnswer, Current
<1>6. CASE UNCHANGED vars
  BY <1>0, <1>6 DEF vars, OwnAnswer, Current
<1> QED
  BY <1>1, <1>2, <1>3, <1>4, <1>5, <1>6 DEF Next, Client

LEMMA NextIInv == IInv /\ [Next]_vars => IInv'
BY NextTypeOK, NextWorkerInv, NextLockInv, NextCallInv, NextSlotInv,
   NextPendingInv, NextOwnAnswer DEF IInv

(***************************************************************************)
(* The inductive invariant holds of every behaviour of the service.        *)
(***************************************************************************)
THEOREM Inductive == Spec => []IInv
<1>1. Init => IInv
  BY InitIInv
<1>2. IInv /\ [Next]_vars => IInv'
  BY NextIInv
<1> QED
  BY <1>1, <1>2, PTL DEF Spec

\* The variables stay within their types, and a batch within max_batch_size.
THEOREM TypeCorrect == Spec => []TypeOK
<1>1. IInv => TypeOK
  BY DEF IInv
<1> QED
  BY <1>1, Inductive, PTL

\* A call of get_action returns an action chosen for its own state.
THEOREM CallersGetTheirOwnAnswer == Spec => []OwnAnswer
<1>1. IInv => OwnAnswer
  BY DEF IInv
<1> QED
  BY <1>1, Inductive, PTL

\* The response queue is never full when the worker puts an answer on it.
THEOREM ResponseQueueNeverFull == Spec => []NeverFull
<1>1. IInv => NeverFull
  <2> SUFFICES ASSUME IInv, wpc = "respond" PROVE slot[Head(batch)] = <<>>
    BY DEF NeverFull
  <2>1. /\ batch \in Seq(Requests) /\ queue \in Seq(Requests) /\ batch # <<>>
        /\ PendingSeq \in Seq(Requests)
    BY PendingType DEF IInv, TypeOK, WorkerInv
  <2>2. PendingSeq # <<>> /\ Head(PendingSeq) = Head(batch)
    BY <2>1, DropHead DEF PendingSeq
  <2>3. 1 \in 1 .. Len(PendingSeq) /\ PendingSeq[1] = Head(batch)
    BY <2>1, <2>2, EmptySeq
  <2> QED
    BY <2>3 DEF IInv, PendingInv
<1> QED
  BY <1>1, Inductive, PTL

\* The worker and a training client never use the model at the same time.
THEOREM ModelIsExclusive == Spec => []ModelExclusive
<1>1. IInv => ModelExclusive
  BY DEF IInv, LockInv, ModelExclusive
<1> QED
  BY <1>1, Inductive, PTL

-----------------------------------------------------------------------------
(* Refinement: each step of the service is a step of RequestReply or leaves *)
(* its variables unchanged.                                                 *)

Calling == {c \in Clients : pc[c] = "waiting"}

LEMMA InitRefines == Init => RR!RRInit
<1> SUFFICES ASSUME Init PROVE RR!RRInit
  OBVIOUS
<1>1. batch \o queue = <<>>
  BY EmptySeq, ConcatEmptySeq DEF Init
<1>2. Calling = {}
  BY DEF Init, Calling
<1> QED
  BY <1>1, <1>2 DEF Init, RR!RRInit, RR!Requests, Requests, Calling

LEMMA NextRefines == IInv /\ [Next]_vars => [RR!RRNext]_(RR!rrvars)
<1> SUFFICES ASSUME IInv, [Next]_vars PROVE [RR!RRNext]_(RR!rrvars)
  OBVIOUS
<1>0. TypeOK /\ WorkerInv
  BY DEF IInv
<1> USE DEF RR!RRNext, RR!rrvars
<1>1. ASSUME NEW c \in Clients, GetAction(c) PROVE RR!Ask(c)
  <2>1. batch' \o queue' = Append(batch \o queue, <<c, calls[c] + 1>>)
    BY <1>0, <1>1, PendingGetAction DEF PendingSeq
  <2>2. Calling' = Calling \cup {c} /\ c \notin Calling
    BY <1>0, <1>1 DEF GetAction, TypeOK, Calling
  <2> QED
    BY <1>1, <2>1, <2>2 DEF GetAction, RR!Ask, Calling
<1>2. ASSUME NEW c \in Clients, Receive(c) \/ Timeout(c) PROVE RR!Return(c)
  <2>1. batch' \o queue' = batch \o queue
    BY <1>2 DEF Receive, Timeout
  <2>2. Calling' = Calling \ {c} /\ c \in Calling
    BY <1>0, <1>2 DEF Receive, Timeout, TypeOK, Calling
  <2> QED
    BY <1>2, <2>1, <2>2
    DEF Receive, Timeout, RR!Return, RR!Current, RR!Fallback, Current, Calling
<1>3. ASSUME NEW c \in Clients, StartTraining(c) \/ EndTraining(c)
      PROVE  UNCHANGED RR!rrvars
  <2>1. Calling' = Calling
    BY <1>0, <1>3 DEF StartTraining, EndTraining, TypeOK, Calling
  <2> QED
    BY <1>3, <2>1 DEF StartTraining, EndTraining, Calling
<1>4. CASE Take
  <2>1. batch' \o queue' = batch \o queue
    BY <1>0, <1>4, PendingTake DEF PendingSeq
  <2> QED
    BY <1>4, <2>1 DEF Take
<1>5. CASE CloseBatch \/ StartPredict \/ EndPredict \/ Wake
  BY <1>5 DEF CloseBatch, StartPredict, EndPredict, Wake
<1>6. CASE PredictFails
  <2>1. /\ Len(batch) \in 1 .. Len(batch \o queue)
        /\ batch' \o queue'
             = SubSeq(batch \o queue, Len(batch) + 1, Len(batch \o queue))
    BY <1>0, <1>6, PendingFails DEF PendingSeq
  <2>2. RR!Lose
    BY <1>6, <2>1 DEF PredictFails, RR!Lose
  <2> QED
    BY <2>2
<1>7. CASE Respond
  <2>1. /\ batch \o queue # <<>>
        /\ Head(batch \o queue) = Head(batch)
        /\ batch' \o queue' = Tail(batch \o queue)
    BY <1>0, <1>7, PendingRespond DEF PendingSeq
  <2>2. PICK how \in {"policy", "explore"} :
          slot' = [slot EXCEPT ![Head(batch)] = <<[how |-> how, row |-> Head(batch)]>>]
    BY <1>7, HeadHasNoAnswer DEF Respond, PutAnswer
  <2>3. RR!Serve
    BY <1>7, <2>1, <2>2 DEF Respond, RR!Serve
  <2> QED
    BY <2>3
<1>8. CASE UNCHANGED vars
  BY <1>8 DEF vars
<1> QED
  BY <1>1, <1>2, <1>3, <1>4, <1>5, <1>6, <1>7, <1>8 DEF Next, Client, Worker

(***************************************************************************)
(* The threads, the batches and the lock implement the request/reply       *)
(* service: first come first served, at most one answer per request, and   *)
(* to every call an answer or a fallback of its own.                       *)
(***************************************************************************)
THEOREM Refinement == Spec => ImplementsRequestReply
<1>1. Init => RR!RRInit
  BY InitRefines
<1>2. IInv /\ [Next]_vars => [RR!RRNext]_(RR!rrvars)
  BY NextRefines
<1> QED
  BY <1>1, <1>2, Inductive, PTL DEF Spec, ImplementsRequestReply, RR!RRSpec
=============================================================================
