------------------------ MODULE IngestPipelineProofs ------------------------
(***************************************************************************)
(* Proofs about IngestPipeline, for any set of subjects, jobs and faults.  *)
(***************************************************************************)
EXTENDS IngestPipeline, TLAPS

\* A leaf that names no prover is tried with SMT, then with Zenon.
USE SMTT(30), ZenonT(30)

-----------------------------------------------------------------------------
(* Types.                                                                   *)

\* What the worker holds is a job whose receipt was published; it holds it only
\* while the locker runs.
WorkerOK ==
    /\ worker.pc = "idle" <=> worker.job = NoJob
    /\ worker.pc # "idle" => up
    /\ worker.pc # "idle" => message[worker.job] # "absent"
    /\ \A j \in Jobs : message[j] # "absent" => receipt[j] \in Evidence
    /\ \A j \in Jobs : message[j] # "absent" => request[j] # "none"
    /\ \A j \in Jobs : request[j] = "publishing" => message[j] # "absent"
    /\ \A j \in Jobs : message[j] = "absent" => deliveries[j] = 0
    /\ \A j \in Jobs : message[j] = "ready" => deliveries[j] < MaxDeliver

TypeInv == TypeOK /\ WorkerOK

\* A held job has an evidence receipt about some subject.
LEMMA HeldIsEvidence ==
    ASSUME TypeInv, worker.pc # "idle"
    PROVE  worker.job \in Jobs /\ Held \in Evidence /\ Held.subject \in Subjects
BY PipelineAssumption DEF TypeInv, TypeOK, WorkerOK, Held, Evidence

\* The program starts with every variable in its type.
LEMMA TypeInit == Init => TypeInv
BY PipelineAssumption, SMTT(30) DEF Init, TypeInv, TypeOK, WorkerOK, Resting, Evidence, AdminReceipts, Entries

\* A fault stays within the bound.
LEMMA FaultType == ASSUME TypeInv, NEW k, Fault(k) PROVE faults' \in 0 .. MaxFaults
BY PipelineAssumption DEF TypeInv, TypeOK, Fault

\* IngestArtifact's steps keep the types.
LEMMA GatewayType == ASSUME TypeInv, Gateway PROVE TypeInv'
<1>1. ASSUME NEW j \in Jobs, NEW s \in Subjects, NEW b \in Submissions,
             NEW stored \in BOOLEAN, NEW answer \in {"publishing", "failed"},
             answer = "publishing" => stored,
             PublishOutcome(j, s, b, stored, answer), faults' \in 0 .. MaxFaults
      PROVE  TypeInv'
  <2> USE PipelineAssumption DEF TypeInv, PublishOutcome, locker
  <2>1. Wrap(s, b) \in Evidence
    BY DEF Wrap, Evidence
  <2>2. message[j] = "absent" /\ deliveries[j] = 0
    BY <1>1 DEF TypeOK, WorkerOK
  <2>3. TypeOK'
    BY <1>1, <2>1 DEF TypeOK
  <2>4. WorkerOK'
    <3>1. CASE stored
      BY <1>1, <2>1, <2>2, <3>1 DEF TypeOK, WorkerOK
    <3>2. CASE ~stored
      BY <1>1, <2>1, <2>2, <3>2 DEF TypeOK, WorkerOK
    <3> QED
      BY <3>1, <3>2
  <2> QED
    BY <2>3, <2>4
<1>2. ASSUME NEW j \in Jobs, Accept(j) PROVE TypeInv'
  <2>1. faults' \in 0 .. MaxFaults
    BY <1>2, FaultType DEF Accept, TypeInv, TypeOK
  <2> QED
    BY <1>2, <2>1 DEF Accept, TypeInv, TypeOK, WorkerOK, queue, locker
<1>3. CASE GatewayCrash
  BY <1>3, FaultType DEF GatewayCrash, TypeInv, TypeOK, WorkerOK, queue, locker
<1>4. ASSUME NEW j \in Jobs, NEW s \in Subjects, NEW b \in Submissions,
             Publish(j, s, b) \/ PublishFails(j, s, b) \/ PublishAckLost(j, s, b)
      PROVE  TypeInv'
  <2>1. CASE Publish(j, s, b)
    BY <2>1, <1>1, Zenon DEF Publish, TypeInv, TypeOK
  <2>2. CASE PublishFails(j, s, b)
    BY <2>2, <1>1, FaultType, Zenon DEF PublishFails
  <2>3. CASE PublishAckLost(j, s, b)
    BY <2>3, <1>1, FaultType, Zenon DEF PublishAckLost
  <2> QED
    BY <1>4, <2>1, <2>2, <2>3
<1> QED
  BY <1>2, <1>3, <1>4 DEF Gateway

\* The stream's redelivery and expiry keep the types and the delivery limit.
LEMMA QueueType == ASSUME TypeInv, Queue PROVE TypeInv'
<1> SUFFICES ASSUME NEW j \in Jobs,
                    DeliveryLost(j) \/ AckWaitExpires(j) \/ AckWaitRaces(j) \/ Expire(j)
             PROVE  TypeInv'
  BY DEF Queue
<1> USE PipelineAssumption DEF TypeInv, TypeOK, WorkerOK, gateway, locker
<1>1. CASE DeliveryLost(j)
  BY <1>1, FaultType DEF DeliveryLost, Deliver
<1>2. CASE AckWaitExpires(j)
  BY <1>2 DEF AckWaitExpires, Redeliver
<1>3. CASE AckWaitRaces(j)
  BY <1>3, FaultType DEF AckWaitRaces, Redeliver
<1>4. CASE Expire(j)
  BY <1>4, FaultType DEF Expire, Pending
<1> QED
  BY <1>1, <1>2, <1>3, <1>4

\* The worker's steps keep the types, and the worker a published job.
LEMMA WorkerType == ASSUME TypeInv, Worker PROVE TypeInv'
<1>1. ASSUME NEW j \in Jobs, Fetch(j) PROVE TypeInv'
  BY <1>1, PipelineAssumption DEF Fetch, Deliver, TypeInv, TypeOK, WorkerOK, gateway, locker
<1>2. CASE NoLedger
  BY <1>2, HeldIsEvidence, FaultType, Zenon
     DEF NoLedger, Finish, Resting, Answer, Settle, Pending, TypeInv, TypeOK, WorkerOK, gateway, locker
<1>3. CASE Duplicate
  BY <1>3, Zenon DEF Duplicate, Step, TypeInv, TypeOK, WorkerOK, gateway, queue, locker
<1>4. CASE NotSealedYet
  BY <1>4, Zenon DEF NotSealedYet, Step, TypeInv, TypeOK, WorkerOK, gateway, queue, locker
<1>5. CASE SealAppend
  <2>1. Held \in Evidence /\ Held.subject \in Subjects /\ worker.job \in Jobs
    BY <1>5, HeldIsEvidence DEF SealAppend
  <2>2. /\ Append(log[Held.subject], Held) \in Seq(Evidence \cup AdminReceipts)
        /\ Len(log[Held.subject]) \in Nat
    BY <2>1 DEF TypeInv, TypeOK
  <2>3. log' \in [Subjects -> Seq(Evidence \cup AdminReceipts)]
    BY <1>5, <2>1, <2>2 DEF SealAppend, TypeInv, TypeOK
  <2>4. worker' = [pc |-> "index", job |-> worker.job, index |-> Len(log[Held.subject])]
    BY <1>5, Zenon DEF SealAppend, TypeInv, TypeOK
  <2> QED
    BY <1>5, <2>1, <2>2, <2>3, <2>4, Zenon DEF SealAppend, TypeInv, TypeOK, WorkerOK, gateway, queue
<1>6. CASE SealIndex
  BY <1>6, HeldIsEvidence, Zenon DEF SealIndex, Step, TypeInv, TypeOK, WorkerOK, gateway, queue
<1>7. CASE SealFails
  BY <1>7, HeldIsEvidence, FaultType, SMTT(30)
     DEF SealFails, Finish, Resting, Nak, Redeliver, TypeInv, TypeOK, WorkerOK, gateway, locker
<1>8. CASE PublishSealed
  <2>1. Held \in Evidence /\ worker.job \in Jobs /\ worker.index \in Nat
    BY <1>8, HeldIsEvidence DEF PublishSealed, Step, TypeInv, TypeOK
  <2>2. [receipt |-> Held, index |-> worker.index] \in [receipt : Evidence, index : Nat]
    BY <2>1
  <2>3. faults' \in 0 .. MaxFaults /\ sealed' \subseteq [receipt : Evidence, index : Nat]
    BY <1>8, <2>2, FaultType DEF PublishSealed, SealedEvent, TypeInv, TypeOK
  <2> QED
    BY <1>8, <2>1, <2>3, Zenon
     DEF PublishSealed, Step, TypeInv, TypeOK, WorkerOK, gateway, queue, locker
<1>9. CASE Ack
  BY <1>9, HeldIsEvidence, FaultType
     DEF Ack, Finish, Resting, Answer, Settle, Pending, TypeInv, TypeOK, WorkerOK, gateway, locker
<1> QED
  BY <1>1, <1>2, <1>3, <1>4, <1>5, <1>6, <1>7, <1>8, <1>9 DEF Worker

\* Trust seals, process death and OpenExistingLedgers keep the types.
LEMMA LockerType == ASSUME TypeInv, Locker PROVE TypeInv'
<1>1. ASSUME NEW s \in Subjects, SealTrust(s) PROVE TypeInv'
  <2>1. [subject |-> s, body |-> TrustChange] \in AdminReceipts
    BY DEF AdminReceipts
  <2> QED
    BY <1>1, <2>1 DEF SealTrust, TypeInv, TypeOK, WorkerOK, gateway, queue
<1>2. CASE Crash
  BY <1>2, FaultType, Zenon DEF Crash, Resting, TypeInv, TypeOK, WorkerOK, gateway, queue
<1>3. ASSUME NEW opened \in SUBSET Subjects, NEW prefix \in [Subjects -> Nat],
             \A s \in Subjects : prefix[s] <= Len(log[s]),
             OpenExistingLedgers(opened, prefix), faults' \in 0 .. MaxFaults
      PROVE  TypeInv'
  <2>1. \A s \in Subjects : {log[s][i] : i \in 1 .. prefix[s]} \subseteq Evidence \cup AdminReceipts
    BY <1>3 DEF TypeInv, TypeOK
  <2> QED
    BY <1>3, <2>1 DEF OpenExistingLedgers, TypeInv, TypeOK, WorkerOK, gateway, queue
<1>4. WholeLogs \in [Subjects -> Nat] /\ \A s \in Subjects : WholeLogs[s] <= Len(log[s])
  BY DEF WholeLogs, TypeInv, TypeOK
<1>5. CASE Restart
  BY <1>3, <1>4, <1>5, Zenon DEF Restart, TypeInv, TypeOK
<1>6. ASSUME NEW s \in Subjects, RestartWithout(s) PROVE TypeInv'
  BY <1>3, <1>4, <1>6, FaultType DEF RestartWithout
<1>7. ASSUME NEW s \in Subjects, NEW n \in 0 .. Len(log[s]), RestartShort(s, n) PROVE TypeInv'
  <2>1. n \in Nat
    BY <1>7 DEF RestartShort, TypeInv, TypeOK
  <2> DEFINE prefix == [WholeLogs EXCEPT ![s] = n]
  <2>2. prefix \in [Subjects -> Nat] /\ \A t \in Subjects : prefix[t] <= Len(log[t])
    BY <1>4, <1>7, <2>1 DEF RestartShort
  <2> HIDE DEF prefix
  <2> QED
    BY <1>3, <1>7, <2>2, FaultType, Zenon DEF RestartShort, prefix
<1> QED
  BY <1>1, <1>2, <1>5, <1>6, <1>7 DEF Locker

\* Every step keeps the types.
LEMMA TypeStep == TypeInv /\ [Next]_vars => TypeInv'
<1> SUFFICES ASSUME TypeInv, [Next]_vars PROVE TypeInv'
  OBVIOUS
<1>1. CASE UNCHANGED vars
  BY <1>1 DEF vars, gateway, queue, locker, TypeInv, TypeOK, WorkerOK
<1> QED
  BY <1>1, GatewayType, QueueType, WorkerType, LockerType DEF Next

\* The pipeline's variables keep their types, the fault and delivery counts
\* their bounds, and the worker a job that was published.
THEOREM TypeCorrect == Spec => []TypeOK
<1>1. TypeInv /\ [Next]_vars => TypeInv'
  BY TypeStep
<1>2. TypeInv => TypeOK
  BY DEF TypeInv
<1> QED
  BY TypeInit, <1>1, <1>2, PTL DEF Spec

-----------------------------------------------------------------------------
(* What no step undoes.                                                     *)

\* Appending keeps what is there.
LEMMA AppendKeeps ==
    ASSUME NEW S, NEW q \in Seq(S), NEW e \in S
    PROVE  /\ Append(q, e) \in Seq(S)
           /\ Len(Append(q, e)) = Len(q) + 1
           /\ \A i \in 1 .. Len(q) : Append(q, e)[i] = q[i]
           /\ Append(q, e)[Len(q) + 1] = e
OBVIOUS

\* Every step leaves the logs alone, or appends one receipt to one of them.
LEMMA LogStep ==
    ASSUME TypeInv, [Next]_vars
    PROVE  \/ UNCHANGED log
           \/ SealAppend
           \/ \E s \in Subjects : SealTrust(s)
<1> USE DEF gateway, queue, locker
<1>1. CASE UNCHANGED vars
  BY <1>1 DEF vars
<1>2. CASE Gateway
  BY <1>2 DEF Gateway, Publish, PublishFails, PublishAckLost, PublishOutcome, Accept, GatewayCrash
<1>3. CASE Queue
  BY <1>3 DEF Queue, DeliveryLost, AckWaitExpires, AckWaitRaces, Expire
<1>4. CASE Worker
  BY <1>4 DEF Worker, Fetch, NoLedger, Duplicate, NotSealedYet, SealIndex, SealFails, PublishSealed, Ack
<1>5. CASE Locker
  BY <1>5 DEF Locker, Crash, Restart, RestartWithout, RestartShort, OpenExistingLedgers
<1> QED
  BY <1>1, <1>2, <1>3, <1>4, <1>5 DEF Next

\* Entries stay where they are.
LEMMA LogGrows ==
    ASSUME TypeInv, [Next]_vars, NEW s \in Subjects
    PROVE  /\ Len(log[s]) <= Len(log'[s])
           /\ \A i \in 1 .. Len(log[s]) : log'[s][i] = log[s][i]
<1>1. CASE UNCHANGED log
  BY <1>1 DEF TypeInv, TypeOK
<1>2. CASE SealAppend
  <2>1. Held \in Evidence /\ Held.subject \in Subjects
    BY <1>2, HeldIsEvidence DEF SealAppend
  <2>2. log[Held.subject] \in Seq(Evidence \cup AdminReceipts) /\ Len(log[s]) \in Nat
    BY <2>1 DEF TypeInv, TypeOK
  <2>3. CASE s = Held.subject
    <3>1. log'[s] = Append(log[s], Held)
      BY <1>2, <2>3 DEF SealAppend, TypeInv, TypeOK
    <3> QED
      BY <2>1, <2>2, <2>3, <3>1, AppendKeeps
  <2>4. CASE s # Held.subject
    BY <1>2, <2>2, <2>4 DEF SealAppend, TypeInv, TypeOK
  <2> QED
    BY <2>3, <2>4
<1>3. ASSUME NEW t \in Subjects, SealTrust(t)
      PROVE  /\ Len(log[s]) <= Len(log'[s])
             /\ \A i \in 1 .. Len(log[s]) : log'[s][i] = log[s][i]
  <2> DEFINE trust == [subject |-> t, body |-> TrustChange]
  <2>1. trust \in AdminReceipts
    BY DEF AdminReceipts
  <2>2. log[s] \in Seq(Evidence \cup AdminReceipts) /\ Len(log[s]) \in Nat
    BY DEF TypeInv, TypeOK
  <2>3. log'[s] = IF s = t THEN Append(log[s], trust) ELSE log[s]
    BY <1>3 DEF SealTrust, TypeInv, TypeOK
  <2> HIDE DEF trust
  <2> QED
    BY <2>1, <2>2, <2>3, AppendKeeps
<1> QED
  BY <1>1, <1>2, <1>3, LogStep

\* A ledger never loses an entry.
LEMMA EntriesGrow ==
    ASSUME TypeInv, [Next]_vars, NEW s \in Subjects
    PROVE  Entries(s) \subseteq Entries(s)'
<1>1. Len(log[s]) \in Nat /\ Len(log'[s]) \in Nat
  BY TypeStep DEF TypeInv, TypeOK
<1> QED
  BY <1>1, LogGrows DEF Entries

\* What is sealed stays sealed.
LEMMA SealedStays ==
    ASSUME TypeInv, [Next]_vars, NEW r, IsSealed(r)
    PROVE  IsSealed(r)'
<1>1. r.subject \in Subjects
  BY DEF IsSealed, Evidence
<1> QED
  BY <1>1, EntriesGrow DEF IsSealed, Evidence

\* A published request keeps its receipt and its place in the stream's history.
LEMMA ReceiptStays ==
    ASSUME TypeInv, [Next]_vars, NEW j \in Jobs, message[j] # "absent"
    PROVE  receipt'[j] = receipt[j] /\ message'[j] # "absent"
<1> USE DEF TypeInv, TypeOK, WorkerOK, gateway, queue, locker
<1>1. CASE UNCHANGED vars
  BY <1>1 DEF vars
<1>2. CASE Gateway
  BY <1>2 DEF Gateway, Publish, PublishFails, PublishAckLost, PublishOutcome, Accept, GatewayCrash
<1>3. CASE Queue
  BY <1>3 DEF Queue, DeliveryLost, Deliver, AckWaitExpires, AckWaitRaces, Redeliver, Expire
<1>4. CASE Worker
  BY <1>4 DEF Worker, Fetch, Deliver, NoLedger, Answer, Settle, Duplicate, NotSealedYet, SealAppend,
              SealIndex, SealFails, Nak, Redeliver, PublishSealed, Ack
<1>5. CASE Locker
  BY <1>5, Zenon DEF Locker, SealTrust, Crash, Restart, RestartWithout, RestartShort, OpenExistingLedgers
<1> QED
  BY <1>1, <1>2, <1>3, <1>4, <1>5 DEF Next

-----------------------------------------------------------------------------
(* Acked messages are sealed, indexes and events point at log entries.      *)

\* Is r the entry at index n of its ledger?
At(r, n) ==
    /\ n \in 0 .. Len(log[r.subject]) - 1
    /\ log[r.subject][n + 1] = r

\* The receipt the worker is done appending is where the worker thinks it is.
WorkSealed ==
    /\ worker.pc \in {"index", "publish"} => At(Held, worker.index)
    /\ worker.pc = "ack" => IsSealed(Held)

SafeInv == WorkSealed /\ IndexSound /\ AckedIsSealed /\ EventSound

\* An entry keeps its index.
LEMMA AtStays ==
    ASSUME TypeInv, [Next]_vars, NEW r \in Evidence, NEW n, At(r, n)
    PROVE  At(r, n)'
<1>1. r.subject \in Subjects
  BY DEF Evidence
<1>2. Len(log[r.subject]) \in Nat /\ Len(log'[r.subject]) \in Nat
  BY <1>1, TypeStep DEF TypeInv, TypeOK
<1> QED
  BY <1>1, <1>2, LogGrows DEF At

\* Evidence at an index of its ledger is sealed.
LEMMA AtIsSealed ==
    ASSUME TypeInv, NEW r \in Evidence, NEW n, At(r, n)
    PROVE  IsSealed(r)
<1>1. r.subject \in Subjects
  BY DEF Evidence
<1>2. Len(log[r.subject]) \in Nat
  BY <1>1 DEF TypeInv, TypeOK
<1> QED
  BY <1>2 DEF At, IsSealed, Entries

\* The worker's job keeps its receipt through every step that keeps the job.
LEMMA HeldStays ==
    ASSUME TypeInv, [Next]_vars, worker.pc # "idle", worker'.job = worker.job
    PROVE  Held' = Held
BY HeldIsEvidence, ReceiptStays DEF TypeInv, WorkerOK, Held

\* Only the worker's own steps and a crash change what the worker does.
LEMMA WorkerStep ==
    ASSUME TypeInv, [Next]_vars
    PROVE  UNCHANGED worker \/ Worker \/ Crash
<1> USE DEF gateway, queue, locker
<1>1. CASE UNCHANGED vars
  BY <1>1 DEF vars
<1>2. CASE Gateway
  BY <1>2 DEF Gateway, Publish, PublishFails, PublishAckLost, PublishOutcome, Accept, GatewayCrash
<1>3. CASE Queue
  BY <1>3, SMTT(30) DEF Queue, DeliveryLost, AckWaitExpires, AckWaitRaces, Expire
<1>4. CASE Locker
  BY <1>4, Zenon DEF Locker, SealTrust, Restart, RestartWithout, RestartShort, OpenExistingLedgers
<1> QED
  BY <1>1, <1>2, <1>3, <1>4 DEF Next

\* After Seal, what the worker holds is in the ledger at the index Seal gave.
LEMMA WorkSealedStep == ASSUME TypeInv, SafeInv, [Next]_vars PROVE WorkSealed'
<1>0. worker \in [pc : {"idle", "check", "seal", "index", "publish", "ack"},
                  job : Jobs \cup {NoJob}, index : Nat]
  BY DEF TypeInv, TypeOK
<1>1. CASE UNCHANGED worker
  <2>1. CASE worker.pc \in {"index", "publish"}
    <3>1. Held' = Held /\ Held \in Evidence /\ At(Held, worker.index)
      BY <1>1, <2>1, HeldStays, HeldIsEvidence DEF SafeInv, WorkSealed
    <3> DEFINE r == Held
               n == worker.index
    <3>2. At(r, n)'
      BY <3>1, <1>1, AtStays
    <3> QED
      BY <3>1, <3>2, <1>1, <2>1 DEF WorkSealed, At
  <2>2. CASE worker.pc = "ack"
    <3>1. Held' = Held /\ IsSealed(Held)
      BY <1>1, <2>2, HeldStays DEF SafeInv, WorkSealed
    <3> QED
      BY <3>1, <1>1, <2>2, SealedStays DEF WorkSealed, IsSealed, Entries
  <2> QED
    BY <1>0, <1>1, <2>1, <2>2 DEF WorkSealed
<1>2. CASE SealAppend
  <2>1. Held \in Evidence /\ Held.subject \in Subjects /\ worker.job \in Jobs
    BY <1>2, HeldIsEvidence DEF SealAppend
  <2>2. Held' = Held
    BY <1>2 DEF SealAppend, Held, gateway
  <2>3. log[Held.subject] \in Seq(Evidence \cup AdminReceipts)
    BY <2>1 DEF TypeInv, TypeOK
  <2>4. log'[Held.subject] = Append(log[Held.subject], Held)
    BY <1>2, <2>1 DEF SealAppend, TypeInv, TypeOK
  <2>5. worker'.pc = "index" /\ worker'.index = Len(log[Held.subject])
    BY <1>0, <1>2 DEF SealAppend
  <2> QED
    BY <2>1, <2>2, <2>3, <2>4, <2>5, AppendKeeps DEF WorkSealed, At
<1>3. CASE SealIndex
  <2>1. Held' = Held /\ log' = log /\ worker'.pc = "publish" /\ worker'.index = worker.index
    BY <1>0, <1>3 DEF SealIndex, Step, Held, gateway
  <2> QED
    BY <1>3, <2>1 DEF SealIndex, Step, SafeInv, WorkSealed, At
<1>4. CASE PublishSealed
  <2>1. Held' = Held /\ log' = log /\ worker'.pc = "ack"
    BY <1>0, <1>4 DEF PublishSealed, Step, Held, gateway, locker
  <2>2. IsSealed(Held)
    BY <1>4, HeldIsEvidence, AtIsSealed DEF PublishSealed, Step, SafeInv, WorkSealed
  <2> QED
    BY <2>1, <2>2 DEF WorkSealed, IsSealed, Entries
<1>5. CASE Duplicate
  <2>1. Held' = Held /\ log' = log /\ worker'.pc = "ack"
    BY <1>0, <1>5 DEF Duplicate, Step, Held, gateway, locker
  <2>2. IsSealed(Held)
    BY <1>5, HeldIsEvidence DEF Duplicate, AlreadySealed, Step, SafeInv, IndexSound, IsSealed
  <2> QED
    BY <2>1, <2>2 DEF WorkSealed, IsSealed, Entries
<1>6. CASE worker'.pc \in {"idle", "check", "seal"}
  BY <1>6 DEF WorkSealed
<1>7. Crash \/ NoLedger \/ NotSealedYet \/ SealFails \/ Ack \/ (\E j \in Jobs : Fetch(j)) =>
        worker'.pc \in {"idle", "check", "seal"}
  BY <1>0 DEF Crash, NoLedger, NotSealedYet, SealFails, Ack, Fetch, Step, Finish, Resting
<1> QED
  BY <1>1, <1>2, <1>3, <1>4, <1>5, <1>6, <1>7, WorkerStep DEF Worker

\* Only the worker's Ack of its own job makes a message acked.
LEMMA OnlyAckAcks ==
    ASSUME TypeInv, [Next]_vars, NEW j \in Jobs, message'[j] = "acked"
    PROVE  message[j] = "acked" \/ (Ack /\ worker.job = j)
<1> USE DEF TypeInv, TypeOK, WorkerOK, gateway, queue, locker
<1>1. CASE UNCHANGED vars
  BY <1>1 DEF vars
<1>2. CASE Gateway
  BY <1>2 DEF Gateway, Publish, PublishFails, PublishAckLost, PublishOutcome, Accept, GatewayCrash
<1>3. CASE Queue
  BY <1>3 DEF Queue, DeliveryLost, Deliver, AckWaitExpires, AckWaitRaces, Redeliver, Expire
<1>4. CASE Worker
  BY <1>4 DEF Worker, Fetch, Deliver, NoLedger, Answer, Settle, Duplicate, NotSealedYet, SealAppend,
              SealIndex, SealFails, Nak, Redeliver, PublishSealed, Ack
<1>5. CASE Locker
  BY <1>5, Zenon DEF Locker, SealTrust, Crash, Restart, RestartWithout, RestartShort, OpenExistingLedgers
<1> QED
  BY <1>1, <1>2, <1>3, <1>4, <1>5 DEF Next

\* handleMessage acks only what processReceipt sealed or found sealed.
LEMMA AckedStep == ASSUME TypeInv, SafeInv, [Next]_vars PROVE AckedIsSealed'
<1> SUFFICES ASSUME NEW j \in Jobs, message'[j] = "acked"
             PROVE  IsSealed(receipt[j])'
  BY DEF AckedIsSealed
<1>1. CASE message[j] = "acked"
  <2>1. IsSealed(receipt[j]) /\ receipt'[j] = receipt[j]
    BY <1>1, ReceiptStays DEF SafeInv, AckedIsSealed
  <2> QED
    BY <2>1, SealedStays DEF IsSealed, Entries
<1>2. CASE Ack /\ worker.job = j
  <2>1. IsSealed(receipt[j])
    BY <1>2 DEF Ack, Finish, SafeInv, WorkSealed, Held
  <2>2. receipt' = receipt /\ log' = log
    BY <1>2 DEF Ack, gateway, locker
  <2> QED
    BY <2>1, <2>2 DEF IsSealed, Entries
<1> QED
  BY <1>1, <1>2, OnlyAckAcks

\* Only sealing, a crash and an opening change the digest indexes.
LEMMA IndexStep ==
    ASSUME TypeInv, [Next]_vars
    PROVE  \/ UNCHANGED <<indexed, open, truncated>>
           \/ SealIndex
           \/ Crash
           \/ \E s \in Subjects : SealTrust(s)
           \/ \E opened \in SUBSET Subjects, prefix \in [Subjects -> Nat] :
                 /\ \A s \in Subjects : prefix[s] <= Len(log[s])
                 /\ OpenExistingLedgers(opened, prefix)
<1> USE DEF gateway, queue, locker
<1>1. CASE UNCHANGED vars
  BY <1>1 DEF vars
<1>2. CASE Gateway
  BY <1>2 DEF Gateway, Publish, PublishFails, PublishAckLost, PublishOutcome, Accept, GatewayCrash
<1>3. CASE Queue
  BY <1>3 DEF Queue, DeliveryLost, AckWaitExpires, AckWaitRaces, Expire
<1>4. CASE Worker
  BY <1>4 DEF Worker, Fetch, NoLedger, Duplicate, NotSealedYet, SealAppend, SealFails, PublishSealed, Ack
<1>5. WholeLogs \in [Subjects -> Nat] /\ \A s \in Subjects : WholeLogs[s] <= Len(log[s])
  BY DEF WholeLogs, TypeInv, TypeOK
<1>6. CASE Restart
  BY <1>5, <1>6 DEF Restart
<1>7. ASSUME NEW s \in Subjects, RestartWithout(s)
      PROVE  \E opened \in SUBSET Subjects : OpenExistingLedgers(opened, WholeLogs)
  BY <1>7 DEF RestartWithout
<1>8. ASSUME NEW s \in Subjects, NEW n \in 0 .. Len(log[s]), RestartShort(s, n)
      PROVE  \E prefix \in [Subjects -> Nat] :
                 /\ \A t \in Subjects : prefix[t] <= Len(log[t])
                 /\ OpenExistingLedgers(Subjects, prefix)
  <2>1. n \in Nat
    BY <1>8 DEF TypeInv, TypeOK
  <2> DEFINE short == [WholeLogs EXCEPT ![s] = n]
  <2>2. short \in [Subjects -> Nat] /\ \A t \in Subjects : short[t] <= Len(log[t])
    BY <1>5, <1>8, <2>1 DEF RestartShort
  <2>3. OpenExistingLedgers(Subjects, short)
    BY <1>8 DEF RestartShort
  <2> HIDE DEF short
  <2> QED
    BY <2>2, <2>3
<1> QED
  BY <1>1, <1>2, <1>3, <1>4, <1>5, <1>6, <1>7, <1>8 DEF Next, Locker

\* Seal and rebuildDigestIndex enter only digests of log entries.
LEMMA IndexSoundStep == ASSUME TypeInv, SafeInv, [Next]_vars PROVE IndexSound'
<1> SUFFICES ASSUME NEW s \in Subjects PROVE indexed'[s] \subseteq Entries(s)'
  BY DEF IndexSound
<1>1. indexed[s] \subseteq Entries(s)'
  BY EntriesGrow DEF SafeInv, IndexSound
<1>2. CASE UNCHANGED <<indexed, open, truncated>>
  BY <1>1, <1>2
<1>3. CASE SealIndex
  <2>1. Held \in Evidence /\ Held.subject \in Subjects
    BY <1>3, HeldIsEvidence DEF SealIndex, Step
  <2>2. Held \in Entries(Held.subject)
    BY <1>3, <2>1, AtIsSealed DEF SealIndex, Step, SafeInv, WorkSealed, IsSealed
  <2>3. indexed'[s] \subseteq indexed[s] \cup (IF s = Held.subject THEN {Held} ELSE {})
    BY <1>3, <2>1 DEF SealIndex, TypeInv, TypeOK
  <2>4. CASE s = Held.subject
    <3>1. Entries(s)' = Entries(s)
      BY <1>3 DEF SealIndex, Entries
    <3> QED
      BY <1>1, <2>2, <2>3, <2>4, <3>1
  <2> QED
    BY <1>1, <2>3, <2>4
<1>4. CASE Crash
  BY <1>4 DEF Crash
<1>5. ASSUME NEW t \in Subjects, SealTrust(t) PROVE indexed'[s] \subseteq Entries(s)'
  <2> DEFINE trust == [subject |-> t, body |-> TrustChange]
  <2>1. trust \in AdminReceipts /\ log[t] \in Seq(Evidence \cup AdminReceipts)
    BY DEF AdminReceipts, TypeInv, TypeOK
  <2>2. log'[t] = Append(log[t], trust)
    BY <1>5 DEF SealTrust, TypeInv, TypeOK
  <2>3. indexed'[s] = IF s = t THEN indexed[s] \cup {trust} ELSE indexed[s]
    BY <1>5, Zenon DEF SealTrust, TypeInv, TypeOK
  <2> HIDE DEF trust
  <2>4. trust \in Entries(t)'
    BY <2>1, <2>2, AppendKeeps DEF Entries
  <2> QED
    BY <1>1, <2>3, <2>4
<1>6. ASSUME NEW opened \in SUBSET Subjects, NEW prefix \in [Subjects -> Nat],
             \A t \in Subjects : prefix[t] <= Len(log[t]),
             OpenExistingLedgers(opened, prefix)
      PROVE  indexed'[s] \subseteq Entries(s)'
  <2>1. Len(log[s]) \in Nat /\ log' = log
    BY <1>6 DEF OpenExistingLedgers, TypeInv, TypeOK
  <2>2. indexed'[s] \subseteq {log[s][i] : i \in 1 .. prefix[s]}
    BY <1>6 DEF OpenExistingLedgers
  <2>3. {log[s][i] : i \in 1 .. prefix[s]} \subseteq Entries(s)
    BY <1>6, <2>1 DEF Entries
  <2> QED
    BY <2>1, <2>2, <2>3 DEF Entries
<1> QED
  BY <1>2, <1>3, <1>4, <1>5, <1>6, IndexStep

\* processReceipt publishes the index that Seal returned.
LEMMA EventSoundStep == ASSUME TypeInv, SafeInv, [Next]_vars PROVE EventSound'
<1>1. ASSUME NEW e \in sealed PROVE At(e.receipt, e.index)'
  <2>1. e.receipt \in Evidence
    BY DEF TypeInv, TypeOK
  <2>2. At(e.receipt, e.index)
    BY DEF SafeInv, EventSound, At
  <2> QED
    BY <2>1, <2>2, AtStays
<1>2. sealed' = sealed \/ PublishSealed
  <2> USE DEF gateway, queue, locker
  <2>1. CASE UNCHANGED vars
    BY <2>1 DEF vars
  <2>2. CASE Gateway
    BY <2>2 DEF Gateway, Publish, PublishFails, PublishAckLost, PublishOutcome, Accept, GatewayCrash
  <2>3. CASE Queue
    BY <2>3 DEF Queue, DeliveryLost, AckWaitExpires, AckWaitRaces, Expire
  <2>4. CASE Worker
    BY <2>4, SMTT(30) DEF Worker, Fetch, NoLedger, Duplicate, NotSealedYet, SealAppend, SealIndex, SealFails, Ack
  <2>5. CASE Locker
    BY <2>5, Zenon DEF Locker, SealTrust, Crash, Restart, RestartWithout, RestartShort, OpenExistingLedgers
  <2> QED
    BY <2>1, <2>2, <2>3, <2>4, <2>5 DEF Next
<1>3. ASSUME PublishSealed, NEW e \in sealed' \ sealed PROVE At(e.receipt, e.index)'
  <2>1. e.receipt = Held /\ e.index = worker.index
    BY <1>3 DEF PublishSealed, SealedEvent
  <2>2. At(Held, worker.index) /\ log' = log
    BY <1>3 DEF PublishSealed, Step, SafeInv, WorkSealed, locker
  <2> QED
    BY <2>1, <2>2 DEF At
<1> QED
  BY <1>1, <1>2, <1>3 DEF EventSound, At

\* The safety invariant holds at the start.
LEMMA SafeInit == Init => SafeInv
<1> SUFFICES ASSUME Init PROVE SafeInv
  OBVIOUS
<1> QED
  BY DEF Init, SafeInv, WorkSealed, Resting, IndexSound, AckedIsSealed, EventSound, Entries

\* Every step keeps the safety invariant.
LEMMA SafeStep == TypeInv /\ SafeInv /\ [Next]_vars => SafeInv'
BY WorkSealedStep, IndexSoundStep, AckedStep, EventSoundStep DEF SafeInv

\* Throughout every behaviour of the pipeline the types are right, acked
\* messages are sealed, digest indexes and sealed events point at log entries.
THEOREM SafeAlways == Spec => [](TypeInv /\ SafeInv)
<1>1. Init => TypeInv /\ SafeInv
  BY TypeInit, SafeInit
<1>2. (TypeInv /\ SafeInv) /\ [Next]_vars => (TypeInv /\ SafeInv)'
  BY TypeStep, SafeStep
<1> QED
  BY <1>1, <1>2, PTL DEF Spec

\* No message is acked away before its receipt is in its subject's ledger.
THEOREM NothingAckedAway == Spec => []AckedIsSealed
<1>1. TypeInv /\ SafeInv => AckedIsSealed
  BY DEF SafeInv
<1> QED
  BY <1>1, SafeAlways, PTL

\* What the worker skips as a duplicate is in the log.
THEOREM DuplicatesAreSealed == Spec => []IndexSound
<1>1. TypeInv /\ SafeInv => IndexSound
  BY DEF SafeInv
<1> QED
  BY <1>1, SafeAlways, PTL

\* An evidence.sealed event names the entry its receipt is at.
THEOREM EventsPointAtEntries == Spec => []EventSound
<1>1. TypeInv /\ SafeInv => EventSound
  BY DEF SafeInv
<1> QED
  BY <1>1, SafeAlways, PTL

-----------------------------------------------------------------------------
(* No receipt is sealed twice while the digest indexes are complete.        *)

\* An index rebuilt to the end of its log covers the log, but for the receipt
\* the worker has appended and not indexed yet.
IndexCovers ==
    \A s \in open \ truncated : \A i \in 1 .. Len(log[s]) :
        \/ log[s][i] \in indexed[s]
        \/ worker.pc = "index" /\ s = Held.subject /\ log[s][i] = Held

\* What the worker is about to append is not in the log.
SealIsNew ==
    worker.pc = "seal" =>
        /\ Held.subject \in open
        /\ Held.subject \notin truncated => Held \notin Entries(Held.subject)

OnceInv == IndexCovers /\ SealIsNew /\ SealedOnce

\* A trust change is never taken for evidence.
LEMMA TrustIsNotEvidence ==
    ASSUME NEW s \in Subjects
    PROVE  [subject |-> s, body |-> TrustChange] \notin Evidence
BY PipelineAssumption DEF Evidence

\* Between append and index the worker can only write the index, or die.
LEMMA IndexingStep ==
    ASSUME TypeInv, [Next]_vars, worker.pc = "index"
    PROVE  (UNCHANGED worker /\ Held' = Held) \/ SealIndex \/ Crash
<1>1. UNCHANGED worker \/ SealIndex \/ Crash
  BY WorkerStep DEF Worker, Fetch, NoLedger, Duplicate, NotSealedYet, SealAppend, SealFails,
                    PublishSealed, Ack, Step, Finish
<1> QED
  BY <1>1, HeldStays

\* Every step keeps the index complete, but for the receipt being sealed.
LEMMA CoversStep == ASSUME TypeInv, SafeInv, OnceInv, [Next]_vars PROVE IndexCovers'
<1> DEFINE Covered(s, i) ==
             \/ log[s][i] \in indexed[s]
             \/ worker.pc = "index" /\ s = Held.subject /\ log[s][i] = Held
<1> SUFFICES ASSUME NEW s \in open' \ truncated', NEW i \in 1 .. Len(log'[s])
             PROVE  Covered(s, i)'
  BY DEF IndexCovers
<1>0. worker \in [pc : {"idle", "check", "seal", "index", "publish", "ack"},
                  job : Jobs \cup {NoJob}, index : Nat]
  BY DEF TypeInv, TypeOK
<1>1. /\ s \in Subjects
      /\ log[s] \in Seq(Evidence \cup AdminReceipts)
      /\ Len(log[s]) \in Nat /\ Len(log'[s]) \in Nat
  BY TypeStep DEF TypeInv, TypeOK
<1>2. s \in open \ truncated /\ i \in 1 .. Len(log[s]) => Covered(s, i)
  BY DEF OnceInv, IndexCovers
<1>3. CASE SealIndex
  <2>1. Held.subject \in Subjects
    BY <1>3, HeldIsEvidence DEF SealIndex, Step
  <2>2. log[s][i] \in indexed[s] \/ (log[s][i] = Held /\ s = Held.subject)
    BY <1>2, <1>3 DEF SealIndex
  <2> QED
    BY <1>1, <1>3, <2>1, <2>2 DEF SealIndex, TypeInv, TypeOK
<1>4. CASE SealAppend
  <2>1. Held \in Evidence /\ Held.subject \in Subjects /\ Held' = Held
    BY <1>4, HeldIsEvidence DEF SealAppend, Held, gateway
  <2>2. /\ worker'.pc = "index"
        /\ log'[s] = IF s = Held.subject THEN Append(log[s], Held) ELSE log[s]
        /\ UNCHANGED <<indexed, open, truncated>>
    BY <1>0, <1>1, <1>4 DEF SealAppend, TypeInv, TypeOK
  <2>3. i \in 1 .. Len(log[s]) => log[s][i] \in indexed[s]
    BY <1>2, <1>4, <2>2 DEF SealAppend
  <2> QED
    BY <1>1, <2>1, <2>2, <2>3, AppendKeeps
<1>5. ASSUME NEW t \in Subjects, SealTrust(t) PROVE Covered(s, i)'
  <2> DEFINE trust == [subject |-> t, body |-> TrustChange]
  <2>1. trust \in AdminReceipts
    BY DEF AdminReceipts
  <2>2. /\ log'[s] = IF s = t THEN Append(log[s], trust) ELSE log[s]
        /\ indexed'[s] = IF s = t THEN indexed[s] \cup {trust} ELSE indexed[s]
        /\ UNCHANGED <<open, truncated, worker, receipt>>
    BY <1>1, <1>5, Zenon DEF SealTrust, TypeInv, TypeOK, gateway
  <2>3. Held' = Held
    BY <2>2 DEF Held
  <2> HIDE DEF trust
  <2>4. i \in 1 .. Len(log[s]) => Covered(s, i)
    BY <1>2, <2>2
  <2>5. CASE i \in 1 .. Len(log[s])
    BY <1>1, <2>1, <2>2, <2>3, <2>4, <2>5, AppendKeeps
  <2>6. CASE i \notin 1 .. Len(log[s])
    BY <1>1, <2>1, <2>2, <2>6, AppendKeeps
  <2> QED
    BY <2>5, <2>6
<1>6. CASE Crash
  BY <1>6 DEF Crash
<1>7. ASSUME NEW opened \in SUBSET Subjects, NEW prefix \in [Subjects -> Nat],
             \A t \in Subjects : prefix[t] <= Len(log[t]),
             OpenExistingLedgers(opened, prefix)
      PROVE  Covered(s, i)'
  <2>1. s \in opened /\ prefix[s] = Len(log[s]) /\ log' = log
    BY <1>1, <1>7 DEF OpenExistingLedgers
  <2>2. indexed'[s] = {log[s][k] : k \in 1 .. prefix[s]}
    BY <1>1, <1>7, <2>1 DEF OpenExistingLedgers
  <2> QED
    BY <2>1, <2>2
<1>8. CASE UNCHANGED <<indexed, open, truncated, log>> /\ ~SealIndex /\ ~Crash
  <2>1. Covered(s, i)
    BY <1>2, <1>8
  <2> QED
    BY <1>8, <2>1, IndexingStep
<1> QED
  BY <1>3, <1>4, <1>5, <1>6, <1>7, <1>8, IndexStep, LogStep

\* The receipt processReceipt is about to seal is not in the log.
LEMMA SealIsNewStep == ASSUME TypeInv, SafeInv, OnceInv, [Next]_vars PROVE SealIsNew'
<1> SUFFICES ASSUME worker'.pc = "seal"
             PROVE  /\ Held'.subject \in open'
                    /\ Held'.subject \notin truncated' => Held' \notin Entries(Held.subject)'
  BY DEF SealIsNew
<1>0. worker \in [pc : {"idle", "check", "seal", "index", "publish", "ack"},
                  job : Jobs \cup {NoJob}, index : Nat]
  BY DEF TypeInv, TypeOK
<1>1. UNCHANGED worker \/ NotSealedYet
  <2>1. ~NoLedger /\ ~SealFails /\ ~Ack /\ ~Crash /\ ~(\E j \in Jobs : Fetch(j))
    BY DEF Fetch, NoLedger, SealFails, Ack, Crash, Finish, Resting
  <2>2. ~Duplicate /\ ~SealAppend /\ ~SealIndex /\ ~PublishSealed
    BY <1>0, Zenon DEF Duplicate, SealAppend, SealIndex, PublishSealed, Step
  <2> QED
    BY <2>1, <2>2, WorkerStep DEF Worker
<1>2. CASE NotSealedYet
  <2>1. /\ Held' = Held /\ Held.subject \in open /\ Held \notin indexed[Held.subject]
        /\ worker.pc = "check" /\ UNCHANGED <<log, open, truncated>>
    BY <1>2 DEF NotSealedYet, AlreadySealed, Step, Held, gateway, locker
  <2>2. Held.subject \notin truncated => Held \notin Entries(Held.subject)
    BY <2>1 DEF OnceInv, IndexCovers, Entries
  <2> QED
    BY <2>1, <2>2 DEF Entries
<1>3. CASE UNCHANGED worker
  <2>1. Held' = Held /\ Held \in Evidence /\ Held.subject \in Subjects /\ up
    BY <1>3, HeldStays, HeldIsEvidence DEF TypeInv, WorkerOK
  <2>2. /\ Held.subject \in open
        /\ Held.subject \notin truncated => Held \notin Entries(Held.subject)
    BY <1>3 DEF OnceInv, SealIsNew
  <2>3. CASE UNCHANGED log /\ UNCHANGED <<open, truncated>>
    BY <2>1, <2>2, <2>3 DEF Entries
  <2>4. ASSUME NEW t \in Subjects, SealTrust(t)
        PROVE  /\ UNCHANGED <<open, truncated>>
               /\ Held \in Entries(Held.subject)' => Held \in Entries(Held.subject)
    <3> DEFINE trust == [subject |-> t, body |-> TrustChange]
               S == Held.subject
    <3>1. trust \in AdminReceipts /\ trust # Held
      BY <2>1, TrustIsNotEvidence DEF AdminReceipts
    <3>2. /\ UNCHANGED <<open, truncated>>
          /\ log'[S] = IF S = t THEN Append(log[S], trust) ELSE log[S]
          /\ log[S] \in Seq(Evidence \cup AdminReceipts)
      BY <2>1, <2>4 DEF SealTrust, TypeInv, TypeOK
    <3> HIDE DEF trust
    <3> QED
      BY <2>1, <3>1, <3>2, AppendKeeps DEF Entries
  <2>5. ~SealAppend /\ ~SealIndex /\ ~Crash
    <3>1. SealAppend => worker'.pc = "index"
      BY <1>0 DEF SealAppend
    <3>2. SealIndex => worker'.pc = "publish"
      BY <1>0 DEF SealIndex, Step
    <3>3. Crash => worker'.pc = "idle"
      BY DEF Crash, Resting
    <3> QED
      BY <3>1, <3>2, <3>3
  <2>6. \A opened, prefix : ~OpenExistingLedgers(opened, prefix)
    BY <2>1 DEF OpenExistingLedgers
  <2> QED
    BY <2>1, <2>2, <2>3, <2>4, <2>5, <2>6, IndexStep, LogStep
<1> QED
  BY <1>1, <1>2, <1>3

\* No step seals a receipt a second time.
LEMMA SealedOnceStep == ASSUME TypeInv, SafeInv, OnceInv, [Next]_vars PROVE SealedOnce'
<1> SUFFICES ASSUME NEW s \in Subjects \ truncated',
                    NEW i \in 1 .. Len(log'[s]), NEW k \in 1 .. Len(log'[s]),
                    log'[s][i] = log'[s][k], log'[s][i] \in Evidence
             PROVE  i = k
  BY DEF SealedOnce
<1>1. log[s] \in Seq(Evidence \cup AdminReceipts) /\ Len(log[s]) \in Nat
  BY DEF TypeInv, TypeOK
<1>2. s \notin truncated
  BY IndexStep, Zenon DEF SealIndex, Crash, SealTrust, OpenExistingLedgers
<1>3. \A m, n \in 1 .. Len(log[s]) : (log[s][m] = log[s][n] /\ log[s][m] \in Evidence) => m = n
  BY <1>2 DEF OnceInv, SealedOnce
\* One more entry at the end, which is new or no evidence, keeps entries distinct.
<1>4. ASSUME NEW e \in Evidence \cup AdminReceipts, log'[s] = Append(log[s], e),
             e \in Evidence => e \notin Entries(s)
      PROVE  i = k
  <2>1. e \in Evidence => \A m \in 1 .. Len(log[s]) : log[s][m] # e
    BY <1>4 DEF Entries
  <2> QED
    BY <1>1, <1>3, <1>4, <2>1, AppendKeeps
<1>5. CASE log'[s] = log[s]
  BY <1>3, <1>5
<1>6. CASE SealAppend
  <2>1. Held \in Evidence
    BY <1>6, HeldIsEvidence DEF SealAppend
  <2>2. CASE s = Held.subject
    <3>1. Held \notin Entries(s)
      BY <1>2, <1>6, <2>2 DEF SealAppend, OnceInv, SealIsNew
    <3>2. log'[s] = Append(log[s], Held)
      BY <1>6, <2>2 DEF SealAppend, TypeInv, TypeOK
    <3> QED
      BY <1>4, <2>1, <3>1, <3>2
  <2>3. CASE s # Held.subject
    <3>1. log'[s] = log[s]
      BY <1>6, <2>3 DEF SealAppend, TypeInv, TypeOK
    <3> QED
      BY <1>5, <3>1
  <2> QED
    BY <2>2, <2>3
<1>7. ASSUME NEW t \in Subjects, SealTrust(t) PROVE i = k
  <2> DEFINE trust == [subject |-> t, body |-> TrustChange]
  <2>1. trust \in AdminReceipts /\ trust \notin Evidence
    BY TrustIsNotEvidence DEF AdminReceipts
  <2>2. log'[s] = IF s = t THEN Append(log[s], trust) ELSE log[s]
    BY <1>7 DEF SealTrust, TypeInv, TypeOK
  <2> HIDE DEF trust
  <2> QED
    BY <1>4, <1>5, <2>1, <2>2
<1> QED
  BY <1>5, <1>6, <1>7, LogStep

\* At the start each ledger holds its registration only.
LEMMA OnceInit == Init => OnceInv
<1> SUFFICES ASSUME Init PROVE OnceInv
  OBVIOUS
<1>1. IndexCovers
  BY DEF Init, IndexCovers, Entries
<1>2. SealIsNew
  BY DEF Init, SealIsNew, Resting
<1>3. SealedOnce
  BY PipelineAssumption DEF Init, SealedOnce, Evidence
<1> QED
  BY <1>1, <1>2, <1>3, SMTT(30) DEF OnceInv

\* The whole invariant.
Inv == TypeInv /\ SafeInv /\ OnceInv

\* The inductive invariant of the pipeline holds in every reachable state of
\* gateway, queue and worker.
THEOREM InvAlways == Spec => []Inv
<1>1. Init => OnceInv
  BY OnceInit
<1>2. TypeInv /\ SafeInv /\ OnceInv /\ [Next]_vars => OnceInv'
  BY CoversStep, SealIsNewStep, SealedOnceStep DEF OnceInv
<1> QED
  BY <1>1, <1>2, SafeAlways, PTL DEF Spec, Inv

\* Redelivery seals nothing twice, in ledgers whose index was always rebuilt.
THEOREM NothingSealedTwice == Spec => []SealedOnce
<1>1. Inv => SealedOnce
  BY DEF Inv, OnceInv
<1> QED
  BY <1>1, InvAlways, PTL

-----------------------------------------------------------------------------
(* Deliveries are paid for by faults.                                       *)

\* A message not settled yet has had at most one delivery per fault, and one
\* more while the worker is working on that delivery.
Paid(j) ==
    /\ message[j] \in {"absent", "ready"} => deliveries[j] <= faults
    /\ message[j] = "inflight" => deliveries[j] <= faults + 1
    /\ message[j] = "inflight" /\ ~HeldByWorker(j) => deliveries[j] <= faults
    /\ message[j] = "exhausted" => MaxDeliver <= faults

Budget == \A j \in Jobs : Paid(j)

\* No delivery has been made at the start.
LEMMA BudgetInit == Init => Budget
BY SMTT(30) DEF Init, Budget, Paid

\* Every delivery beyond the one under way has been paid for by a fault.
LEMMA BudgetStep == TypeInv /\ Budget /\ [Next]_vars => Budget'
<1> SUFFICES ASSUME TypeInv, Budget, [Next]_vars, NEW j \in Jobs PROVE Paid(j)'
  BY DEF Budget
<1>0. /\ faults \in Nat /\ MaxDeliver \in Nat
      /\ deliveries \in [Jobs -> Nat]
      /\ message \in [Jobs -> {"absent", "ready", "inflight", "acked", "termed",
                               "exhausted", "expired"}]
      /\ worker \in [pc : {"idle", "check", "seal", "index", "publish", "ack"},
                     job : Jobs \cup {NoJob}, index : Nat]
  BY PipelineAssumption, SMTT(30) DEF TypeInv, TypeOK
<1>1. Paid(j) /\ (message[j] = "absent" => deliveries[j] = 0)
  BY DEF Budget, TypeInv, WorkerOK
<1> USE DEF Paid, HeldByWorker, gateway, queue, locker
<1>2. CASE UNCHANGED vars
  BY <1>1, <1>2 DEF vars
<1>3. CASE Gateway
  <2> DEFINE OnlyPublished ==
               /\ UNCHANGED <<deliveries, worker>>
               /\ faults' \in Nat /\ faults <= faults'
               /\ message'[j] = message[j] \/ (message[j] = "absent" /\ message'[j] = "ready")
  <2>1. OnlyPublished
    <3>1. ASSUME NEW i \in Jobs, NEW t \in Subjects, NEW b \in Submissions,
                 Publish(i, t, b) \/ PublishFails(i, t, b) \/ PublishAckLost(i, t, b)
          PROVE  OnlyPublished
      BY <1>0, <3>1
         DEF Publish, PublishFails, PublishAckLost, PublishOutcome, Fault, TypeInv, WorkerOK
    <3>2. ASSUME NEW i \in Jobs, Accept(i) PROVE OnlyPublished
      BY <1>0, <3>2 DEF Accept, Fault
    <3>3. CASE GatewayCrash
      BY <1>0, <3>3 DEF GatewayCrash, Fault
    <3> QED
      BY <1>3, <3>1, <3>2, <3>3 DEF Gateway
  <2> QED
    BY <1>0, <1>1, <2>1
<1>4. ASSUME NEW i \in Jobs, DeliveryLost(i) PROVE Paid(j)'
  BY <1>0, <1>1, <1>4 DEF DeliveryLost, Deliver, Fault, Budget
<1>5. ASSUME NEW i \in Jobs, AckWaitExpires(i) PROVE Paid(j)'
  BY <1>0, <1>1, <1>5, PipelineAssumption DEF AckWaitExpires, Redeliver, TypeInv, TypeOK
<1>6. ASSUME NEW i \in Jobs, AckWaitRaces(i) PROVE Paid(j)'
  BY <1>0, <1>1, <1>6, PipelineAssumption DEF AckWaitRaces, Redeliver, Fault, TypeInv, TypeOK
<1>7. ASSUME NEW i \in Jobs, Expire(i) PROVE Paid(j)'
  BY <1>0, <1>1, <1>7, SMTT(30) DEF Expire, Fault
<1>8. ASSUME NEW i \in Jobs, Fetch(i) PROVE Paid(j)'
  <2>1. /\ ~HeldByWorker(j)
        /\ message[i] = "ready"
        /\ message'[j] = IF j = i THEN "inflight" ELSE message[j]
        /\ deliveries'[j] = IF j = i THEN deliveries[j] + 1 ELSE deliveries[j]
        /\ worker'.job = i
        /\ faults' = faults
    BY <1>0, <1>8, PipelineAssumption DEF Fetch, Deliver, TypeInv, WorkerOK
  <2> QED
    BY <1>0, <1>1, <2>1
<1>9. CASE NoLedger
  BY <1>0, <1>1, <1>9 DEF NoLedger, Finish, Resting, Answer, Settle, Pending, Fault
<1>10. CASE Duplicate \/ NotSealedYet \/ SealAppend \/ SealIndex \/ PublishSealed
  <2>1. worker'.job = worker.job /\ UNCHANGED <<message, deliveries>>
    BY <1>0, <1>10, Zenon DEF Duplicate, NotSealedYet, SealAppend, SealIndex, PublishSealed, Step
  <2>2. faults' = faults \/ faults' = faults + 1
    BY <1>10 DEF Duplicate, NotSealedYet, SealAppend, SealIndex, PublishSealed, Fault
  <2> QED
    BY <1>0, <1>1, <2>1, <2>2
<1>11. CASE SealFails
  BY <1>0, <1>1, <1>11, PipelineAssumption
     DEF SealFails, Finish, Resting, Nak, Redeliver, Fault, TypeInv, TypeOK
<1>12. CASE Ack
  BY <1>0, <1>1, <1>12 DEF Ack, Finish, Resting, Answer, Settle, Pending, Fault
<1>13. CASE Locker
  <2>1. CASE Crash
    BY <1>0, <1>1, <2>1 DEF Crash, Fault
  <2>2. CASE ~Crash
    <3>1. /\ UNCHANGED <<message, deliveries, worker>>
          /\ faults' = faults \/ faults' = faults + 1
      BY <1>13, <2>2, Zenon
         DEF Locker, SealTrust, Restart, RestartWithout, RestartShort, OpenExistingLedgers, Fault
    <3> QED
      BY <1>0, <1>1, <3>1, SMTT(30)
  <2> QED
    BY <2>1, <2>2
<1> QED
  BY <1>2, <1>3, <1>4, <1>5, <1>6, <1>7, <1>8, <1>9, <1>10, <1>11, <1>12, <1>13, Zenon
     DEF Next, Queue, Worker

\* The consumer gives up on a message only after MaxDeliver faults.
THEOREM GivingUpNeedsFaults == Spec => []ExhaustionNeedsFaults
<1>1. Budget /\ TypeInv => ExhaustionNeedsFaults
  BY PipelineAssumption DEF Budget, Paid, ExhaustionNeedsFaults, TypeInv, TypeOK
<1>2. TypeInv /\ SafeInv => TypeInv
  OBVIOUS
<1> QED
  BY <1>1, <1>2, BudgetInit, BudgetStep, SafeAlways, PTL DEF Spec

-----------------------------------------------------------------------------
(* The pipeline implements the promise of SealedEvidence, unless an index   *)
(* rebuild can be cut short.                                                *)

Published == {i \in Jobs : message[i] # "absent"}
Submitted == {receipt[j] : j \in Published}

\* Openings that index whole logs truncate nothing.
LEMMA NeverTruncated ==
    ASSUME "rebuild" \notin Faults
    PROVE  Spec => [](truncated = {})
<1>1. Init => truncated = {}
  BY DEF Init
<1>2. TypeInv /\ truncated = {} /\ [Next]_vars => (truncated = {})'
  <2> SUFFICES ASSUME TypeInv, truncated = {}, [Next]_vars PROVE truncated' = {}
    OBVIOUS
  <2> USE DEF gateway, queue, locker
  <2>1. CASE UNCHANGED vars
    BY <2>1 DEF vars
  <2>2. CASE Gateway
    BY <2>2
       DEF Gateway, Publish, PublishFails, PublishAckLost, PublishOutcome, Accept, GatewayCrash
  <2>3. CASE Queue
    BY <2>3 DEF Queue, DeliveryLost, AckWaitExpires, AckWaitRaces, Expire
  <2>4. CASE Worker
    BY <2>4 DEF Worker, Fetch, NoLedger, Duplicate, NotSealedYet, SealAppend, SealIndex,
                      SealFails, PublishSealed, Ack
  <2>5. ASSUME NEW opened \in SUBSET Subjects, OpenExistingLedgers(opened, WholeLogs)
        PROVE  truncated' = {}
    BY <2>5, SMTT(30) DEF OpenExistingLedgers, WholeLogs, TypeInv, TypeOK
  <2>6. CASE Locker
    BY <2>5, <2>6, Zenon DEF Locker, SealTrust, Crash, Restart, RestartWithout, RestartShort, Fault
  <2> QED
    BY <2>1, <2>2, <2>3, <2>4, <2>6 DEF Next
<1>3. TypeInv /\ SafeInv => TypeInv
  OBVIOUS
<1> QED
  BY <1>1, <1>2, <1>3, SafeAlways, PTL DEF Spec

\* Outside the gateway's publish nothing is submitted.
LEMMA SubmittedStep ==
    ASSUME TypeInv, [Next]_vars,
           ~(\E j \in Jobs, s \in Subjects, b \in Submissions : Publish(j, s, b) \/ PublishAckLost(j, s, b))
    PROVE  Submitted' = Submitted
<1>1. ASSUME NEW j \in Jobs, message[j] = "absent" PROVE message'[j] = "absent"
  <2> USE DEF TypeInv, TypeOK, WorkerOK, gateway, queue, locker
  <2>1. CASE UNCHANGED vars
    BY <1>1, <2>1 DEF vars
  <2>2. CASE Gateway
    BY <1>1, <2>2 DEF Gateway, PublishFails, PublishOutcome, Accept, GatewayCrash
  <2>3. CASE Queue
    BY <1>1, <2>3
       DEF Queue, DeliveryLost, Deliver, AckWaitExpires, AckWaitRaces, Redeliver, Expire, Pending
  <2>4. CASE Worker
    BY <1>1, <2>4, HeldIsEvidence, SMTT(30)
       DEF Worker, Fetch, Deliver, NoLedger, Answer, Settle, Pending, Duplicate, NotSealedYet, SealAppend,
           SealIndex, SealFails, Nak, Redeliver, PublishSealed, Ack
  <2>5. CASE Locker
    BY <1>1, <2>5, Zenon
       DEF Locker, SealTrust, Crash, Restart, RestartWithout, RestartShort, OpenExistingLedgers
  <2> QED
    BY <2>1, <2>2, <2>3, <2>4, <2>5 DEF Next
<1>2. Published' = Published
  BY <1>1, ReceiptStays DEF Published
<1>3. \A j \in Published : receipt'[j] = receipt[j]
  BY ReceiptStays DEF Published
<1> QED
  BY <1>2, <1>3 DEF Submitted

\* Every step of the pipeline is a step of SealedEvidence or changes nothing
\* there.
LEMMA PromiseStep ==
    ASSUME Inv, truncated = {}, [Next]_vars
    PROVE  [Promise!Next]_(Promise!vars)
<1> USE DEF Inv
<1>0. /\ Submitted = {receipt[j] : j \in {i \in Jobs : message[i] # "absent"}}
      /\ Submitted' = {receipt'[j] : j \in {i \in Jobs : message'[i] # "absent"}}
  BY DEF Submitted, Published
<1>1. ASSUME NEW j \in Jobs, NEW s \in Subjects, NEW b \in Submissions,
             Publish(j, s, b) \/ PublishAckLost(j, s, b)
      PROVE  Promise!Submit
  <2>1. /\ message'[j] = "ready" /\ receipt'[j] = Wrap(s, b) /\ message[j] = "absent"
        /\ \A i \in Jobs \ {j} : message'[i] = message[i] /\ receipt'[i] = receipt[i]
        /\ log' = log
    BY <1>1 DEF Publish, PublishAckLost, PublishOutcome, TypeInv, TypeOK, WorkerOK, locker
  <2>2. Wrap(s, b) \in Evidence
    BY SMTT(30) DEF Wrap, Evidence
  <2>3. Submitted' = Submitted \cup {Wrap(s, b)}
    BY <2>1 DEF Submitted, Published
  <2> QED
    BY <1>0, <2>1, <2>2, <2>3 DEF Promise!Submit
<1>2. CASE SealAppend
  <2>1. Held \in Evidence /\ worker.job \in Jobs /\ message[worker.job] # "absent"
    BY <1>2, HeldIsEvidence DEF SealAppend, TypeInv, WorkerOK
  <2>2. Held \in Submitted
    BY <2>1 DEF Submitted, Published, Held
  <2>3. Submitted' = Submitted
    BY <1>2 DEF SealAppend, gateway, queue, Submitted, Published
  <2>4. Held \notin Entries(Held.subject)
    BY <1>2 DEF SealAppend, OnceInv, SealIsNew
  <2>5. log' = [log EXCEPT ![Held.subject] = Append(@, Held)]
    BY <1>2 DEF SealAppend
  <2> QED
    BY <1>0, <2>2, <2>3, <2>4, <2>5, Zenon DEF Promise!Next, Promise!SealEvidence, Promise!Entries, Entries
<1>3. ASSUME NEW s \in Subjects, SealTrust(s) PROVE Promise!SealAdmin
  <2> DEFINE trust == [subject |-> s, body |-> TrustChange]
  <2>1. trust \in AdminReceipts /\ trust.subject = s
    BY DEF AdminReceipts
  <2>2. log' = [log EXCEPT ![trust.subject] = Append(@, trust)]
    BY <1>3 DEF SealTrust
  <2>3. Submitted' = Submitted
    BY <1>3 DEF SealTrust, gateway, queue, Submitted, Published
  <2> HIDE DEF trust
  <2> QED
    BY <1>0, <2>1, <2>2, <2>3, Zenon DEF Promise!SealAdmin
<1>4. CASE UNCHANGED log /\ Submitted' = Submitted
  BY <1>0, <1>4, Zenon DEF Promise!vars
<1> QED
  BY <1>1, <1>2, <1>3, <1>4, LogStep, SubmittedStep DEF Promise!Next

\* The pipeline starts as SealedEvidence does.
LEMMA PromiseInit == Init => Promise!Init
<1> SUFFICES ASSUME Init PROVE Promise!Init
  OBVIOUS
<1>1. \A s \in Subjects : [subject |-> s, body |-> Registration] \notin Evidence
  BY PipelineAssumption DEF Evidence
<1>2. \A s \in Subjects : Promise!Entries(s) = {[subject |-> s, body |-> Registration]}
  BY DEF Init, Promise!Entries
<1> QED
  BY <1>1, <1>2 DEF Init, Promise!Init

\* Evidence is sealed at most once, in the ledger of its subject, and only if
\* it was submitted; ledgers only grow at their end.
THEOREM PipelineImplementsPromise ==
    ASSUME "rebuild" \notin Faults
    PROVE  Spec => ImplementsPromise
<1>1. Inv /\ truncated = {} /\ [Next]_vars => [Promise!Next]_(Promise!vars)
  BY PromiseStep
<1> QED
  BY <1>1, PromiseInit, InvAlways, NeverTruncated, PTL DEF Spec, ImplementsPromise, Promise!Spec
=============================================================================
