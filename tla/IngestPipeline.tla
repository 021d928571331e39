--------------------------- MODULE IngestPipeline ---------------------------
(***************************************************************************)
(* From an ingest request to a sealed receipt: the gateway's publish       *)
(* (internal/gateway/handler.go), the INGEST work queue (internal/nats),   *)
(* the locker's worker (internal/locker/worker.go) and the ledgers of all  *)
(* subjects, across lost acknowledgements, failed writes, process deaths   *)
(* and restarts (internal/locker/locker.go, cmd/locker/main.go).           *)
(* Subjects are registered already; Ledger models one ledger in detail.    *)
(***************************************************************************)
EXTENDS Integers, Sequences, FiniteSets

CONSTANTS
    Subjects,
    Jobs,            \* ingest requests that pass validation, by job id
    Submissions,     \* what tells receipts apart: content, publisher, second of receipt
    Registration,    \* body of a registration receipt
    TrustChange,     \* body of a trust change receipt
    NoReceipt,       \* the receipt of a request not made yet
    NoJob,           \* the job of an idle worker
    MaxDeliver,      \* deliveries the consumer makes of a message (code: 5)
    Faults,          \* kinds of fault that may happen
    MaxFaults,       \* bound: faults altogether
    MaxTrustSeals    \* bound: trust changes sealed per subject

FaultKinds == {"publish", "publishAck", "gatewayCrash", "delivery", "seal", "event",
               "ack", "slow", "age", "crash", "open", "rebuild"}

ASSUME PipelineAssumption ==
    /\ Registration \notin Submissions
    /\ TrustChange \notin Submissions
    /\ NoReceipt \notin [subject : Subjects, body : Submissions]
    /\ NoJob \notin Jobs
    /\ MaxDeliver \in Nat \ {0}
    /\ Faults \subseteq FaultKinds
    /\ MaxFaults \in Nat
    /\ MaxTrustSeals \in Nat

VARIABLES
    request,      \* gateway: "none", "publishing" (stored, 202 not sent), "accepted", "failed"
    receipt,      \* the receipt in the request's IngestRef
    message,      \* INGEST: "absent", "ready", "inflight", "acked", "termed", "exhausted", "expired"
    deliveries,   \* INGEST: deliveries made of the message
    up,           \* is the locker process running?
    open,         \* subjects whose ledger it has open
    log,          \* the ledgers on disk
    indexed,      \* receipts in each open ledger's digest index
    worker,       \* the worker goroutine: where it is, its job, the index Seal gave it
    ingested,     \* receipts announced by evidence.ingested events
    sealed,       \* evidence.sealed events published
    faults,       \* faults so far
    truncated     \* subjects that were once opened with an incomplete index

gateway == <<request, receipt>>
queue   == <<message, deliveries>>
locker  == <<up, open, log, indexed, truncated>>
vars    == <<gateway, queue, locker, worker, ingested, sealed, faults>>

Evidence      == [subject : Subjects, body : Submissions]
AdminReceipts == [subject : Subjects, body : {Registration, TrustChange}]
Entries(s)    == {log[s][i] : i \in 1 .. Len(log[s])}
IsSealed(r)   == r \in Evidence /\ r \in Entries(r.subject)

\* A fault of kind k happens, within the bound.
Fault(k) ==
    /\ k \in Faults
    /\ faults < MaxFaults
    /\ faults' = faults + 1

Resting == [pc |-> "idle", job |-> NoJob, index |-> 0]

Init ==
    /\ request = [j \in Jobs |-> "none"]
    /\ receipt = [j \in Jobs |-> NoReceipt]
    /\ message = [j \in Jobs |-> "absent"]
    /\ deliveries = [j \in Jobs |-> 0]
    /\ up = TRUE
    /\ open = Subjects
    /\ log = [s \in Subjects |-> <<[subject |-> s, body |-> Registration]>>]
    /\ indexed = [s \in Subjects |-> Entries(s)]
    /\ worker = Resting
    /\ ingested = {}
    /\ sealed = {}
    /\ faults = 0
    /\ truncated = {}

-----------------------------------------------------------------------------
(* Gateway: IngestArtifact wraps the artifact in a receipt and publishes.   *)

Wrap(s, b) == [subject |-> s, body |-> b]

\* js.Publish: the server stores the message or not, and answers or not.
PublishOutcome(j, s, b, stored, answer) ==
    /\ request[j] = "none"
    /\ receipt' = [receipt EXCEPT ![j] = Wrap(s, b)]
    /\ message' = [message EXCEPT ![j] = IF stored THEN "ready" ELSE @]
    /\ request' = [request EXCEPT ![j] = answer]
    /\ UNCHANGED <<deliveries, locker, worker, ingested, sealed>>

Publish(j, s, b) == PublishOutcome(j, s, b, TRUE, "publishing") /\ UNCHANGED faults

\* The gateway answers 500.
PublishFails(j, s, b) == PublishOutcome(j, s, b, FALSE, "failed") /\ Fault("publish")

\* The gateway answers 500 although the message is stored.
PublishAckLost(j, s, b) == PublishOutcome(j, s, b, TRUE, "failed") /\ Fault("publishAck")

\* evidence.ingested is published, then the gateway answers 202.
Accept(j) ==
    /\ request[j] = "publishing"
    /\ request' = [request EXCEPT ![j] = "accepted"]
    /\ \/ ingested' = ingested \cup {receipt[j]} /\ UNCHANGED faults
       \/ UNCHANGED ingested /\ Fault("event")
    /\ UNCHANGED <<receipt, queue, locker, worker, sealed>>

GatewayCrash ==
    /\ \E j \in Jobs : request[j] = "publishing"
    /\ request' = [j \in Jobs |-> IF request[j] = "publishing" THEN "failed" ELSE request[j]]
    /\ Fault("gatewayCrash")
    /\ UNCHANGED <<receipt, queue, locker, worker, ingested, sealed>>

-----------------------------------------------------------------------------
(* INGEST: a work queue with explicit acks, a redelivery timer and limits.  *)

Pending == {"ready", "inflight", "exhausted"}

\* An ack or term removes the message, also when it comes late.
Settle(j, outcome) ==
    message' = [message EXCEPT ![j] = IF @ \in Pending THEN outcome ELSE @]

\* Faulty variants: no limit, and a limit one too low.
RedeliverForever(j) == message' = [message EXCEPT ![j] = "ready"]

RedeliverTooFew(j) ==
    message' = [message EXCEPT ![j] = IF deliveries[j] + 1 < MaxDeliver THEN "ready" ELSE "exhausted"]

\* The message is offered again unless it has been delivered MaxDeliver times.
Redeliver(j) ==
    message' = [message EXCEPT ![j] = IF deliveries[j] < MaxDeliver THEN "ready" ELSE "exhausted"]

Deliver(j) ==
    /\ message[j] = "ready"
    /\ message' = [message EXCEPT ![j] = "inflight"]
    /\ deliveries' = [deliveries EXCEPT ![j] = @ + 1]

\* A delivery that never reaches the worker.
DeliveryLost(j) ==
    /\ up
    /\ Deliver(j)
    /\ Fault("delivery")
    /\ UNCHANGED <<gateway, locker, worker, ingested, sealed>>

HeldByWorker(j) == worker.job = j

\* AckWait passes for a message nobody is working on any more ...
AckWaitExpires(j) ==
    /\ message[j] = "inflight"
    /\ ~HeldByWorker(j)
    /\ Redeliver(j)
    /\ UNCHANGED <<gateway, deliveries, locker, worker, ingested, sealed, faults>>

\* ... or while the worker still is.
AckWaitRaces(j) ==
    /\ message[j] = "inflight"
    /\ HeldByWorker(j)
    /\ Redeliver(j)
    /\ Fault("slow")
    /\ UNCHANGED <<gateway, deliveries, locker, worker, ingested, sealed>>

\* MaxAge: the stream drops a message after 72 hours.
Expire(j) ==
    /\ message[j] \in Pending
    /\ message' = [message EXCEPT ![j] = "expired"]
    /\ Fault("age")
    /\ UNCHANGED <<gateway, deliveries, locker, worker, ingested, sealed>>

-----------------------------------------------------------------------------
(* Worker: one goroutine, one message at a time (processMessages).          *)

Step(from, to) ==
    /\ up
    /\ worker.pc = from
    /\ worker' = [worker EXCEPT !.pc = to]

\* handleMessage returns; the loop fetches again.
Finish(from) ==
    /\ up
    /\ worker.pc = from
    /\ worker' = Resting

Fetch(j) ==
    /\ up
    /\ worker.pc = "idle"
    /\ Deliver(j)
    /\ worker' = [pc |-> "check", job |-> j, index |-> 0]
    /\ UNCHANGED <<gateway, locker, ingested, sealed, faults>>

Held == receipt[worker.job]

\* The worker's last word on its message reaches the server or is lost.
Answer(outcome) ==
    \/ Settle(worker.job, outcome) /\ UNCHANGED faults
    \/ UNCHANGED message /\ Fault("ack")

\* GetLedger fails: LedgerNotFoundError, which is permanent: Term.
NoLedger ==
    /\ Finish("check")
    /\ Held.subject \notin open
    /\ Answer("termed")
    /\ UNCHANGED <<gateway, deliveries, locker, ingested, sealed>>

\* VerifyDigest; faulty variant: it never finds anything.
AlreadySealedNever == FALSE

AlreadySealed == Held \in indexed[Held.subject]

\* The digest is in the index: already sealed, nothing to do but Ack.
Duplicate ==
    /\ Step("check", "ack")
    /\ Held.subject \in open
    /\ AlreadySealed
    /\ UNCHANGED <<gateway, queue, locker, ingested, sealed, faults>>

\* Faulty variant: the digest is entered in the index before sealing.
NotSealedYetClaimed ==
    /\ Step("check", "seal")
    /\ Held.subject \in open
    /\ ~AlreadySealed
    /\ indexed' = [indexed EXCEPT ![Held.subject] = @ \cup {Held}]
    /\ UNCHANGED <<gateway, queue, up, open, log, truncated, ingested, sealed, faults>>

NotSealedYet ==
    /\ Step("check", "seal")
    /\ Held.subject \in open
    /\ ~AlreadySealed
    /\ UNCHANGED <<gateway, queue, locker, ingested, sealed, faults>>

\* Ledger.Seal: the entry is appended ...
SealAppend ==
    /\ up
    /\ worker.pc = "seal"
    /\ log' = [log EXCEPT ![Held.subject] = Append(@, Held)]
    /\ worker' = [worker EXCEPT !.pc = "index", !.index = Len(log[Held.subject])]
    /\ UNCHANGED <<gateway, queue, up, open, indexed, truncated, ingested, sealed, faults>>

\* Faulty variant: no event follows.
SealIndexSilent ==
    /\ Step("index", "ack")
    /\ indexed' = [indexed EXCEPT ![Held.subject] = @ \cup {Held}]
    /\ UNCHANGED <<gateway, queue, up, open, log, truncated, ingested, sealed, faults>>

\* ... then its digest is entered in the index.
SealIndex ==
    /\ Step("index", "publish")
    /\ indexed' = [indexed EXCEPT ![Held.subject] = @ \cup {Held}]
    /\ UNCHANGED <<gateway, queue, up, open, log, truncated, ingested, sealed, faults>>

\* NakWithDelay; faulty variants: the message is acked, or terminated.
NakAcks(j) == Settle(j, "acked")

NakTerms(j) == Settle(j, "termed")

Nak(j) == IF message[j] = "inflight" THEN Redeliver(j) ELSE UNCHANGED message

\* Seal fails: a transient error.
SealFails ==
    /\ Finish("seal")
    /\ Nak(worker.job)
    /\ Fault("seal")
    /\ UNCHANGED <<gateway, deliveries, locker, ingested, sealed>>

\* The event; faulty variant: with the index of the log's last entry.
SealedEventLatest == [receipt |-> Held, index |-> Len(log[Held.subject]) - 1]

SealedEvent == [receipt |-> Held, index |-> worker.index]

\* evidence.sealed goes out, or fails with a warning only.
PublishSealed ==
    /\ Step("publish", "ack")
    /\ \/ /\ sealed' = sealed \cup {SealedEvent}
          /\ UNCHANGED faults
       \/ UNCHANGED sealed /\ Fault("event")
    /\ UNCHANGED <<gateway, queue, locker, ingested>>

Ack ==
    /\ Finish("ack")
    /\ Answer("acked")
    /\ UNCHANGED <<gateway, deliveries, locker, ingested, sealed>>

-----------------------------------------------------------------------------
(* The locker process.                                                      *)

\* handleSealTrust runs beside the worker and seals into the same ledger.
SealTrust(s) ==
    LET trust == [subject |-> s, body |-> TrustChange]
    IN  /\ up
        /\ s \in open
        /\ Cardinality({i \in 1 .. Len(log[s]) : log[s][i] = trust}) < MaxTrustSeals
        /\ log' = [log EXCEPT ![s] = Append(@, trust)]
        /\ indexed' = [indexed EXCEPT ![s] = @ \cup {trust}]
        /\ UNCHANGED <<gateway, queue, up, open, truncated, worker, ingested, sealed, faults>>

\* Also what a shutdown does to the worker: main does not wait for it.
Crash ==
    /\ up
    /\ up' = FALSE
    /\ open' = {}
    /\ indexed' = [s \in Subjects |-> {}]
    /\ worker' = Resting
    /\ Fault("crash")
    /\ UNCHANGED <<gateway, queue, log, truncated, ingested, sealed>>

\* OpenExistingLedgers: the ledgers in opened go into service, each with the
\* digests of the first prefix[s] entries in its index.
OpenExistingLedgers(opened, prefix) ==
    /\ ~up
    /\ up' = TRUE
    /\ open' = opened
    /\ indexed' = [s \in Subjects |->
                     IF s \in opened THEN {log[s][i] : i \in 1 .. prefix[s]} ELSE {}]
    /\ truncated' = truncated \cup {s \in opened : prefix[s] < Len(log[s])}
    /\ UNCHANGED <<gateway, queue, log, worker, ingested, sealed>>

WholeLogs == [s \in Subjects |-> Len(log[s])]

Restart == OpenExistingLedgers(Subjects, WholeLogs) /\ UNCHANGED faults

\* NewLedger fails for one subject, which is logged and skipped.
RestartWithout(s) == OpenExistingLedgers(Subjects \ {s}, WholeLogs) /\ Fault("open")

\* rebuildDigestIndex stops early in one ledger, with a warning only.
RestartShort(s, n) ==
    /\ n < Len(log[s])
    /\ OpenExistingLedgers(Subjects, [WholeLogs EXCEPT ![s] = n])
    /\ Fault("rebuild")

-----------------------------------------------------------------------------
Gateway ==
    \/ \E j \in Jobs, s \in Subjects, b \in Submissions :
          Publish(j, s, b) \/ PublishFails(j, s, b) \/ PublishAckLost(j, s, b)
    \/ \E j \in Jobs : Accept(j)
    \/ GatewayCrash

Queue == \E j \in Jobs : DeliveryLost(j) \/ AckWaitExpires(j) \/ AckWaitRaces(j) \/ Expire(j)

Worker ==
    \/ \E j \in Jobs : Fetch(j)
    \/ NoLedger \/ Duplicate \/ NotSealedYet
    \/ SealAppend \/ SealIndex \/ SealFails \/ PublishSealed
    \/ Ack

Locker ==
    \/ \E s \in Subjects : SealTrust(s) \/ RestartWithout(s)
    \/ \E s \in Subjects : \E n \in 0 .. Len(log[s]) : RestartShort(s, n)
    \/ Crash
    \/ Restart

Next == Gateway \/ Queue \/ Worker \/ Locker

Spec == Init /\ [][Next]_vars

\* The goroutines of running processes are scheduled and the server's
\* redelivery timer fires.  That somebody starts the locker again after it dies
\* is an assumption about the deployment.
Fairness ==
    /\ \A j \in Jobs : WF_vars(Accept(j)) /\ WF_vars(AckWaitExpires(j))
    /\ WF_vars(Worker)
    /\ WF_vars(Restart)

FairSpec == Spec /\ Fairness

-----------------------------------------------------------------------------
(* Properties.                                                              *)

\* Every variable has its type, and the bounds on deliveries and faults hold.
TypeOK ==
    /\ request \in [Jobs -> {"none", "publishing", "accepted", "failed"}]
    /\ receipt \in [Jobs -> Evidence \cup {NoReceipt}]
    /\ message \in [Jobs -> {"absent", "ready", "inflight", "acked", "termed",
                             "exhausted", "expired"}]
    /\ deliveries \in [Jobs -> 0 .. MaxDeliver]
    /\ up \in BOOLEAN
    /\ open \subseteq Subjects
    /\ log \in [Subjects -> Seq(Evidence \cup AdminReceipts)]
    /\ indexed \in [Subjects -> SUBSET (Evidence \cup AdminReceipts)]
    /\ worker \in [pc : {"idle", "check", "seal", "index", "publish", "ack"},
                   job : Jobs \cup {NoJob}, index : Nat]
    /\ ingested \subseteq Evidence
    /\ sealed \subseteq [receipt : Evidence, index : Nat]
    /\ faults \in 0 .. MaxFaults
    /\ truncated \subseteq Subjects

\* A message leaves the queue by an Ack only when its receipt is in the ledger
\* of its subject, whatever was redelivered, lost or restarted on the way.
AckedIsSealed ==
    \A j \in Jobs : message[j] = "acked" => IsSealed(receipt[j])

\* The worker treats a hit in the digest index as "already sealed": every
\* digest in an index belongs to an entry of that log.
IndexSound == \A s \in Subjects : indexed[s] \subseteq Entries(s)

\* Redelivery never seals a receipt twice, as long as no opening of the ledger
\* left its digest index incomplete.
SealedOnce ==
    \A s \in Subjects \ truncated : \A i, k \in 1 .. Len(log[s]) :
        (log[s][i] = log[s][k] /\ log[s][i] \in Evidence) => i = k

\* An evidence.sealed event names the index at which its receipt is sealed,
\* although trust changes are sealed between the worker's steps.
EventSound ==
    \A e \in sealed : /\ e.index \in 0 .. Len(log[e.receipt.subject]) - 1
                      /\ log[e.receipt.subject][e.index + 1] = e.receipt

\* The consumer gives up on a message only after MaxDeliver faults: no order of
\* steps uses up a delivery without one.
ExhaustionNeedsFaults == (\E j \in Jobs : message[j] = "exhausted") => faults >= MaxDeliver

\* Evidence is sealed at most once, for its subject, and only if submitted.
Promise == INSTANCE SealedEvidence
             WITH submitted <- {receipt[j] : j \in {i \in Jobs : message[i] # "absent"}},
                  ledgers <- log

ImplementsPromise == Promise!Spec

\* Accepted evidence is sealed in the end (adrs/0005: "202 means accepted,
\* JetStream guarantees delivery"), while there are fewer faults than
\* deliveries.
AcceptedIsSealed ==
    \A j \in Jobs : request[j] = "accepted" ~> IsSealed(receipt[j])

Unannounced == {receipt[j] : j \in {i \in Jobs : message[i] = "acked"}} \ {e.receipt : e \in sealed}

\* Sealed evidence that the worker acks without an evidence.sealed event has
\* cost a fault of its own: a failed publish, or a death after Seal that made
\* the redelivered message a duplicate.
SilenceNeedsFaults == Cardinality(Unannounced) <= faults
=============================================================================
