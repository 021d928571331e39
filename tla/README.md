# ComplyTime core: a TLA+ verification project

The modules here model the three services of this repository: how evidence gets
from an HTTP request into a transparency log and from there into a graph, who
may submit it, and how subjects and their trusted publishers are administered.
TLC checks them on small instances; TLAPS proves most of the safety properties
for every size.
`PROJECT.json` lists runs, findings, hazards and theorems, and maps each
definition to the source lines it stands for.

    tlc -workers 2 -config Pipeline.cfg MCIngestPipeline     # a run
    tlapm IngestPipelineProofs.tla                           # the proofs

## The system

| Part | State | Operations that change it |
|---|---|---|
| issuers, authorization (`internal/config`, `authn`, `authz`) | issuer registry of a running service | start, stop, Authenticate, the Cedar decision |
| gateway ingest (`internal/gateway/handler.go`) | requests under way | checks, wrap, publish to INGEST, announce `evidence.ingested` |
| gateway admin (`internal/gateway/admin.go`) | requests under way | RegisterSubject, ModifyTrust |
| trust store (`internal/trust/store.go`) | four key-value buckets | SetPublisherTrust (CAS), RegisterSubject, StoreJWK, ClaimJTI |
| INGEST (`internal/nats/streams.go`) | messages, deliveries | deliver, ack, nak, term, redeliver, expire |
| worker (`internal/locker/worker.go`) | the message in hand | check for a duplicate, seal, announce, ack |
| ledger (`internal/locker/ledger.go`) | key file, log, digest index | open, rebuild, Seal, Fetch, VerifyDigest, Close |
| locker (`internal/locker/locker.go`) | map of open ledgers | CreateLedger, OpenExistingLedgers, Close |
| admin subscriber (`internal/locker/admin.go`) | two subscriptions | handleRegister, handleSealTrust |
| graph loader (`internal/graph/loader.go`) | the event in hand | handleIngested, handleSealed, one query per step |
| graph (`internal/graph/writer.go`) | nodes and edges in Memgraph | MERGEs; read by the API's queries |

What is hard here: worker and loader may die between any two of their steps and
recover through redelivery alone; the log's integrated size lags behind its
sequenced size; several goroutines use one ledger; registration and trust
changes write several stores one after the other with no transaction around
them; replies get lost; trust is checked well before it is used, and outlives
the configuration it was granted under; events overtake each other; answers of
the graph are put together from several transactions.

## Modules

`Ledger` is one ledger. A goroutine's call is a record in `call`, whose `pc`
says how far it has got. Seal is two steps (the future resolves; the index is
written under `l.mu`), Fetch three (wait, size, read). `FetchReceipt` and
`VerifyReceipt` are the HTTP handlers around Fetch and VerifyDigest, `Status`
their answer. NewLedger is loading or generating the key, the rename that
persists it, one step for each entry the index rebuild reads, and entering
service, which happens even if the rebuild stopped early. `Crash` keeps the
files only. `AppendOnlyLog` is what a ledger promises: entries are only added,
and become visible in order.

`IngestPipeline` composes gateway, INGEST, worker and the ledgers of all
subjects. Sealing is append, then index, as in `Ledger`; Fetch and integration
do not occur on this path. Each kind of fault is named, counted and bounded, so
a run or a theorem can say which it allows. `SealedEvidence` is the promise:
evidence is sealed at most once, in its subject's ledger, and only if it was
submitted.

`SubjectAdmin` composes the two admin handlers, the buckets and the locker's
subscriber for one subject (subjects share nothing but the processes).

`Issuers` is the part of access that has no state: what `UnmarshalIssuers` and
`BuildIssuers` accept and build, `NewIssuerRegistry`, `Authenticate`,
`ValidateTrustEntry`, the route table and the policies of `base.cedar`, each an
operator named after its function. `Access` is a request on its way through
these: authentication, subject header, authorization, and the gateway's
handlers with their writes. Requests interleave, services stop and start with
other configurations, lookups and writes fail; a write that fails may have
reached the bucket or the stream. `Access` writes a trust list in one step,
since the compare-and-swap has no effect in between; `SubjectAdmin` has the read
and the write, and the locker's part.

`TokenReplay` is the life of a static-key token: looked up key, checked times,
claimed id, at two services whose clocks drift against that of NATS, which ages
the claims.

`EvidenceGraph` is the graph loader with the parser and the writer's MERGEs:
nodes, relationships and the properties that queries depend on. The stream
offers any event that is not acknowledged, in any order, until its deliveries
are used up. `GraphQueries` adds the read API. Threat model and evidence pages
are requests in several steps beside the loader; the other endpoints are
operators on a state.

`LedgerProofs`, `SubjectAdminProofs`, `IngestPipelineProofs`,
`EvidenceGraphProofs`, `GraphQueriesProofs`, `TokenReplayProofs` and
`AccessProofs` hold the proofs.

`MC*` modules give the constants values for TLC. A definition whose comment
says *faulty variant* is part of no specification. It is a plausible mistake
for the definition that follows; putting it in that definition's place must
make TLC find a property violated.

### Abstractions

- A receipt is its subject and a *submission*: content, publisher, type and the
  second `Wrap` stamps on it. The same content in another second is another
  submission; in the same second it is the same bytes and counts as a duplicate.
- Digests are injective on receipts.
- In `IngestPipeline` and `SubjectAdmin` requests are those that pass
  validation; `Access` has the others, which change nothing.
- Strings the code looks into are records of what it looks for: an issuer has a
  scheme, a case and perhaps a trailing slash; a sub has the form of one kind of
  issuer; an artifact has the types it names and the schemas it conforms to, and
  is JSON, canonicalisable JSON or neither. A body is too long if its text is,
  blanks at the end aside.
- A catalog is the set of ids it defines and pairs of ids for its references. As
  the loader handles sets, it takes a catalog's entries in every order.
- Tessera is external: `Add` either sequences the entry at the next index or
  fails having appended nothing; integration is a prefix that only grows.
- JetStream is external: a stored message stays until acked, terminated or
  expired; an ack after AckWait still removes it. Bucket keys admit no ":".
- Memgraph is external: a query is one atomic step; MATCH without a result
  makes the rest of the query do nothing. Times compare as numbers, whether
  they are stored with a zone or without.
- NATS delivers a subscription's messages in order, or loses them when the
  locker dies. Events are core NATS publishes that may fail silently.
- In `IngestPipeline` a trust change is sealed in one step: nothing there
  depends on its index entry.

## Runs

Passing:

| Run | Instance | Shows |
|---|---|---|
| `ledger` | 2 callers, 3 entries, bundles of 2, 2 failures | `IndexSound`, `IndexComplete`, `SealExact`, `ReadExact`, `IntegratedIsReadable`, `OneSigner`; implements `AppendOnlyLog` |
| `pipeline` | 2 subjects, 2 requests, 3 deliveries, any 3 faults | `AckedIsSealed`, `IndexSound`, `SealedOnce`, `EventSound`, `ExhaustionNeedsFaults`, `SilenceNeedsFaults` |
| `pipeline_live` | 2 subjects, 2 requests, 5 deliveries, 4 faults, none of them an expiry, a failed opening or a rebuild cut short | implements `SealedEvidence`; `AcceptedIsSealed` |
| `admin` | 2 registrations, 2 changes, every fault | `RegisteredInOrder`, `NoLostUpdate`, `SealedWasWritten`, `OneRegistration` |
| `admin_live` | 2 registrations, 1 change, every fault | `RequestsEnd` |
| `graph` | 2 subjects, 3 entries, 2 deliveries, 1 fault | `LoadedIsInGraph`, `NothingInvented`, `AttributedToSubmitter`, `EndpointsAgree`, `CoverageComplete`, `Converges` |
| `graph_read` | 2 subjects, 3 entries, 1 delivery, no fault, 1 request | `NoDanglingReference`, `ModelComplete`, `PagesComplete` |
| `access` | gateway and locker, 4 configurations, 2 starts, a registration, a change or a read, an ingest request, 1 fault | `PublishedWasTrusted`, `OnlyAdmitted`, `TrustedIsHeard`, `LabelIsChecked` |
| `replay` | 2 services, 2 requests, 6 tokens, 10 ticks | `OneUse`, `UsedIsHeld` |

Violated, each with what the code does instead:

| Run | What the repository says | What happens |
|---|---|---|
| `ledger_beyond` | 404 for a receipt that does not exist | a timeout, hence 500 |
| `graph_crossed` | a list of evidence for a subject | entries with one index in two ledgers share a node; the later overwrites the earlier, and both subjects list it |
| `graph_counts` | "Total evidence count" | the detail of a subject has the count of its first artifact type |

### Premises

Some properties have a premise where the code gives less.

- `IndexComplete` and `SealedOnce` speak of ledgers whose index rebuild was not
  cut short, because NewLedger only warns then.
- `OneRegistration` speaks of a ledger that no restart has skipped. CreateLedger
  looks only among the open ones: it adopts one that is on disk but failed to
  open, seals another registration in it and overwrites the trust list, although
  it promises an error "if a ledger for this subject already exists"
  (`locker.go:57`).
- `SealedWasWritten` bounds the sealed trust changes by the written ones and not
  the other way round, because ModifyTrust only warns when sealing fails. Two
  changes may also be sealed in the opposite order of their writes, so the
  bucket cannot always be rebuilt from the locker (`docs/architecture.md:142`).
- `AcceptedIsSealed` needs fewer faults than deliveries, none of them an expiry
  or a failed opening: nothing takes up a message whose five deliveries are used
  up, though ADR 0005 says that "JetStream guarantees delivery", and evidence of
  a registered subject whose ledger failed to open is terminated as if it were
  unregistered (`worker.go:207`).
- `SilenceNeedsFaults` counts faults because a worker that dies between Seal and
  the event leaves evidence unannounced: its redelivery is a duplicate.
- `AttributedToSubmitter` allows the placeholder. The gateway announces after it
  has published, so a sealed event can overtake the ingested one (against
  `asyncapi.yaml:32`), and nothing replaces the placeholder afterwards. It also
  allows every submitter of the digest for the subject, since a stub with
  several publishers is looked up with LIMIT 1.
- `PublishedWasTrusted` says "at some time since the request came": trust that
  is withdrawn after the check still lets the request publish.
- `LoadedIsInGraph` and `NothingInvented` are about relationships between nodes
  as the writer identifies them, `logIndex` alone for evidence. `graph_crossed`
  shows what that costs.
- `NoDanglingReference` speaks of edges that no other subject's evidence states
  as well.
- `PagesComplete` excludes evidence whose index occurs in two ledgers, when the
  request filters by type or date: the other subject's entry overwrites both in
  the node, and the evidence drops out between two pages.
- `EndpointsAgree` says nothing about the counts of a subject's detail, which
  `graph_counts` shows to be wrong.
- `TokenReplay` reads the static keys as a bucket that holds some. With the
  gateway that `main` builds none can be stored: `ValidateTrustEntry` wants an
  issuer with "://", and NATS wants a key without ":".

### Bounds

Three entries with bundles of two give a full and a partial bundle and the
boundary between them. Two failures allow a death during the recovery from a
death. In `pipeline` three faults equal three deliveries, the least that
exhausts a message; `pipeline_live` keeps the code's five deliveries. Two
requests can carry the same receipt, or receipts of two subjects. Two trust
changes are what a compare-and-swap conflict needs.

In `graph` two subjects use one index, and one content is submitted for both by
different publishers; a catalog of each kind occurs, in one run or the other.
One fault with two deliveries is the most that must still converge. A page size
of 1 in `graph_read` makes every row a page; the time ranges cut between the
entries, and the second subject's entry overwrites a node with another type and
date. Its request sees the graph between any two queries of the loader, so a
failed or repeated event would show it nothing new; failures are left to `graph`
and to the proofs. In `access` two starts let a service come back with another
configuration, among them one whose identity provider was a publisher before and
one that names an issuer twice. In `replay` one tick stands for half a minute of
skew or drift; the TTL is the least the assumption allows, so an off-by-one
would show, and ten ticks outlast it.

Symmetry is used in runs of safety properties only. Deadlock is not checked
where requests and events are finitely many: when all are served the system
rests.

### Fairness

The worker's and the loader's goroutines and the gateway's handlers run while
their process does; JetStream's redelivery timer fires. The loader gets strong
fairness for each event, because it takes up one at a time and others may keep
it busy, but the queue offers every one again. That a service is started again
after it died is an assumption about the deployment: the repository does not
provide for it (the compose file has no restart policy), and without it
`AcceptedIsSealed` and `Converges` fail after any death. Faults and clients get
no fairness. In `SubjectAdmin` only the gateway's handlers are fair: their
timeouts have to answer the request even if the locker never does.

## Proofs

Each proof module has one inductive invariant in layers, one lemma for each
action or group of actions it is preserved by, and the theorems. The only
assumptions are the named ones on the constants, which TLC evaluates in every
run of the module.

**`LedgerProofs`**, for any receipts, goroutines, failures and length of the log,
every bundle width, with and without asynchronous integration
(`LedgerAssumption`: digests of different receipts differ, bundles are not
empty): `TypeCorrect`, `HitsAreSealed` (`IndexSound`), `NothingMissed`
(`IndexComplete`), `SealedWhereItSays` (`SealExact`), `FetchedIsAskedFor`
(`ReadExact`), `NeverOutOfRange` (`IntegratedIsReadable`), `SignedByKeyOnDisk`
(`OneSigner`) and `LedgerIsWORM` (`ImplementsWORM`). The invariant adds three
things.

1. `Right` says for each step of a call what it may rely on: a fetch past
   waitForIntegration is below the tree size, one about to read is below the
   size it remembers, which is not above the tree's. The log and the tree only
   grow (`RightGrows`), so this holds until the call returns. `BundleHolds` is
   the arithmetic: an index below the size is in the bundle that partial tile
   size picks, at index modulo width, whether the bundle is full or partial.
2. `Covers`: a rebuild has indexed what it has read. With `gap` this gives
   `IndexComplete` when the ledger enters service.
3. `KeyInv`: a key not yet on disk has signed nothing, so losing it is harmless.

**`SubjectAdminProofs`**, for any number of registrations and modifications and
any set of faults (`AdminAssumption`): `RegistrationOrder` (`RegisteredInOrder`),
`NoUpdateIsLost` (`NoLostUpdate`) and `RegisteredOnce` (`OneRegistration`). `Done` says what has been written for a
request at each step of its handler and of the locker's answer; that the answer
"ok" stands for a sealed registration is what orders the buckets after the
ledger. `Past` says that whoever wrote did so below the current revision, so the
next write is at a new one. `Once` says that a registration is being sealed only
in an open ledger that has none, and by one request; it needs the ledger to be
open again after every restart, and holds until one skips it.

**`IngestPipelineProofs`**, for any sets of subjects, jobs and submissions, any
MaxDeliver and any number of faults (`PipelineAssumption`): `TypeCorrect`,
`NothingAckedAway` (`AckedIsSealed`), `DuplicatesAreSealed` (`IndexSound`),
`EventsPointAtEntries` (`EventSound`), `NothingSealedTwice` (`SealedOnce`),
`GivingUpNeedsFaults` (`ExhaustionNeedsFaults`), and `PipelineImplementsPromise`:
if no rebuild is cut short the pipeline implements `SealedEvidence`. The
invariant has four layers.

1. `TypeInv` adds to the types that a worker with a job runs in a live locker
   and holds a published receipt.
2. `SafeInv` adds `WorkSealed`: after Seal the receipt in hand is at the index
   the worker remembers, and before Ack it is sealed. Without it an ack or an
   event could not be justified from the state alone. The rest of the layer
   rests on logs only growing (`LogGrows`).
3. `OnceInv` adds that the index covers the log except for the receipt between
   append and index (`IndexCovers`), and that a receipt about to be sealed is
   not in the log (`SealIsNew`). Only one worker seals evidence, so nothing
   comes between its check and its append.
4. `Budget` charges every delivery but the one in hand to a fault.

**`EvidenceGraphProofs`**, for any entries and artifacts, any MaxDeliver and any
number of faults (`EntryAssumption`): `TypeCorrect`, `AckedIsInGraph`
(`LoadedIsInGraph`), `GraphIsJustified` (`NothingInvented`), `CreditIsDue`
(`AttributedToSubmitter`). The graph only grows, so what was loaded stays. The
invariant adds what the loader has put into the graph at each step of the event
in hand (`Progress`): subject and publisher before the MATCH that needs them,
both ends before the edge, everything that is no longer in its list of work.
Without it no upsert's MATCH could be shown to find what it looks for.
AttributedToSubmitter needs in addition that the publisher in hand was found by
that digest and subject (`Submitter`), which holds since stubs stem from
delivered events (`Justified`).

**`GraphQueriesProofs`**, for any entries, page sizes and ranges, and any
interleaving of requests and loader (`QueryAssumption`: indexes are naturals,
limits are integers, and `TypeOrder` has every artifact type, in the order of
their names, which TLA+'s strings do not have): `ModelIsComplete`
(`ModelComplete`), `NoReferenceDangles` (`NoDanglingReference`), `PagesShowAll`
(`PagesComplete`), `CoverageIsComplete` (`CoverageComplete`), `AnswersAgree`
(`EndpointsAgree`). To the loader's invariant they add two parts.

1. `GraphInv`, which the loader keeps: the graph is finite, so that counting and
   the latest date mean something; an edge is there only after evidence that
   states it and defines both its ends; evidence is described by an entry with
   its index; a loaded catalog's controls have a catalog.
2. `ModelInv` and `PagesInv`, which the requests keep: what each query has left
   in the answer, and what the pages so far have shown. The loader does not
   disturb them since the graph only grows, and since type and date of a node
   change only when another ledger has its index. That edges come after their
   ends in the graph, and before them in the queries, is the argument for
   `NoReferenceDangles`.

**`TokenReplayProofs`**, for any tokens, services and requests and any times
with MaxLifetime + 2 * Skew + Drift + Delay <= TTL (`BufferAssumption`):
`TypeCorrect`, `TokenUsedOnce` (`OneUse`), `ClaimOutlastsToken` (`UsedIsHeld`).
The invariant adds, for every accepted request, when it claimed its id, that
the token was in time when it was checked at most Delay before, and that the
claim of that time is in the bucket until TTL has passed (`Claimed`). OneUse
follows since a second request would have to find the token in time after that.
With the code's values, 10 min, twice 30 s and 15 min, drift and delay may be up
to 4 min together.

**`AccessProofs`**, for any services, calls, issuer configurations and subjects
(`AccessAssumption`: calls are made to services there are, and no schema is
named like a label for what is not checked): `OnlyTrustedPublish`
(`PublishedWasTrusted`), `LabelsAreChecked` (`LabelIsChecked`), `TrustIsAdmitted`
(`OnlyAdmitted`), `NoScannerKey` (no key is ever stored). The invariant has four
parts.

1. `Sound` says what a request has behind it at each step: its principal is what
   the configuration it came to makes of its token, a request in IngestArtifact
   belongs to a publisher who was trusted, one in the admin handlers to an
   administrator, and one about to write has valid entries.
2. `Live`: an open request's service still runs with that configuration, and
   whoever the subject trusts now is among those it was seen to trust, until the
   authorization has looked. This is where a restart or a concurrent
   SetPublisherTrust could come in between.
3. `Sending` and `Admitted` are the properties, for each message and each entry.
   They stay true because requests keep their call and configuration and only
   add to who was trusted (`AllGrew`).
4. `Shape` has `jwks = {}`: a validated issuer has a scheme and is therefore no
   key of the bucket, so StoreJWK never stores one. Every publisher's token is
   thus one of a configured issuer.

Only model-checked: liveness (`AcceptedIsSealed`, `RequestsEnd`, `Converges`),
which needs fairness and ENABLED and is beyond the prover; `SilenceNeedsFaults`
and `SealedWasWritten`, which count elements of sets; `TrustedIsHeard`, which
depends on the routes of the calls that arrive.

## Differences between the code and what is said of it

Beside the three runs above, modelling met these; the models do what the code
does.

- The `count` of an artifact type ("Number of artifacts of this
  type", `api/graph/openapi.yaml:291`) counts evidence with two publishers, the placeholder
  and a later found one, twice, and the listing shows it twice. A subject's
  `publisherCount` is, like its `evidenceCount`, that of its first type.
- A scanner's key cannot be registered. `RegisterSubject` holds every trusted
  publisher against the configured issuers, scanners included (`admin.go:81`),
  and refuses others with the advice to "use scannerJwk for static JWK issuers"
  (`internal/authn/registry.go:101`); `api/gateway/openapi.yaml:167` has
  "Optional static JWK for scanner issuers without OIDC". A configured issuer
  gets further, but its URL is no key of the bucket: 500, after the ledger, the
  trust list and the registry were written (`NoScannerKey`).
- `Coverage` counts a control once for each evidence that defines it.
- The threat model asks for LEVERAGES edges from threats to capabilities, but
  the parser writes them to vectors; APPLIES and EVALUATES edges are asked for
  and never written, so coverage is always 0.
- Configured groups with upper-case letters never match, as a token's groups
  are turned to lower case first and the configured ones are not.
- A token id is claimed for all issuers together: two scanners that choose the
  same `jti` within 15 minutes collide.
- A request body over 256 KiB is cut off and not refused as too long. JSON then
  fails to parse, 400. A DSSE envelope is not parsed, but Wrap canonicalises it
  as JSON and fails, so the client's mistake is answered with 500; so is an
  envelope that is no JSON, and JSON with a key twice, which the parser accepts.
- The graph handles `subject.registered`, which its consumer's filter never
  delivers.
- No route serves a full tile: the tile server's only pattern has a width as its
  third segment, while full tiles of the tlog-tiles layout have none.

## Not modelled

- Signature checks and the refresh of key sets, JSON schemas, Cypher's
  evaluation and YAML decoding are libraries' work; their verdicts are inputs.
- Policies in `CEDAR_POLICY_DIR`: the operator's, added to `base.cedar`.
- Merging of configuration file, environment and flags: happens once, before
  anything else.
- The tile server, ListLedgers and GetLedger, and the clients in `drivers`:
  they render or fetch what is there and change nothing.
- MaxAge of EVIDENCE: after seven days an event the loader never got to is gone.
- Generated servers, message types, the NATS connection helper, the test
  identity provider.

## Plan

1. `IngestPipeline` and `EvidenceGraph` composed through EVIDENCE, with an
   abstract specification of what the graph tells about the ledgers.
