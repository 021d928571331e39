--------------------------- MODULE EvidenceGraph ---------------------------
(***************************************************************************)
(* The graph loader (internal/graph/loader.go): it takes CloudEvents from  *)
(* the EVIDENCE stream, one at a time, and merges what they say into       *)
(* Memgraph with one query per upsert (internal/graph/writer.go), after    *)
(* parsing the sealed artifact (internal/graph/parser.go).  Events come in *)
(* any order and again after a failure, a lost acknowledgement or a death, *)
(* each at most MaxDeliver times.                                          *)
(***************************************************************************)
EXTENDS Naturals, FiniteSets

CONSTANTS
    Entries,        \* sealed evidence: what the ledgers of all subjects hold
    Placeholder,    \* the publisher {locker-service, locker}
    MaxDeliver,     \* deliveries of one event, GraphLoaderConsumerConfig
    MaxFaults       \* bound on failed handlings, over all events

(***************************************************************************)
(* An entry is [subject, index, digest, publisher, sealed, artifact].  An  *)
(* artifact is [type, id, items, threats, capabilities, vectors]: the ids  *)
(* of what it defines and, for each of the three kinds of reference, pairs *)
(* of a defined id and a ReferenceId.  Lists are sets here, so a catalog   *)
(* stands for itself in every order.                                       *)
(***************************************************************************)
ASSUME EntryAssumption ==
    /\ \A e, f \in Entries :
          e.subject = f.subject /\ e.index = f.index => e = f
    /\ \A e \in Entries : e.publisher # Placeholder
    /\ MaxDeliver \in Nat \ {0}
    /\ MaxFaults \in Nat

Messages == {"ingested", "sealed"} \X Entries

VARIABLES
    deliveries,   \* EVIDENCE: how often each event was delivered
    acked,        \* EVIDENCE: events acknowledged
    current,      \* loader: the event in hand and how far it has come
    loaded,       \* history: events handled to the end at least once
    faults,       \* how many handlings failed
    nodes,        \* Memgraph: nodes, as <<label, key>>
    rels,         \* Memgraph: relationships, as <<from, type, to>>
    evidence,     \* Memgraph: properties of Evidence nodes, by logIndex
    catalogID     \* Memgraph: property of Control nodes, by id

stream == <<deliveries, acked, faults>>
graph  == <<nodes, rels, evidence, catalogID>>
vars   == <<stream, current, loaded, graph>>

Subject(s)         == <<"Subject", s>>
Publisher(p)       == <<"Publisher", p>>
EvidenceNode(i)    == <<"Evidence", i>>
IngestedStub(d, s) == <<"IngestedStub", <<d, s>>>>
Entity(label, id)  == <<label, id>>

-----------------------------------------------------------------------------
(* parser.go                                                               *)

\* inferArtifactType: what a DSSE envelope or a document without
\* metadata.type is called.
inferArtifactType(a) == IF a.type = "" THEN "unknown" ELSE a.type

LabelOf == [ControlCatalog |-> "Control", ThreatCatalog |-> "Threat",
            CapabilityCatalog |-> "Capability"]

ParsedTypes == DOMAIN LabelOf

\* ParseArtifact: the entities an artifact defines.
ParsedEntities(a) ==
    IF a.type \in ParsedTypes
    THEN {Entity(LabelOf[a.type], id) : id \in a.items}
    ELSE {}

\* References with an empty ReferenceId are left out.
Named(refs) == {r \in refs : r[2] # ""}

ControlEdges(a) ==
    {<<Entity("Control", r[1]), "ADDRESSES", Entity("Threat", r[2])>> :
        r \in Named(a.threats)}

ThreatEdges(a) ==
    {<<Entity("Capability", r[2]), "INTRODUCES", Entity("Threat", r[1])>> :
        r \in Named(a.capabilities)}
    \cup
    {<<Entity("Threat", r[1]), "LEVERAGES", Entity("Vector", r[2])>> :
        r \in Named(a.vectors)}

\* ParseArtifact: the edges between them and what they refer to.
ParsedEdges(a) ==
    CASE a.type = "ControlCatalog" -> ControlEdges(a)
      [] a.type = "ThreatCatalog"  -> ThreatEdges(a)
      [] OTHER                     -> {}

-----------------------------------------------------------------------------
(* writer.go: MERGE adds what is missing; a query whose MATCH finds nothing *)
(* succeeds and changes nothing.                                           *)

Put(f, key, value) == [k \in DOMAIN f \cup {key} |-> IF k = key THEN value ELSE f[k]]

UpsertSubject(s) ==
    /\ nodes' = nodes \cup {Subject(s)}
    /\ UNCHANGED <<rels, evidence, catalogID>>

UpsertPublisher(p) ==
    /\ nodes' = nodes \cup {Publisher(p)}
    /\ UNCHANGED <<rels, evidence, catalogID>>

UpsertIngestedStub(digest, s, p) ==
    LET stub == IngestedStub(digest, s)
        found == {Subject(s), Publisher(p)} \subseteq nodes
    IN  /\ nodes' = IF found THEN nodes \cup {stub} ELSE nodes
        /\ rels' = IF found
                   THEN rels \cup {<<stub, "TARGETS", Subject(s)>>,
                                   <<stub, "PUBLISHED_BY", Publisher(p)>>}
                   ELSE rels
        /\ UNCHANGED <<evidence, catalogID>>

\* FindPublisherByDigest: LIMIT 1 takes any of them.
FindPublisherByDigest(digest, s) ==
    {r[3][2] : r \in {q \in rels : q[1] = IngestedStub(digest, s) /\ q[2] = "PUBLISHED_BY"}}

\* Faulty variant: the subject is matched without its id.
UpsertEvidenceEverySubject(e, p) ==
    /\ nodes' = nodes \cup {EvidenceNode(e.index)}
    /\ rels' = rels \cup {<<EvidenceNode(e.index), "TARGETS", n>> :
                              n \in {m \in nodes : m[1] = "Subject"}}
                    \cup {<<EvidenceNode(e.index), "PUBLISHED_BY", Publisher(p)>>}
    /\ evidence' = Put(evidence, e.index,
                       [digest |-> e.digest, sealed |-> e.sealed,
                        artifactType |-> inferArtifactType(e.artifact)])
    /\ UNCHANGED catalogID

\* An Evidence node is identified by logIndex alone.
UpsertEvidence(e, p) ==
    LET node == EvidenceNode(e.index)
        found == {Subject(e.subject), Publisher(p)} \subseteq nodes
    IN  /\ nodes' = IF found THEN nodes \cup {node} ELSE nodes
        /\ rels' = IF found
                   THEN rels \cup {<<node, "TARGETS", Subject(e.subject)>>,
                                   <<node, "PUBLISHED_BY", Publisher(p)>>}
                   ELSE rels
        /\ evidence' = IF found
                       THEN Put(evidence, e.index,
                                [digest |-> e.digest, sealed |-> e.sealed,
                                 artifactType |-> inferArtifactType(e.artifact)])
                       ELSE evidence
        /\ UNCHANGED catalogID

\* The node is merged in any case, DEFINES only when the evidence is there.
UpsertEntity(n, index) ==
    /\ nodes' = nodes \cup {n}
    /\ rels' = IF EvidenceNode(index) \in nodes
               THEN rels \cup {<<EvidenceNode(index), "DEFINES", n>>}
               ELSE rels
    /\ UNCHANGED evidence

UpsertEdge(edge) ==
    /\ rels' = IF {edge[1], edge[3]} \subseteq nodes THEN rels \cup {edge} ELSE rels
    /\ UNCHANGED <<nodes, evidence, catalogID>>

-----------------------------------------------------------------------------
(* loader.go                                                               *)

NoEdge == <<>>

Idle == [pc |-> "idle"]

Init ==
    /\ deliveries = [m \in Messages |-> 0]
    /\ acked = {}
    /\ current = Idle
    /\ loaded = {}
    /\ faults = 0
    /\ nodes = {}
    /\ rels = {}
    /\ evidence = <<>>
    /\ catalogID = <<>>

GoTo(pc) == current' = [current EXCEPT !.pc = pc]

Entry == current.msg[2]

At(kind, pc) == current.pc = pc /\ current.msg[1] = kind

\* Faulty variant: an acknowledged event comes again, without limit.
HandleMessageAgain(m) ==
    /\ current = Idle
    /\ deliveries' = [deliveries EXCEPT ![m] = @ + 1]
    /\ current' = [pc |-> "subject", msg |-> m, publisher |-> m[2].publisher,
                   entities |-> ParsedEntities(m[2].artifact),
                   edges |-> ParsedEdges(m[2].artifact), edge |-> NoEdge]
    /\ UNCHANGED <<acked, faults, loaded, graph>>

\* Faulty variant: the last delivery is never made.
HandleMessageOneLess(m) ==
    /\ current = Idle
    /\ m \notin acked
    /\ deliveries[m] + 1 < MaxDeliver
    /\ deliveries' = [deliveries EXCEPT ![m] = @ + 1]
    /\ current' = [pc |-> "subject", msg |-> m, publisher |-> m[2].publisher,
                   entities |-> ParsedEntities(m[2].artifact),
                   edges |-> ParsedEdges(m[2].artifact), edge |-> NoEdge]
    /\ UNCHANGED <<acked, faults, loaded, graph>>

\* consume, handleMessage: an event that is not acknowledged is delivered
\* until its deliveries are used up.
HandleMessage(m) ==
    /\ current = Idle
    /\ m \notin acked
    /\ deliveries[m] < MaxDeliver
    /\ deliveries' = [deliveries EXCEPT ![m] = @ + 1]
    /\ current' = [pc |-> "subject", msg |-> m, publisher |-> m[2].publisher,
                   entities |-> ParsedEntities(m[2].artifact),
                   edges |-> ParsedEdges(m[2].artifact), edge |-> NoEdge]
    /\ UNCHANGED <<acked, faults, loaded, graph>>

\* handleIngested: subject, publisher, stub.
IngestedSubject ==
    /\ At("ingested", "subject")
    /\ UpsertSubject(Entry.subject)
    /\ GoTo("publisher")
    /\ UNCHANGED <<stream, loaded>>

IngestedPublisher ==
    /\ At("ingested", "publisher")
    /\ UpsertPublisher(Entry.publisher)
    /\ GoTo("stub")
    /\ UNCHANGED <<stream, loaded>>

IngestedStubStep ==
    /\ At("ingested", "stub")
    /\ UpsertIngestedStub(Entry.digest, Entry.subject, Entry.publisher)
    /\ GoTo("ack")
    /\ loaded' = loaded \cup {current.msg}
    /\ UNCHANGED stream

\* handleSealed: the receipt is fetched and unwrapped before the first write;
\* when that fails the event is handled by Fail.
SealedSubject ==
    /\ At("sealed", "subject")
    /\ UpsertSubject(Entry.subject)
    /\ GoTo("find")
    /\ UNCHANGED <<stream, loaded>>

\* Faulty variant: the stub of any subject with that digest will do.
FindPublisherAnywhere ==
    /\ At("sealed", "find")
    /\ \E p \in UNION {FindPublisherByDigest(Entry.digest, e.subject) : e \in Entries} :
          current' = [current EXCEPT !.pc = "publisher", !.publisher = p]
    /\ UNCHANGED <<stream, loaded, graph>>

\* The sealed event does not say who published.  A failed lookup, like one
\* that finds nothing, leaves the placeholder.
FindPublisher ==
    /\ At("sealed", "find")
    /\ \E p \in FindPublisherByDigest(Entry.digest, Entry.subject) \cup {Placeholder} :
          /\ p = Placeholder /\ FindPublisherByDigest(Entry.digest, Entry.subject) # {}
                => faults < MaxFaults
          /\ faults' = IF p = Placeholder
                          /\ FindPublisherByDigest(Entry.digest, Entry.subject) # {}
                       THEN faults + 1
                       ELSE faults
          /\ current' = [current EXCEPT !.pc = "publisher", !.publisher = p]
    /\ UNCHANGED <<deliveries, acked, loaded, graph>>

SealedPublisher ==
    /\ At("sealed", "publisher")
    /\ UpsertPublisher(current.publisher)
    /\ GoTo("evidence")
    /\ UNCHANGED <<stream, loaded>>

SealedEvidenceStep ==
    /\ At("sealed", "evidence")
    /\ UpsertEvidence(Entry, current.publisher)
    /\ GoTo("artifact")
    /\ UNCHANGED <<stream, loaded>>

\* Faulty variant: the catalog's id is not among the properties.
ArtifactEntityBare(n) ==
    /\ At("sealed", "artifact")
    /\ n \in current.entities
    /\ UpsertEntity(n, Entry.index)
    /\ current' = [current EXCEPT !.entities = @ \ {n}]
    /\ UNCHANGED <<stream, loaded, catalogID>>

\* processArtifact: first every entity, a control with its catalogID ...
ArtifactEntity(n) ==
    /\ At("sealed", "artifact")
    /\ n \in current.entities
    /\ UpsertEntity(n, Entry.index)
    /\ catalogID' = IF n[1] = "Control"
                    THEN Put(catalogID, n[2], Entry.artifact.id)
                    ELSE catalogID
    /\ current' = [current EXCEPT !.entities = @ \ {n}]
    /\ UNCHANGED <<stream, loaded>>

\* Faulty variant: the edge is written with its first end only.
ArtifactStubFromOnly(edge) ==
    /\ At("sealed", "artifact")
    /\ current.entities = {}
    /\ edge \in current.edges
    /\ UpsertEntity(edge[1], Entry.index)
    /\ UNCHANGED catalogID
    /\ current' = [current EXCEPT !.pc = "edge", !.edge = edge]
    /\ UNCHANGED <<stream, loaded>>

\* ... then, edge by edge, a stub for either end and the edge itself.
ArtifactStubFrom(edge) ==
    /\ At("sealed", "artifact")
    /\ current.entities = {}
    /\ edge \in current.edges
    /\ UpsertEntity(edge[1], Entry.index)
    /\ UNCHANGED catalogID
    /\ current' = [current EXCEPT !.pc = "to", !.edge = edge]
    /\ UNCHANGED <<stream, loaded>>

ArtifactStubTo ==
    /\ At("sealed", "to")
    /\ UpsertEntity(current.edge[3], Entry.index)
    /\ UNCHANGED catalogID
    /\ GoTo("edge")
    /\ UNCHANGED <<stream, loaded>>

ArtifactEdge ==
    /\ At("sealed", "edge")
    /\ UpsertEdge(current.edge)
    /\ current' = [current EXCEPT !.pc = "artifact", !.edges = @ \ {current.edge}]
    /\ UNCHANGED <<stream, loaded>>

ArtifactProcessed ==
    /\ At("sealed", "artifact")
    /\ current.entities = {}
    /\ current.edges = {}
    /\ GoTo("ack")
    /\ loaded' = loaded \cup {current.msg}
    /\ UNCHANGED <<stream, graph>>

Ack ==
    /\ current.pc = "ack"
    /\ acked' = acked \cup {current.msg}
    /\ current' = Idle
    /\ UNCHANGED <<deliveries, faults, loaded, graph>>

\* A query or the locker's answer fails, the process dies, or the
\* acknowledgement is lost or late.  Every error is wrapped before
\* isPermanentError sees it, so none is permanent: the event comes again.
Fail ==
    /\ current # Idle
    /\ faults < MaxFaults
    /\ faults' = faults + 1
    /\ current' = Idle
    /\ UNCHANGED <<deliveries, acked, loaded, graph>>

HandleIngested == IngestedSubject \/ IngestedPublisher \/ IngestedStubStep

HandleSealed ==
    \/ SealedSubject \/ FindPublisher \/ SealedPublisher \/ SealedEvidenceStep
    \/ \E n \in ParsedEntities(Entry.artifact) : ArtifactEntity(n)
    \/ \E edge \in ParsedEdges(Entry.artifact) : ArtifactStubFrom(edge)
    \/ ArtifactStubTo \/ ArtifactEdge \/ ArtifactProcessed

Handle == current # Idle /\ (HandleIngested \/ HandleSealed \/ Ack)

Consume == \E m \in Messages : HandleMessage(m)

Next == Consume \/ Handle \/ Fail

Spec == Init /\ [][Next]_vars

\* The loader's goroutine runs on; the stream delivers what is not acknowledged.
FairSpec ==
    /\ Spec
    /\ WF_vars(Handle)
    /\ \A m \in Messages : SF_vars(HandleMessage(m))

-----------------------------------------------------------------------------
Nodes(label) == {n \in nodes : n[1] = label}

Pcs == {"subject", "publisher", "stub", "find", "evidence", "artifact", "to", "edge", "ack"}

\* Events are counted up to MaxDeliver, the event in hand is at a step of its
\* handler, relationships join nodes that exist, and Evidence nodes are those
\* with properties.
TypeOK ==
    /\ deliveries \in [Messages -> 0 .. MaxDeliver]
    /\ acked \subseteq loaded
    /\ loaded \subseteq Messages
    /\ faults \in 0 .. MaxFaults
    /\ \/ current = Idle
       \/ /\ current.pc \in Pcs
          /\ current.msg \in Messages
          /\ deliveries[current.msg] > 0
    /\ \A r \in rels : r[1] \in nodes /\ r[3] \in nodes
    /\ Nodes("Evidence") = {EvidenceNode(i) : i \in DOMAIN evidence}

\* What handling an ingested event must leave in the graph.
IngestedEffect(e) ==
    {<<IngestedStub(e.digest, e.subject), "TARGETS", Subject(e.subject)>>,
     <<IngestedStub(e.digest, e.subject), "PUBLISHED_BY", Publisher(e.publisher)>>}

\* What handling a sealed event must leave, its publisher aside.
SealedEffect(e) ==
    LET ends == {edge[1] : edge \in ParsedEdges(e.artifact)}
                \cup {edge[3] : edge \in ParsedEdges(e.artifact)}
    IN  {<<EvidenceNode(e.index), "TARGETS", Subject(e.subject)>>}
        \cup {<<EvidenceNode(e.index), "DEFINES", n>> :
                 n \in ParsedEntities(e.artifact) \cup ends}
        \cup ParsedEdges(e.artifact)

Effect(m) == IF m[1] = "ingested" THEN IngestedEffect(m[2]) ELSE SealedEffect(m[2])

\* handleMessage acknowledges an event only when every relationship it states is
\* in the graph, whatever came before it, and nothing that comes later takes one
\* away: no upsert's MATCH has silently found nothing.  The properties of an
\* Evidence node do not stay: UpsertEvidence overwrites them for another
\* subject's entry with the same index.
LoadedIsInGraph ==
    \A m \in loaded :
        /\ Effect(m) \subseteq rels
        /\ m[1] = "sealed" =>
              \E p \in {Placeholder} \cup {e.publisher : e \in Entries} :
                  <<EvidenceNode(m[2].index), "PUBLISHED_BY", Publisher(p)>> \in rels

Delivered(kind) == {e \in Entries : deliveries[<<kind, e>>] > 0}

\* Redelivery, partial handling and stubs add nothing of their own: every
\* relationship stems from an event that was delivered.
NothingInvented ==
    \A r \in rels :
        \/ \E e \in Delivered("ingested") : r \in IngestedEffect(e)
        \/ \E e \in Delivered("sealed") :
              \/ r \in SealedEffect(e)
              \/ r[1] = EvidenceNode(e.index) /\ r[2] = "PUBLISHED_BY"

\* handleSealed credits evidence to the placeholder or to someone who submitted
\* that very content for that very subject, never to a publisher of the same
\* content for another subject.
AttributedToSubmitter ==
    \A r \in rels :
        r[1][1] = "Evidence" /\ r[2] = "PUBLISHED_BY" /\ r[3] # Publisher(Placeholder) =>
            \E e, f \in Entries :
                /\ r[1] = EvidenceNode(e.index)
                /\ f.digest = e.digest /\ f.subject = e.subject
                /\ r[3] = Publisher(f.publisher)
                /\ f \in Delivered("ingested")

\* Every event is handled to the end and acknowledged in the long run, as long
\* as fewer handlings fail than one event has deliveries.
Converges == MaxFaults < MaxDeliver => <>[](acked = Messages)
=============================================================================
