------------------------ MODULE EvidenceGraphProofs ------------------------
(***************************************************************************)
(* What the loader leaves in Memgraph, for any set of entries and any      *)
(* number of redeliveries and failures.  The strengthening, Progress, says *)
(* how much of the event in hand is in the graph at each step of its       *)
(* handler: the MATCH of every later upsert rests on an earlier one.       *)
(***************************************************************************)
EXTENDS EvidenceGraph, TLAPS

\* A leaf that names no prover is tried with SMT, then with Zenon.
USE SMTT(30), ZenonT(30)

Publishers == {Placeholder} \cup {e.publisher : e \in Entries}
Entities   == UNION {ParsedEntities(e.artifact) : e \in Entries}
Edges      == UNION {ParsedEdges(e.artifact) : e \in Entries}

Handling == [pc : Pcs, msg : Messages, publisher : Publishers, entities : SUBSET Entities,
             edges : SUBSET Edges, edge : Edges \cup {NoEdge}]

Defines(e, n)     == <<EvidenceNode(e.index), "DEFINES", n>>
Targets(e)        == <<EvidenceNode(e.index), "TARGETS", Subject(e.subject)>>
PublishedBy(e, p) == <<EvidenceNode(e.index), "PUBLISHED_BY", Publisher(p)>>

\* p is the placeholder or has submitted e's content for e's subject.
Submitter(p, e) ==
    \/ p = Placeholder
    \/ \E f \in Delivered("ingested") :
          f.digest = e.digest /\ f.subject = e.subject /\ f.publisher = p

IngestedProgress(e) ==
    /\ current.pc \in {"publisher", "stub"} => Subject(e.subject) \in nodes
    /\ current.pc = "stub" => Publisher(e.publisher) \in nodes

SealedProgress(e) ==
    /\ current.pc \in {"find", "publisher", "evidence"} => Subject(e.subject) \in nodes
    /\ current.pc \in {"publisher", "evidence"} => Submitter(current.publisher, e)
    /\ current.pc = "evidence" => Publisher(current.publisher) \in nodes
    /\ current.pc \in {"subject", "find", "publisher", "evidence"} =>
          /\ current.entities = ParsedEntities(e.artifact)
          /\ current.edges = ParsedEdges(e.artifact)

ArtifactProgress(e) ==
    /\ EvidenceNode(e.index) \in nodes
    /\ Targets(e) \in rels
    /\ \E p \in Publishers : PublishedBy(e, p) \in rels
    /\ \A n \in ParsedEntities(e.artifact) \ current.entities : Defines(e, n) \in rels
    /\ \A edge \in ParsedEdges(e.artifact) \ current.edges :
          {edge, Defines(e, edge[1]), Defines(e, edge[3])} \subseteq rels

EdgeProgress(e) ==
    /\ current.edge \in ParsedEdges(e.artifact)
    /\ current.edge[1] \in nodes /\ Defines(e, current.edge[1]) \in rels
    /\ current.pc = "edge" => current.edge[3] \in nodes /\ Defines(e, current.edge[3]) \in rels

Progress ==
    current # Idle =>
        /\ current \in Handling
        /\ deliveries[current.msg] > 0
        /\ current.entities \subseteq ParsedEntities(Entry.artifact)
        /\ current.edges \subseteq ParsedEdges(Entry.artifact)
        /\ current.pc = "ack" => current.msg \in loaded
        /\ current.msg[1] = "ingested" => IngestedProgress(Entry)
        /\ current.msg[1] = "sealed" =>
              /\ SealedProgress(Entry)
              /\ current.pc \in {"artifact", "to", "edge"} => ArtifactProgress(Entry)
              /\ current.pc \in {"to", "edge"} => EdgeProgress(Entry)

\* NothingInvented and AttributedToSubmitter, for one relationship.
Justified(r) ==
    \/ \E e \in Delivered("ingested") : r \in IngestedEffect(e)
    \/ \E e \in Delivered("sealed") :
          \/ r \in SealedEffect(e)
          \/ r[1] = EvidenceNode(e.index) /\ r[2] = "PUBLISHED_BY"

Credited(r) ==
    r[1][1] = "Evidence" /\ r[2] = "PUBLISHED_BY" /\ r[3] # Publisher(Placeholder) =>
        \E e, f \in Entries :
            /\ r[1] = EvidenceNode(e.index)
            /\ f.digest = e.digest /\ f.subject = e.subject
            /\ r[3] = Publisher(f.publisher)
            /\ f \in Delivered("ingested")

\* LoadedIsInGraph, for one event.
InGraph(m) ==
    /\ Effect(m) \subseteq rels
    /\ m[1] = "sealed" => \E p \in Publishers : PublishedBy(m[2], p) \in rels

Stream ==
    /\ deliveries \in [Messages -> 0 .. MaxDeliver]
    /\ acked \subseteq loaded
    /\ loaded \subseteq Messages
    /\ faults \in 0 .. MaxFaults

Facts ==
    /\ \A m \in loaded : InGraph(m)
    /\ \A r \in rels : Justified(r) /\ Credited(r)

GraphOK ==
    /\ \A r \in rels : r[1] \in nodes /\ r[3] \in nodes
    /\ Nodes("Evidence") = {EvidenceNode(i) : i \in DOMAIN evidence}

IInv == Stream /\ Progress /\ Facts /\ GraphOK

-----------------------------------------------------------------------------
(* Facts about the operators                                               *)

LEMMA FactsMean ==
    IInv => TypeOK /\ LoadedIsInGraph /\ NothingInvented /\ AttributedToSubmitter
  <1> SUFFICES ASSUME IInv
               PROVE  TypeOK /\ LoadedIsInGraph /\ NothingInvented /\ AttributedToSubmitter
      OBVIOUS
  <1>1. TypeOK
    <2>1. current = Idle \/ (current.pc \in Pcs /\ current.msg \in Messages /\ deliveries[current.msg] > 0)
        BY DEF IInv, Progress, Handling
    <2> QED
        BY <2>1 DEF IInv, Stream, GraphOK, TypeOK
  <1>2. LoadedIsInGraph
      BY DEF IInv, Facts, InGraph, LoadedIsInGraph, Publishers, PublishedBy
  <1>3. NothingInvented
      BY DEF IInv, Facts, Justified, NothingInvented
  <1>4. AttributedToSubmitter
      BY DEF IInv, Facts, Credited, AttributedToSubmitter
  <1> QED
      BY <1>1, <1>2, <1>3, <1>4

Labels == {"Control", "Threat", "Capability", "Vector"}

\* The parser makes no nodes or edges of the loader's own kinds.
LEMMA EntityLabels ==
    ASSUME NEW a, NEW n \in ParsedEntities(a)
    PROVE  n[1] \in Labels
  BY DEF ParsedEntities, Entity, LabelOf, ParsedTypes, Labels

LEMMA EdgeLabels ==
    ASSUME NEW a, NEW edge \in ParsedEdges(a)
    PROVE  /\ edge[1][1] \in Labels /\ edge[3][1] \in Labels
           /\ edge[2] \in {"ADDRESSES", "INTRODUCES", "LEVERAGES"}
  <1>1. edge \in ControlEdges(a) \/ edge \in ThreatEdges(a)
      BY DEF ParsedEdges
  <1>2. CASE edge \in ControlEdges(a)
      BY <1>2 DEF ControlEdges, Entity, Labels
  <1>3. CASE edge \in ThreatEdges(a)
      BY <1>3 DEF ThreatEdges, Entity, Labels
  <1> QED
      BY <1>1, <1>2, <1>3

-----------------------------------------------------------------------------
(* What every step does to the conjuncts of IInv                           *)

\* The graph only grows; what is new must be justified.
LEMMA FactsGrow ==
    ASSUME Facts, rels \subseteq rels',
           Delivered("ingested") \subseteq Delivered("ingested")',
           Delivered("sealed") \subseteq Delivered("sealed")',
           \A m \in loaded' \ loaded : InGraph(m)',
           \A r \in rels' \ rels : Justified(r)' /\ Credited(r)'
    PROVE  Facts'
  <1>1. \A m \in loaded : InGraph(m)'
      BY DEF Facts, InGraph
  <1>2. \A r \in rels : Justified(r)' /\ Credited(r)'
      BY DEF Facts, Justified, Credited
  <1> QED
      BY <1>1, <1>2 DEF Facts

LEMMA GraphGrows ==
    ASSUME GraphOK, NEW N, nodes' = nodes \cup N, \A n \in N : n[1] # "Evidence",
           rels \subseteq rels', \A r \in rels' \ rels : r[1] \in nodes' /\ r[3] \in nodes',
           evidence' = evidence
    PROVE  GraphOK'
  <1>1. Nodes("Evidence")' = Nodes("Evidence")
      BY DEF Nodes
  <1> QED
      BY <1>1 DEF GraphOK

\* The same when the graph stays as it is.
LEMMA Same ==
    ASSUME IInv, UNCHANGED graph, loaded' = loaded, deliveries' = deliveries
    PROVE  Facts' /\ GraphOK'
  <1>1. rels' = rels /\ nodes' = nodes /\ evidence' = evidence
      BY DEF graph
  <1>2. Facts'
      BY <1>1, FactsGrow DEF IInv, Delivered
  <1>3. GraphOK'
      BY <1>1 DEF IInv, GraphOK, Nodes
  <1> QED
      BY <1>2, <1>3

LEMMA InitInv == Init => IInv
  <1> SUFFICES ASSUME Init PROVE IInv
      OBVIOUS
  <1>1. Stream
      BY EntryAssumption DEF Init, Stream
  <1>2. Progress /\ Facts
      BY DEF Init, Progress, Facts
  <1>3. GraphOK
      BY DEF Init, GraphOK, Nodes
  <1> QED
      BY <1>1, <1>2, <1>3 DEF IInv

\* Facts about a message.
LEMMA MessageParts ==
    ASSUME NEW m \in Messages
    PROVE  m[1] \in {"ingested", "sealed"} /\ m[2] \in Entries /\ m = <<m[1], m[2]>>
  BY DEF Messages

LEMMA HandleMessageInv ==
    ASSUME IInv, NEW m \in Messages, HandleMessage(m)
    PROVE  IInv'
  <1>1. /\ deliveries \in [Messages -> 0 .. MaxDeliver] /\ deliveries[m] < MaxDeliver
        /\ deliveries' = [deliveries EXCEPT ![m] = @ + 1]
        /\ UNCHANGED <<acked, faults, loaded, graph>>
      BY DEF IInv, Stream, HandleMessage
  <1>2. deliveries' \in [Messages -> 0 .. MaxDeliver] /\ deliveries'[m] > 0
        /\ \A k \in Messages : deliveries[k] > 0 => deliveries'[k] > 0
      BY <1>1, EntryAssumption
  <1>3. Stream'
      BY <1>1, <1>2 DEF IInv, Stream
  <1>4. Delivered("ingested") \subseteq Delivered("ingested")' /\ Delivered("sealed") \subseteq Delivered("sealed")'
      BY <1>2 DEF Delivered, Messages
  <1>5. rels' = rels /\ nodes' = nodes /\ evidence' = evidence /\ loaded' = loaded
      BY <1>1 DEF graph
  <1>6. Facts'
      BY <1>4, <1>5, FactsGrow DEF IInv
  <1>7. GraphOK'
      BY <1>5 DEF IInv, GraphOK, Nodes
  <1>8. Progress'
    <2> DEFINE c == [pc |-> "subject", msg |-> m, publisher |-> m[2].publisher,
                     entities |-> ParsedEntities(m[2].artifact),
                     edges |-> ParsedEdges(m[2].artifact), edge |-> NoEdge]
    <2>1. current' = c
        BY DEF HandleMessage
    <2>2. c \in Handling
      <3>1. m[2] \in Entries
          BY MessageParts
      <3>2. /\ m[2].publisher \in Publishers /\ ParsedEntities(m[2].artifact) \in SUBSET Entities
            /\ ParsedEdges(m[2].artifact) \in SUBSET Edges
          BY <3>1 DEF Publishers, Entities, Edges
      <3> QED
          BY <3>2 DEF Handling, Pcs
    <2>3. /\ c.pc = "subject" /\ c.msg = m /\ c.entities = ParsedEntities(m[2].artifact)
          /\ c.edges = ParsedEdges(m[2].artifact)
        OBVIOUS
    <2> HIDE DEF c
    <2> QED
        BY <1>2, <2>1, <2>2, <2>3 DEF Progress, Entry, IngestedProgress, SealedProgress, Handling
  <1> QED
      BY <1>3, <1>6, <1>7, <1>8 DEF IInv

LEMMA InHand ==
    ASSUME IInv, current # Idle
    PROVE  /\ current \in Handling /\ Entry \in Entries /\ current.msg \in Messages
           /\ current.msg[1] \in {"ingested", "sealed"}
           /\ \A kind : current.msg[1] = kind => Entry \in Delivered(kind)
  <1>1. current \in Handling /\ deliveries[current.msg] > 0
      BY DEF IInv, Progress
  <1>2. current.msg \in Messages
      BY <1>1 DEF Handling
  <1>3. current.msg[1] \in {"ingested", "sealed"} /\ Entry \in Entries
            /\ current.msg = <<current.msg[1], Entry>>
      BY <1>2, MessageParts DEF Entry
  <1> QED
      BY <1>1, <1>2, <1>3 DEF Delivered

LEMMA GoToFields ==
    ASSUME current \in Handling, NEW pc \in Pcs, GoTo(pc)
    PROVE  /\ current' \in Handling /\ current'.pc = pc /\ current'.msg = current.msg
           /\ current'.publisher = current.publisher /\ current'.entities = current.entities
           /\ current'.edges = current.edges /\ current'.edge = current.edge /\ Entry' = Entry
  BY DEF GoTo, Handling, Entry

LEMMA StreamSame ==
    ASSUME IInv, UNCHANGED stream,
           loaded' \in {loaded} \cup {loaded \cup {m} : m \in Messages}
    PROVE  Stream' /\ deliveries' = deliveries
              /\ Delivered("ingested")' = Delivered("ingested") /\ Delivered("sealed")' = Delivered("sealed")
  <1>1. deliveries' = deliveries /\ acked' = acked /\ faults' = faults
      BY DEF stream
  <1> QED
      BY <1>1 DEF IInv, Stream, Delivered

LEMMA LetGoInv ==
    ASSUME IInv, current # Idle, Ack \/ Fail
    PROVE  IInv'
  <1>1. UNCHANGED graph /\ loaded' = loaded /\ deliveries' = deliveries /\ current' = Idle
      BY DEF Ack, Fail
  <1>2. Facts' /\ GraphOK'
      BY <1>1, Same
  <1>3. Stream'
    <2>1. CASE Ack
        BY <2>1 DEF Ack, IInv, Stream, Progress
    <2>2. CASE Fail
        BY <2>2, EntryAssumption DEF Fail, IInv, Stream
    <2> QED
        BY <2>1, <2>2
  <1>4. Progress'
      BY <1>1 DEF Progress, Idle
  <1> QED
      BY <1>2, <1>3, <1>4 DEF IInv

\* An upsert of a subject or a publisher adds one node.
LEMMA NodeAdded ==
    ASSUME IInv, NEW n, n[1] # "Evidence", nodes' = nodes \cup {n},
           UNCHANGED <<rels, evidence, stream, loaded>>
    PROVE  Stream' /\ Facts' /\ GraphOK'
  <1>1. Stream' /\ Delivered("ingested")' = Delivered("ingested") /\ Delivered("sealed")' = Delivered("sealed")
      BY StreamSame
  <1>2. Facts'
      BY <1>1, FactsGrow DEF IInv
  <1>3. GraphOK'
    <2> DEFINE N == {n}
    <2>1. nodes' = nodes \cup N /\ (\A k \in N : k[1] # "Evidence") /\ rels' = rels
        OBVIOUS
    <2> HIDE DEF N
    <2> QED
        BY <2>1, GraphGrows DEF IInv
  <1> QED
      BY <1>1, <1>2, <1>3

LEMMA UpsertNodeInv ==
    ASSUME IInv, current # Idle,
           IngestedSubject \/ IngestedPublisher \/ SealedSubject \/ SealedPublisher
    PROVE  IInv'
  <1>1. current \in Handling /\ Entry \in Entries
      BY InHand
  <1>2. deliveries' = deliveries /\ UNCHANGED <<rels, evidence, stream, loaded>>
      BY DEF IngestedSubject, IngestedPublisher, SealedSubject, SealedPublisher,
             UpsertSubject, UpsertPublisher, stream
  <1>3. Stream' /\ Facts' /\ GraphOK'
    <2>1. \A x : Subject(x)[1] # "Evidence" /\ Publisher(x)[1] # "Evidence"
        BY DEF Subject, Publisher
    <2>2. \/ nodes' = nodes \cup {Subject(Entry.subject)} \/ nodes' = nodes \cup {Publisher(Entry.publisher)}
          \/ nodes' = nodes \cup {Publisher(current.publisher)}
        BY DEF IngestedSubject, IngestedPublisher, SealedSubject, SealedPublisher,
               UpsertSubject, UpsertPublisher
    <2> QED
        BY <1>2, <2>1, <2>2, NodeAdded
  <1>4. \A p, e : Submitter(p, e)' <=> Submitter(p, e)
      BY <1>2 DEF Submitter, Delivered
  <1>5. Progress'
    <2>1. CASE IngestedSubject
      <3>1. GoTo("publisher") /\ current.msg[1] = "ingested" /\ Subject(Entry.subject) \in nodes'
          BY <2>1 DEF IngestedSubject, At, UpsertSubject
      <3> QED
          BY <1>1, <1>2, <3>1, GoToFields DEF IInv, Progress, IngestedProgress, Pcs
    <2>2. CASE IngestedPublisher
      <3>1. /\ GoTo("stub") /\ current.msg[1] = "ingested" /\ current.pc = "publisher"
            /\ Publisher(Entry.publisher) \in nodes' /\ nodes \subseteq nodes'
          BY <2>2 DEF IngestedPublisher, At, UpsertPublisher
      <3> QED
          BY <1>1, <1>2, <3>1, GoToFields DEF IInv, Progress, IngestedProgress, Pcs
    <2>3. CASE SealedSubject
      <3>1. GoTo("find") /\ current.msg[1] = "sealed" /\ Subject(Entry.subject) \in nodes'
          BY <2>3 DEF SealedSubject, At, UpsertSubject
      <3>2. current.pc = "subject"
          BY <2>3 DEF SealedSubject, At
      <3> QED
          BY <1>1, <1>2, <3>1, <3>2, GoToFields DEF IInv, Progress, SealedProgress, Pcs
    <2>4. CASE SealedPublisher
      <3>1. /\ GoTo("evidence") /\ current.msg[1] = "sealed" /\ current.pc = "publisher"
            /\ Publisher(current.publisher) \in nodes' /\ nodes \subseteq nodes'
          BY <2>4 DEF SealedPublisher, At, UpsertPublisher
      <3> QED
          BY <1>1, <1>2, <1>4, <3>1, GoToFields DEF IInv, Progress, SealedProgress, Pcs
    <2> QED
        BY <2>1, <2>2, <2>3, <2>4
  <1> QED
      BY <1>3, <1>5 DEF IInv

LEMMA IngestedStubInv ==
    ASSUME IInv, current # Idle, IngestedStubStep
    PROVE  IInv'
  <1> DEFINE e == Entry
             stub == IngestedStub(e.digest, e.subject)
  <1>1. /\ current \in Handling /\ current.msg \in Messages /\ e \in Delivered("ingested")
        /\ current.msg[1] = "ingested" /\ current.pc = "stub"
      BY InHand DEF IngestedStubStep, At
  <1>2. {Subject(e.subject), Publisher(e.publisher)} \subseteq nodes
      BY <1>1 DEF IInv, Progress, IngestedProgress
  <1>3. /\ nodes' = nodes \cup {stub} /\ rels' = rels \cup IngestedEffect(e)
        /\ evidence' = evidence /\ loaded' = loaded \cup {current.msg} /\ UNCHANGED stream
        /\ GoTo("ack")
      BY <1>2 DEF IngestedStubStep, UpsertIngestedStub, IngestedEffect
  <1>4. /\ Stream' /\ deliveries' = deliveries /\ Delivered("ingested")' = Delivered("ingested")
        /\ Delivered("sealed")' = Delivered("sealed")
      BY <1>1, <1>3, StreamSame
  <1>5. stub[1] = "IngestedStub" /\ \A r \in IngestedEffect(e) : r[1] = stub /\ r[3] \in nodes
      BY <1>2 DEF IngestedEffect, IngestedStub
  <1>6. Facts'
    <2>1. \A m \in loaded' \ loaded : InGraph(m)'
        BY <1>1, <1>3 DEF InGraph, Effect, Entry
    <2>2. \A r \in rels' \ rels : Justified(r)' /\ Credited(r)'
        BY <1>1, <1>3, <1>4, <1>5 DEF Justified, Credited
    <2> QED
        BY <1>3, <1>4, <2>1, <2>2, FactsGrow DEF IInv
  <1>7. GraphOK'
    <2> DEFINE N == {stub}
    <2>1. /\ nodes' = nodes \cup N /\ \A n \in N : n[1] # "Evidence"
          /\ \A r \in rels' \ rels : r[1] \in nodes' /\ r[3] \in nodes'
        BY <1>3, <1>5
    <2> HIDE DEF N
    <2> QED
        BY <1>3, <2>1, GraphGrows DEF IInv
  <1>8. Progress'
      BY <1>1, <1>3, <1>4, GoToFields DEF IInv, Progress, IngestedProgress, Pcs
  <1> QED
      BY <1>4, <1>6, <1>7, <1>8 DEF IInv

\* Whom FindPublisherByDigest finds has submitted that content for that subject.
LEMMA FoundIsSubmitter ==
    ASSUME IInv, NEW d, NEW s, NEW p \in FindPublisherByDigest(d, s)
    PROVE  \E f \in Delivered("ingested") : f.digest = d /\ f.subject = s /\ f.publisher = p
  <1>1. PICK r \in rels : r[1] = IngestedStub(d, s) /\ r[2] = "PUBLISHED_BY" /\ p = r[3][2]
      BY DEF FindPublisherByDigest
  <1>2. Justified(r)
      BY <1>1 DEF IInv, Facts
  <1>3. ASSUME NEW e \in Delivered("sealed") PROVE r \notin SealedEffect(e)
    <2>1. r \notin ParsedEdges(e.artifact)
        BY <1>1, EdgeLabels
    <2> QED
        BY <1>1, <2>1 DEF SealedEffect
  <1>4. \A e : r[1] # EvidenceNode(e.index)
      BY <1>1 DEF IngestedStub, EvidenceNode
  <1>5. PICK f \in Delivered("ingested") : r \in IngestedEffect(f)
      BY <1>2, <1>3, <1>4 DEF Justified
  <1>6. r[1] = IngestedStub(f.digest, f.subject) /\ r[3] = Publisher(f.publisher)
      BY <1>1, <1>5 DEF IngestedEffect
  <1> QED
      BY <1>1, <1>6 DEF IngestedStub, Publisher

LEMMA FindPublisherInv ==
    ASSUME IInv, current # Idle, FindPublisher
    PROVE  IInv'
  <1>1. /\ current \in Handling /\ current.msg[1] = "sealed" /\ current.pc = "find"
        /\ UNCHANGED <<deliveries, acked, loaded, graph>>
      BY InHand DEF FindPublisher, At
  <1>2. PICK p \in FindPublisherByDigest(Entry.digest, Entry.subject) \cup {Placeholder} :
            current' = [current EXCEPT !.pc = "publisher", !.publisher = p]
      BY Zenon DEF FindPublisher
  <1>3. faults' \in 0 .. MaxFaults
      BY EntryAssumption DEF FindPublisher, IInv, Stream
  <1>4. Stream'
      BY <1>1, <1>3 DEF IInv, Stream
  <1>5. Facts' /\ GraphOK'
      BY <1>1, Same
  <1>6. Submitter(p, Entry) /\ p \in Publishers
    <2>1. CASE p = Placeholder
        BY <2>1 DEF Submitter, Publishers
    <2>2. CASE p \in FindPublisherByDigest(Entry.digest, Entry.subject)
      <3>1. PICK f \in Delivered("ingested") :
                f.digest = Entry.digest /\ f.subject = Entry.subject /\ f.publisher = p
          BY <2>2, FoundIsSubmitter
      <3>2. f \in Entries
          BY DEF Delivered
      <3> QED
          BY <3>1, <3>2 DEF Submitter, Publishers
    <2> QED
        BY <1>2, <2>1, <2>2
  <1>7. /\ current' \in Handling /\ current'.pc = "publisher" /\ current'.publisher = p
        /\ current'.msg = current.msg /\ current'.entities = current.entities
        /\ current'.edges = current.edges /\ Entry' = Entry
      BY <1>1, <1>2, <1>6, Zenon DEF Handling, Pcs, Entry
  <1>8. Submitter(p, Entry)' /\ nodes' = nodes
      BY <1>1, <1>6, <1>7 DEF Submitter, Delivered, graph
  <1>9. Progress'
      BY <1>1, <1>7, <1>8 DEF IInv, Progress, SealedProgress
  <1> QED
      BY <1>4, <1>5, <1>9 DEF IInv

LEMMA SealedEvidenceInv ==
    ASSUME IInv, current # Idle, SealedEvidenceStep
    PROVE  IInv'
  <1> DEFINE e == Entry
             p == current.publisher
             node == EvidenceNode(e.index)
  <1>1. /\ current \in Handling /\ e \in Entries /\ e \in Delivered("sealed")
        /\ current.msg[1] = "sealed" /\ current.pc = "evidence"
      BY InHand DEF SealedEvidenceStep, At
  <1>2. /\ {Subject(e.subject), Publisher(p)} \subseteq nodes /\ Submitter(p, e) /\ p \in Publishers
        /\ current.entities = ParsedEntities(e.artifact) /\ current.edges = ParsedEdges(e.artifact)
      BY <1>1 DEF IInv, Progress, SealedProgress, Handling
  <1>3. /\ nodes' = nodes \cup {node} /\ rels' = rels \cup {Targets(e), PublishedBy(e, p)}
        /\ DOMAIN evidence' = DOMAIN evidence \cup {e.index}
        /\ loaded' = loaded /\ UNCHANGED stream /\ GoTo("artifact")
      BY <1>2 DEF SealedEvidenceStep, UpsertEvidence, Targets, PublishedBy, Put
  <1>4. /\ Stream' /\ deliveries' = deliveries /\ Delivered("ingested")' = Delivered("ingested")
        /\ Delivered("sealed")' = Delivered("sealed")
      BY <1>3, StreamSame
  <1>5. Facts'
    <2>1. ASSUME NEW r, r = Targets(e)
          PROVE  Justified(r)' /\ Credited(r)'
      <3>1. r \in SealedEffect(e) /\ r[2] = "TARGETS"
          BY <2>1 DEF Targets, SealedEffect
      <3> QED
          BY <1>1, <1>4, <3>1 DEF Justified, Credited
    <2>2. ASSUME NEW r, r = PublishedBy(e, p)
          PROVE  Justified(r)' /\ Credited(r)'
      <3>1. r[1] = EvidenceNode(e.index) /\ r[2] = "PUBLISHED_BY" /\ r[3] = Publisher(p)
          BY <2>2 DEF PublishedBy
      <3>2. Justified(r)'
          BY <1>1, <1>4, <3>1 DEF Justified
      <3>3. CASE p = Placeholder
          BY <3>1, <3>2, <3>3 DEF Credited
      <3>4. CASE \E f \in Delivered("ingested") :
                    f.digest = e.digest /\ f.subject = e.subject /\ f.publisher = p
        <4>1. PICK f \in Delivered("ingested") :
                  f.digest = e.digest /\ f.subject = e.subject /\ f.publisher = p
            BY <3>4
        <4>2. f \in Entries
            BY DEF Delivered
        <4> QED
            BY <1>1, <1>4, <3>1, <3>2, <4>1, <4>2 DEF Credited
      <3> QED
          BY <1>2, <3>3, <3>4 DEF Submitter
    <2>3. \A r \in rels' \ rels : Justified(r)' /\ Credited(r)'
        BY <1>3, <2>1, <2>2
    <2> QED
        BY <1>3, <1>4, <2>3, FactsGrow DEF IInv
  <1>6. GraphOK'
    <2>1. Nodes("Evidence")' = Nodes("Evidence") \cup {node}
        BY <1>3 DEF Nodes, EvidenceNode
    <2>2. {EvidenceNode(i) : i \in DOMAIN evidence'} = {EvidenceNode(i) : i \in DOMAIN evidence} \cup {node}
        BY <1>3
    <2>3. \A r \in rels' : r[1] \in nodes' /\ r[3] \in nodes'
        BY <1>2, <1>3 DEF IInv, GraphOK, Targets, PublishedBy
    <2> QED
        BY <2>1, <2>2, <2>3 DEF IInv, GraphOK
  <1>7. Progress'
    <2>1. /\ current' \in Handling /\ current'.pc = "artifact" /\ current'.msg = current.msg
          /\ current'.entities = current.entities /\ current'.edges = current.edges /\ Entry' = e
        BY <1>1, <1>3, GoToFields DEF Pcs
    <2>2. ArtifactProgress(e)'
        BY <1>2, <1>3, <2>1 DEF ArtifactProgress
    <2> QED
        BY <1>1, <1>2, <1>4, <2>1, <2>2 DEF IInv, Progress, SealedProgress
  <1> QED
      BY <1>4, <1>5, <1>6, <1>7 DEF IInv

LEMMA EntityAdded ==
    ASSUME IInv, NEW n, UpsertEntity(n, Entry.index), EvidenceNode(Entry.index) \in nodes,
           n[1] \in Labels, Defines(Entry, n) \in SealedEffect(Entry),
           Entry \in Delivered("sealed"), UNCHANGED <<stream, loaded>>
    PROVE  /\ Stream' /\ Facts' /\ GraphOK' /\ deliveries' = deliveries
           /\ nodes' = nodes \cup {n} /\ rels' = rels \cup {Defines(Entry, n)}
  <1>1. nodes' = nodes \cup {n} /\ rels' = rels \cup {Defines(Entry, n)} /\ evidence' = evidence
      BY DEF UpsertEntity, Defines
  <1>2. /\ Stream' /\ deliveries' = deliveries /\ Delivered("ingested")' = Delivered("ingested")
        /\ Delivered("sealed")' = Delivered("sealed")
      BY StreamSame
  <1>3. ASSUME NEW r, r = Defines(Entry, n)
        PROVE  /\ Justified(r)' /\ Credited(r)'
               /\ r[1] = EvidenceNode(Entry.index) /\ r[3] = n
    <2>1. r[1] = EvidenceNode(Entry.index) /\ r[2] = "DEFINES" /\ r[3] = n
        BY <1>3 DEF Defines
    <2> QED
        BY <1>2, <1>3, <2>1 DEF Justified, Credited
  <1>4. Facts'
      BY <1>1, <1>2, <1>3, FactsGrow DEF IInv
  <1>5. GraphOK'
    <2> DEFINE N == {n}
    <2>1. /\ nodes' = nodes \cup N /\ \A k \in N : k[1] # "Evidence"
          /\ \A r \in rels' \ rels : r[1] \in nodes' /\ r[3] \in nodes'
        BY <1>1, <1>3 DEF Labels
    <2> HIDE DEF N
    <2> QED
        BY <1>1, <2>1, GraphGrows DEF IInv
  <1> QED
      BY <1>1, <1>2, <1>4, <1>5

LEMMA ArtifactEntityInv ==
    ASSUME IInv, current # Idle, NEW n \in ParsedEntities(Entry.artifact), ArtifactEntity(n)
    PROVE  IInv'
  <1>1. /\ current \in Handling /\ Entry \in Delivered("sealed")
        /\ current.msg[1] = "sealed" /\ current.pc = "artifact"
      BY InHand DEF ArtifactEntity, At
  <1>2. ArtifactProgress(Entry)
      BY <1>1 DEF IInv, Progress
  <1>3. /\ UpsertEntity(n, Entry.index) /\ UNCHANGED <<stream, loaded>>
        /\ current' = [current EXCEPT !.entities = @ \ {n}]
      BY DEF ArtifactEntity
  <1>4. n[1] \in Labels /\ Defines(Entry, n) \in SealedEffect(Entry)
      BY EntityLabels DEF Defines, SealedEffect
  <1>5. /\ Stream' /\ Facts' /\ GraphOK' /\ deliveries' = deliveries
        /\ nodes' = nodes \cup {n} /\ rels' = rels \cup {Defines(Entry, n)}
      BY <1>1, <1>2, <1>3, <1>4, EntityAdded DEF ArtifactProgress
  <1>6. /\ current' \in Handling /\ current'.pc = "artifact" /\ current'.msg = current.msg
        /\ current'.entities = current.entities \ {n} /\ current'.edges = current.edges
        /\ Entry' = Entry
      BY <1>1, <1>3 DEF Handling, Entry
  <1>7. ArtifactProgress(Entry)'
      BY <1>2, <1>5, <1>6 DEF ArtifactProgress
  <1>8. Progress'
      BY <1>1, <1>3, <1>5, <1>6, <1>7 DEF IInv, Progress, SealedProgress
  <1> QED
      BY <1>5, <1>8 DEF IInv

\* Both ends of an edge are entities its evidence defines.
LEMMA EdgeEnds ==
    ASSUME NEW e, NEW edge \in ParsedEdges(e.artifact)
    PROVE  /\ edge[1][1] \in Labels /\ Defines(e, edge[1]) \in SealedEffect(e)
           /\ edge[3][1] \in Labels /\ Defines(e, edge[3]) \in SealedEffect(e)
  BY EdgeLabels DEF Defines, SealedEffect

LEMMA ArtifactStubFromInv ==
    ASSUME IInv, current # Idle, NEW edge \in ParsedEdges(Entry.artifact), ArtifactStubFrom(edge)
    PROVE  IInv'
  <1>1. /\ current \in Handling /\ Entry \in Entries /\ Entry \in Delivered("sealed")
        /\ current.msg[1] = "sealed" /\ current.pc = "artifact"
      BY InHand DEF ArtifactStubFrom, At
  <1>2. ArtifactProgress(Entry)
      BY <1>1 DEF IInv, Progress
  <1>3. /\ UpsertEntity(edge[1], Entry.index) /\ UNCHANGED <<stream, loaded>>
        /\ current' = [current EXCEPT !.pc = "to", !.edge = edge]
      BY DEF ArtifactStubFrom
  <1>4. /\ Stream' /\ Facts' /\ GraphOK' /\ deliveries' = deliveries
        /\ nodes' = nodes \cup {edge[1]} /\ rels' = rels \cup {Defines(Entry, edge[1])}
      BY <1>1, <1>2, <1>3, EdgeEnds, EntityAdded, Zenon DEF ArtifactProgress
  <1>5. edge \in Edges
      BY <1>1 DEF Edges
  <1>6. /\ current' \in Handling /\ current'.pc = "to" /\ current'.msg = current.msg
        /\ current'.entities = current.entities /\ current'.edges = current.edges
        /\ current'.edge = edge /\ Entry' = Entry
      BY <1>1, <1>3, <1>5, Zenon DEF Handling, Entry, Pcs
  <1>7. ArtifactProgress(Entry)' /\ EdgeProgress(Entry)'
    <2>1. nodes \subseteq nodes' /\ rels \subseteq rels' /\ edge[1] \in nodes' /\ Defines(Entry, edge[1]) \in rels'
        BY <1>4
    <2>2. ArtifactProgress(Entry)'
        BY <1>2, <1>6, <2>1 DEF ArtifactProgress
    <2>3. EdgeProgress(Entry)'
        BY <1>6, <2>1 DEF EdgeProgress, Defines
    <2> QED
        BY <2>2, <2>3
  <1>8. Progress'
      BY <1>1, <1>3, <1>4, <1>6, <1>7 DEF IInv, Progress, SealedProgress
  <1> QED
      BY <1>4, <1>8 DEF IInv

LEMMA ArtifactStubToInv ==
    ASSUME IInv, current # Idle, ArtifactStubTo
    PROVE  IInv'
  <1> DEFINE edge == current.edge
  <1>1. /\ current \in Handling /\ Entry \in Entries /\ Entry \in Delivered("sealed")
        /\ current.msg[1] = "sealed" /\ current.pc = "to"
      BY InHand DEF ArtifactStubTo, At
  <1>2. ArtifactProgress(Entry) /\ EdgeProgress(Entry)
      BY <1>1 DEF IInv, Progress
  <1>3. UpsertEntity(edge[3], Entry.index) /\ UNCHANGED <<stream, loaded>> /\ GoTo("edge")
      BY DEF ArtifactStubTo
  <1>4. edge \in ParsedEdges(Entry.artifact)
      BY <1>2 DEF EdgeProgress
  <1>5. /\ Stream' /\ Facts' /\ GraphOK' /\ deliveries' = deliveries
        /\ nodes' = nodes \cup {edge[3]} /\ rels' = rels \cup {Defines(Entry, edge[3])}
      BY <1>1, <1>2, <1>3, <1>4, EdgeEnds, EntityAdded DEF ArtifactProgress
  <1>6. /\ current' \in Handling /\ current'.pc = "edge" /\ current'.msg = current.msg
        /\ current'.entities = current.entities /\ current'.edges = current.edges
        /\ current'.edge = edge /\ Entry' = Entry
      BY <1>1, <1>3, GoToFields DEF Pcs
  <1>7. ArtifactProgress(Entry)' /\ EdgeProgress(Entry)'
      BY <1>2, <1>5, <1>6, SMTT(30) DEF ArtifactProgress, EdgeProgress
  <1>8. Progress'
      BY <1>1, <1>3, <1>5, <1>6, <1>7 DEF IInv, Progress, SealedProgress
  <1> QED
      BY <1>5, <1>8 DEF IInv

LEMMA ArtifactEdgeInv ==
    ASSUME IInv, current # Idle, ArtifactEdge
    PROVE  IInv'
  <1> DEFINE edge == current.edge
  <1>1. /\ current \in Handling /\ Entry \in Delivered("sealed")
        /\ current.msg[1] = "sealed" /\ current.pc = "edge"
      BY InHand DEF ArtifactEdge, At
  <1>2. ArtifactProgress(Entry) /\ EdgeProgress(Entry)
      BY <1>1 DEF IInv, Progress
  <1>3. edge \in ParsedEdges(Entry.artifact) /\ {edge[1], edge[3]} \subseteq nodes
            /\ {Defines(Entry, edge[1]), Defines(Entry, edge[3])} \subseteq rels
      BY <1>1, <1>2 DEF EdgeProgress
  <1>4. /\ rels' = rels \cup {edge} /\ nodes' = nodes /\ evidence' = evidence
        /\ UNCHANGED <<stream, loaded>>
        /\ current' = [current EXCEPT !.pc = "artifact", !.edges = @ \ {edge}]
      BY <1>3 DEF ArtifactEdge, UpsertEdge
  <1>5. /\ Stream' /\ deliveries' = deliveries /\ Delivered("ingested")' = Delivered("ingested")
        /\ Delivered("sealed")' = Delivered("sealed")
      BY <1>4, StreamSame
  <1>6. Facts'
    <2>1. ASSUME NEW r, r = edge
          PROVE  Justified(r)' /\ Credited(r)'
      <3>1. r \in SealedEffect(Entry) /\ r[2] # "PUBLISHED_BY"
          BY <1>3, <2>1, EdgeLabels DEF SealedEffect
      <3> QED
          BY <1>1, <1>5, <3>1 DEF Justified, Credited
    <2> QED
        BY <1>4, <1>5, <2>1, FactsGrow DEF IInv
  <1>7. GraphOK'
      BY <1>3, <1>4 DEF IInv, GraphOK, Nodes
  <1>8. /\ current' \in Handling /\ current'.pc = "artifact" /\ current'.msg = current.msg
        /\ current'.entities = current.entities /\ current'.edges = current.edges \ {edge}
        /\ Entry' = Entry
      BY <1>1, <1>4, Zenon DEF Handling, Entry, Pcs
  <1>9. ArtifactProgress(Entry)'
      BY <1>2, <1>3, <1>4, <1>8 DEF ArtifactProgress
  <1>10. Progress'
      BY <1>1, <1>4, <1>5, <1>8, <1>9 DEF IInv, Progress, SealedProgress
  <1> QED
      BY <1>5, <1>6, <1>7, <1>10 DEF IInv

LEMMA ArtifactProcessedInv ==
    ASSUME IInv, current # Idle, ArtifactProcessed
    PROVE  IInv'
  <1>1. /\ current \in Handling /\ current.msg \in Messages
        /\ current.msg[1] = "sealed" /\ current.pc = "artifact"
        /\ current.entities = {} /\ current.edges = {}
      BY InHand DEF ArtifactProcessed, At
  <1>2. ArtifactProgress(Entry)
      BY <1>1 DEF IInv, Progress
  <1>3. /\ rels' = rels /\ nodes' = nodes /\ evidence' = evidence /\ UNCHANGED stream
        /\ loaded' = loaded \cup {current.msg} /\ GoTo("ack")
      BY DEF ArtifactProcessed, graph
  <1>4. /\ Stream' /\ deliveries' = deliveries /\ Delivered("ingested")' = Delivered("ingested")
        /\ Delivered("sealed")' = Delivered("sealed")
      BY <1>1, <1>3, StreamSame
  <1>5. Effect(current.msg) \subseteq rels
    <2>1. Effect(current.msg) = SealedEffect(Entry)
        BY <1>1 DEF Effect, Entry
    <2>2. SealedEffect(Entry) \subseteq rels
        BY <1>1, <1>2, Zenon DEF SealedEffect, ArtifactProgress, Targets, Defines
    <2> QED
        BY <2>1, <2>2
  <1>6. ASSUME NEW m, m = current.msg PROVE InGraph(m)'
      BY <1>2, <1>3, <1>5, <1>6 DEF InGraph, ArtifactProgress, Entry
  <1>7. Facts'
      BY <1>3, <1>4, <1>6, FactsGrow DEF IInv
  <1>8. GraphOK'
      BY <1>3 DEF IInv, GraphOK, Nodes
  <1>9. Progress'
      BY <1>1, <1>3, <1>4, GoToFields DEF IInv, Progress, SealedProgress, Pcs
  <1> QED
      BY <1>4, <1>7, <1>8, <1>9 DEF IInv

LEMMA NextInv == IInv /\ [Next]_vars => IInv'
  <1> SUFFICES ASSUME IInv, [Next]_vars PROVE IInv'
      OBVIOUS
  <1>1. CASE UNCHANGED vars
    <2>1. UNCHANGED <<stream, current, loaded, graph>>
        BY <1>1 DEF vars
    <2>2. Stream' /\ deliveries' = deliveries /\ nodes' = nodes /\ rels' = rels
        BY <2>1, StreamSame DEF graph
    <2>3. Facts' /\ GraphOK'
        BY <2>1, <2>2, Same
    <2>4. \A p, e : Submitter(p, e)' <=> Submitter(p, e)
        BY <2>2 DEF Submitter, Delivered
    <2>5. Entry' = Entry
        BY <2>1, SMTT(30) DEF Entry
    <2>6. Progress'
        BY <2>1, <2>2, <2>4, <2>5 DEF IInv, Progress, IngestedProgress, SealedProgress,
                                      ArtifactProgress, EdgeProgress
    <2> QED
        BY <2>2, <2>3, <2>6 DEF IInv
  <1>2. CASE Consume
      BY <1>2, HandleMessageInv DEF Consume
  <1>3. CASE Handle
      BY <1>3, UpsertNodeInv, IngestedStubInv, FindPublisherInv, SealedEvidenceInv,
         ArtifactEntityInv, ArtifactStubFromInv, ArtifactStubToInv, ArtifactEdgeInv,
         ArtifactProcessedInv, LetGoInv DEF Handle, HandleIngested, HandleSealed
  <1>4. CASE Fail
      BY <1>4, LetGoInv DEF Fail
  <1> QED
      BY <1>1, <1>2, <1>3, <1>4 DEF Next

LEMMA Inductive == Spec => []IInv
  BY InitInv, NextInv, PTL DEF Spec

\* Relationships join nodes that exist and Evidence nodes have properties, for
\* any entries and however often handlings fail.
THEOREM TypeCorrect == Spec => []TypeOK
  BY FactsMean, Inductive, PTL

\* An event handled to its end is in the graph for good.
THEOREM AckedIsInGraph == Spec => []LoadedIsInGraph
  BY FactsMean, Inductive, PTL

\* Redelivered and half-handled events add nothing of their own.
THEOREM GraphIsJustified == Spec => []NothingInvented
  BY FactsMean, Inductive, PTL

\* Evidence is credited to the placeholder or to a submitter of that content
\* for that subject, in whatever order its two events are handled.
THEOREM CreditIsDue == Spec => []AttributedToSubmitter
  BY FactsMean, Inductive, PTL
=============================================================================
