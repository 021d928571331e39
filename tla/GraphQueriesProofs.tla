------------------------ MODULE GraphQueriesProofs -------------------------
(***************************************************************************)
(* What the graph service answers, for any set of entries and any          *)
(* interleaving of requests and loader.  The strengthening has a part      *)
(* about the graph (GraphInv), which the loader keeps, and one about the   *)
(* answer being assembled (ModelInv, PagesInv), which holds on because the *)
(* graph only grows.                                                       *)
(***************************************************************************)
EXTENDS GraphQueries, EvidenceGraphProofs, FiniteSetTheorems

\* A leaf that names no prover is tried with SMT, then with Zenon.
USE SMTT(30), ZenonT(30)

\* What UpsertEvidence stores with the node of entry e.
Described(e) == [digest |-> e.digest, sealed |-> e.sealed,
                 artifactType |-> inferArtifactType(e.artifact)]

\* Evidence e is its subject's and has a publisher in the graph.
Listed(e) ==
    /\ Targets(e) \in rels
    /\ \E p \in Publishers : PublishedBy(e, p) \in rels

\* An edge is in the graph only after evidence that states it and defines both
\* its ends.
EdgesAreSourced ==
    \A r \in rels :
        r[2] \in {"ADDRESSES", "INTRODUCES", "LEVERAGES"} =>
            \E e \in Entries : /\ r \in ParsedEdges(e.artifact)
                               /\ Listed(e)
                               /\ {Defines(e, r[1]), Defines(e, r[3])} \subseteq rels

\* The properties of Evidence nodes are those of entries with their index.
EvidenceIsDescribed ==
    \A i \in DOMAIN evidence : \E e \in Entries : e.index = i /\ evidence[i] = Described(e)

Catalog(e) == e.artifact.type = "ControlCatalog"

\* A control's catalogID is that of a catalog with the control; a catalog's
\* controls have one when its upserts are done.
CatalogsAreKept ==
    /\ \A c \in DOMAIN catalogID :
          \E f \in Entries : Catalog(f) /\ c \in f.artifact.items /\ catalogID[c] = f.artifact.id
    /\ \A e \in Entries :
          <<"sealed", e>> \in loaded /\ Catalog(e) => e.artifact.items \subseteq DOMAIN catalogID
    /\ current # Idle /\ current.msg[1] = "sealed" /\ current.pc \in {"artifact", "to", "edge"} =>
          \A n \in ParsedEntities(Entry.artifact) \ current.entities :
              n[1] = "Control" => n[2] \in DOMAIN catalogID

GraphInv == IsFiniteSet(rels) /\ EdgesAreSourced /\ EvidenceIsDescribed /\ CatalogsAreKept

ModelFields == {"kind", "pc", "subject", "capabilities", "introduces", "threats", "addressedBy",
                "leverages", "controls", "applies", "vectors", "handled"}

\* Ids with a label that handling e leaves in the graph.
IdsOf(e, label) ==
    {n[2] : n \in {m \in ParsedEntities(e.artifact)
                         \cup {edge[1] : edge \in ParsedEdges(e.artifact)}
                         \cup {edge[3] : edge \in ParsedEdges(e.artifact)} : m[1] = label}}

PairsOf(e, type) ==
    {<<edge[1][2], edge[3][2]>> : edge \in {x \in ParsedEdges(e.artifact) : x[2] = type}}

Introduces(p) == <<Entity("Capability", p[1]), "INTRODUCES", Entity("Threat", p[2])>>
Addresses(p)  == <<Entity("Control", p[1]), "ADDRESSES", Entity("Threat", p[2])>>

\* What each query of ThreatModel has left in the answer: all that was handled
\* before, edges that are in the graph, and what the edges seen before lead to.
CapabilitiesRead == \A e \in read.handled : IdsOf(e, "Capability") \subseteq read.capabilities

IntroducesRead ==
    /\ \A e \in read.handled : PairsOf(e, "INTRODUCES") \subseteq read.introduces
    /\ \A p \in read.introduces : Introduces(p) \in rels

ThreatsRead ==
    /\ \A e \in read.handled : IdsOf(e, "Threat") \subseteq read.threats
    /\ \A p \in read.introduces : OwnEdge(Introduces(p)) => p[2] \in read.threats

AddressesRead ==
    /\ \A e \in read.handled : PairsOf(e, "ADDRESSES") \subseteq read.addressedBy
    /\ \A p \in read.addressedBy : Addresses(p) \in rels

ControlsRead ==
    /\ \A e \in read.handled : IdsOf(e, "Control") \subseteq read.controls
    /\ \A p \in read.addressedBy : OwnEdge(Addresses(p)) => p[1] \in read.controls

VectorsRead == \A e \in read.handled : IdsOf(e, "Vector") \subseteq read.vectors

ModelPcs == {"capabilities", "introduces", "threats", "addresses", "leverages", "controls",
             "applies", "vectors", "answered"}

ModelInv ==
    read.kind = "model" =>
        /\ DOMAIN read = ModelFields
        /\ read.pc \in ModelPcs
        /\ read.handled \subseteq Handled(read.subject)
        /\ read.pc \notin {"capabilities"} => CapabilitiesRead
        /\ read.pc \notin {"capabilities", "introduces"} => IntroducesRead
        /\ read.pc \notin {"capabilities", "introduces", "threats"} => ThreatsRead
        /\ read.pc \in {"leverages", "controls", "applies", "vectors", "answered"} => AddressesRead
        /\ read.pc \in {"applies", "vectors", "answered"} => ControlsRead
        /\ read.pc = "answered" => VectorsRead

EvidenceFields == {"kind", "pc", "subject", "type", "range", "limit", "cursor", "seen", "present"}

\* What was there at the start and cannot drop out of the selection: an entry of
\* another ledger with the same index changes an Evidence node's type and date,
\* which matters when a request selects by them.
Kept == {i \in read.present : (read.type = NoType /\ read.range = Always) \/ ~Shared(i)}

Listing == Indexes(Matching(read.subject, read.type, read.range, NoCursor))

\* What was there when the first page was asked for still is, and the pages so
\* far have shown what is at or before the cursor.
PagesInv ==
    read.kind = "evidence" =>
        /\ DOMAIN read = EvidenceFields
        /\ read.limit \in Limits
        /\ read.pc \in {"page", "answered"}
        /\ read.cursor \in Nat \cup {NoCursor}
        /\ Kept \subseteq Listing
        /\ read.pc = "page" =>
              \A i \in Kept : read.cursor = NoCursor \/ i > read.cursor \/ i \in read.seen
        /\ read.pc = "answered" => Kept \subseteq read.seen

-----------------------------------------------------------------------------
(* Finite sets                                                             *)

\* A finite set of integers has a largest and a smallest element: otherwise
\* take a least set without, and remove an element.
LEMMA Extremes ==
    ASSUME NEW S, S \subseteq Int, IsFiniteSet(S), S # {}
    PROVE  /\ Max(S) \in S /\ \A y \in S : Max(S) >= y
           /\ Min(S) \in S /\ \A y \in S : Min(S) <= y
  <1> DEFINE Has(T) == /\ \E x \in T : \A y \in T : x >= y
                       /\ \E x \in T : \A y \in T : x <= y
             Bad == {T \in SUBSET S : T # {} /\ ~Has(T)}
  <1>1. Bad = {}
    <2> SUFFICES ASSUME Bad # {} PROVE FALSE
        OBVIOUS
    <2>1. IsWellFoundedOn(StrictSubsetOrdering(S), SUBSET S)
        BY FS_StrictSubsetOrderingWellFounded, FS_FiniteSubsetsOfFinite, Zenon
    <2>2. PICK T \in Bad : \A U \in Bad : ~(<<U, T>> \in StrictSubsetOrdering(S))
      <3>1. Bad \subseteq SUBSET S
          OBVIOUS
      <3> HIDE DEF Bad
      <3> QED
          BY <2>1, <3>1, WFMin, Zenon
    <2>3. T \subseteq S /\ T # {} /\ ~Has(T)
        BY <2>2
    <2>4. PICK x \in T : x \in Int
        BY <2>3, Zenon
    <2> DEFINE U == T \ {x}
    <2>5. U \notin Bad
      <3>1. U \in SUBSET S /\ T \in SUBSET S /\ U \subseteq T /\ U # T
          BY <2>3, <2>4
      <3>2. <<U, T>> \in StrictSubsetOrdering(S)
          BY <3>1, Zenon DEF StrictSubsetOrdering
      <3> QED
          BY <2>2, <3>2
    <2>6. U = {} \/ Has(U)
        BY <2>3, <2>5
    <2>7. CASE U = {}
      <3>1. T = {x}
          BY <2>4, <2>7
      <3> QED
          BY <2>3, <2>4, <3>1
    <2>8. CASE Has(U)
      <3>1. PICK a \in U : \A y \in U : a >= y
          BY <2>8
      <3>2. PICK b \in U : \A y \in U : b <= y
          BY <2>8, Zenon
      <3>3. a \in T /\ b \in T /\ a \in Int /\ b \in Int /\ \A y \in T : y \in Int /\ (y = x \/ y \in U)
          BY <2>3
      <3>4. \E m \in T : \A y \in T : m >= y
        <4>1. CASE x >= a
            BY <2>4, <3>1, <3>3, <4>1
        <4>2. CASE a >= x
            BY <2>4, <3>1, <3>3, <4>2
        <4> QED
            BY <2>4, <3>3, <4>1, <4>2
      <3>5. \E m \in T : \A y \in T : m <= y
        <4>1. CASE x <= b
            BY <2>4, <3>2, <3>3, <4>1
        <4>2. CASE b <= x
            BY <2>4, <3>2, <3>3, <4>2
        <4> QED
            BY <2>4, <3>3, <4>1, <4>2
      <3> QED
          BY <2>3, <3>4, <3>5, Zenon
    <2> QED
        BY <2>6, <2>7, <2>8
  <1>2. Has(S)
      BY <1>1
  <1> QED
      BY <1>2, Zenon DEF Max, Min

\* The image of a finite set is finite and no larger.
LEMMA Images ==
    ASSUME NEW S, IsFiniteSet(S), NEW f
    PROVE  /\ IsFiniteSet({f[x] : x \in S})
           /\ Cardinality({f[x] : x \in S}) <= Cardinality(S)
  <1> DEFINE T == {f[x] : x \in S}
             g == [x \in S |-> f[x]]
  <1>1. g \in Surjection(S, T)
      BY DEF Surjection
  <1> HIDE DEF g, T
  <1>2. IsFiniteSet(T) /\ Cardinality(T) <= Cardinality(S)
      BY <1>1, FS_Surjection, Zenon
  <1> QED
      BY <1>2 DEF T

-----------------------------------------------------------------------------
(* The loader's steps                                                      *)

\* The steps that write relationships, Evidence properties or catalogIDs.
Writes ==
    \/ IngestedStubStep \/ SealedEvidenceStep \/ ArtifactStubTo \/ ArtifactEdge
    \/ \E n \in ParsedEntities(Entry.artifact) : ArtifactEntity(n)
    \/ \E edge \in ParsedEdges(Entry.artifact) : ArtifactStubFrom(edge)

\* A step of the loader is one of these or leaves relationships and properties
\* alone.
LEMMA WritesOrNot ==
    ASSUME [Next]_vars
    PROVE  \/ current # Idle /\ Writes
           \/ UNCHANGED <<rels, evidence, catalogID>>
  <1>1. CASE UNCHANGED vars
      BY <1>1 DEF vars, graph
  <1>2. CASE Consume
      BY <1>2 DEF Consume, HandleMessage, graph
  <1>3. CASE Fail
      BY <1>3 DEF Fail, graph
  <1>4. CASE Handle
    <2>1. CASE HandleIngested
        BY <1>4, <2>1 DEF Handle, HandleIngested, IngestedSubject, IngestedPublisher, UpsertSubject,
                          UpsertPublisher, Writes
    <2>2. CASE HandleSealed
      <3>1. SealedSubject \/ SealedPublisher => UNCHANGED <<rels, evidence, catalogID>>
          BY DEF SealedSubject, SealedPublisher, UpsertSubject, UpsertPublisher
      <3>2. FindPublisher \/ ArtifactProcessed => UNCHANGED <<rels, evidence, catalogID>>
          BY Zenon DEF FindPublisher, ArtifactProcessed, graph
      <3> QED
          BY <1>4, <2>2, <3>1, <3>2 DEF Handle, HandleSealed, Writes
    <2>3. CASE Ack
        BY <2>3 DEF Ack, graph
    <2> QED
        BY <1>4, <2>1, <2>2, <2>3 DEF Handle
  <1> QED
      BY <1>1, <1>2, <1>3, <1>4 DEF Next

\* MERGE and SET take no relationship, no Evidence and no catalogID away.
LEMMA GraphKept ==
    ASSUME [Next]_vars
    PROVE  /\ rels \subseteq rels' /\ loaded \subseteq loaded'
           /\ DOMAIN evidence \subseteq DOMAIN evidence' /\ DOMAIN catalogID \subseteq DOMAIN catalogID'
  <1>1. rels \subseteq rels' /\ DOMAIN evidence \subseteq DOMAIN evidence' /\ DOMAIN catalogID \subseteq DOMAIN catalogID'
    <2>1. CASE Writes
      <3>1. CASE IngestedStubStep
          BY <3>1 DEF IngestedStubStep, UpsertIngestedStub
      <3>2. CASE SealedEvidenceStep
          BY <3>2 DEF SealedEvidenceStep, UpsertEvidence, Put
      <3>3. CASE ArtifactStubTo
          BY <3>3 DEF ArtifactStubTo, UpsertEntity
      <3>4. CASE ArtifactEdge
          BY <3>4 DEF ArtifactEdge, UpsertEdge
      <3>5. CASE \E n \in ParsedEntities(Entry.artifact) : ArtifactEntity(n)
          BY <3>5 DEF ArtifactEntity, UpsertEntity, Put
      <3>6. CASE \E edge \in ParsedEdges(Entry.artifact) : ArtifactStubFrom(edge)
          BY <3>6 DEF ArtifactStubFrom, UpsertEntity
      <3> QED
          BY <2>1, <3>1, <3>2, <3>3, <3>4, <3>5, <3>6 DEF Writes
    <2> QED
        BY <2>1, WritesOrNot
  <1>2. loaded \subseteq loaded'
    <2>1. CASE UNCHANGED vars
        BY <2>1 DEF vars
    <2>2. CASE Consume \/ Fail \/ Ack
        BY <2>2 DEF Consume, HandleMessage, Fail, Ack
    <2>3. CASE HandleIngested
        BY <2>3 DEF HandleIngested, IngestedSubject, IngestedPublisher, IngestedStubStep
    <2>4. CASE HandleSealed
        BY <2>4, Zenon DEF HandleSealed, SealedSubject, FindPublisher, SealedPublisher, SealedEvidenceStep,
                    ArtifactEntity, ArtifactStubFrom, ArtifactStubTo, ArtifactEdge, ArtifactProcessed
    <2> QED
        BY <2>1, <2>2, <2>3, <2>4 DEF Next, Handle
  <1> QED
      BY <1>1, <1>2

\* A query merges at most two relationships, the loader's own or the edge in
\* hand.
LEMMA NewRels ==
    ASSUME [Next]_vars
    PROVE  /\ \E a, b : rels' \subseteq rels \cup {a, b}
           /\ \A r \in rels' \ rels :
                 \/ r[2] \in {"TARGETS", "PUBLISHED_BY", "DEFINES"}
                 \/ current # Idle /\ ArtifactEdge /\ r = current.edge
  <1>1. CASE current # Idle /\ Writes
    <2>1. CASE IngestedStubStep
        BY <2>1 DEF IngestedStubStep, UpsertIngestedStub
    <2>2. CASE SealedEvidenceStep
        BY <2>2 DEF SealedEvidenceStep, UpsertEvidence
    <2>3. CASE ArtifactStubTo
        BY <2>3 DEF ArtifactStubTo, UpsertEntity
    <2>4. CASE ArtifactEdge
        BY <1>1, <2>4 DEF ArtifactEdge, UpsertEdge
    <2>5. CASE \E n \in ParsedEntities(Entry.artifact) : ArtifactEntity(n)
        BY <2>5 DEF ArtifactEntity, UpsertEntity
    <2>6. CASE \E edge \in ParsedEdges(Entry.artifact) : ArtifactStubFrom(edge)
        BY <2>6 DEF ArtifactStubFrom, UpsertEntity
    <2> QED
        BY <1>1, <2>1, <2>2, <2>3, <2>4, <2>5, <2>6 DEF Writes
  <1> QED
      BY <1>1, WritesOrNot

LEMMA FiniteStep ==
    ASSUME IsFiniteSet(rels), [Next]_vars
    PROVE  IsFiniteSet(rels')
  <1>1. PICK a, b : rels' \subseteq rels \cup {a, b}
      BY NewRels
  <1>2. IsFiniteSet(rels \cup {a}) /\ IsFiniteSet((rels \cup {a}) \cup {b})
      BY FS_AddElement, Zenon
  <1>3. rels' \subseteq (rels \cup {a}) \cup {b}
      BY <1>1
  <1> QED
      BY <1>2, <1>3, FS_Subset, Zenon

LEMMA SourcedStep ==
    ASSUME IInv, EdgesAreSourced, [Next]_vars
    PROVE  EdgesAreSourced'
  <1> SUFFICES ASSUME NEW r \in rels', r[2] \in {"ADDRESSES", "INTRODUCES", "LEVERAGES"}
               PROVE  \E e \in Entries : /\ r \in ParsedEdges(e.artifact)
                                         /\ Listed(e)'
                                         /\ {Defines(e, r[1]), Defines(e, r[3])} \subseteq rels'
      BY Zenon DEF EdgesAreSourced, Defines, EvidenceNode
  <1>1. rels \subseteq rels' /\ \A e : Listed(e) => Listed(e)'
    <2>1. rels \subseteq rels'
        BY GraphKept
    <2> QED
        BY <2>1 DEF Listed
  <1>2. CASE r \in rels
      BY <1>1, <1>2 DEF EdgesAreSourced
  <1>3. CASE r \notin rels
    <2>1. current # Idle /\ ArtifactEdge /\ r = current.edge
        BY <1>3, NewRels
    <2>2. current.msg[1] = "sealed" /\ current.pc = "edge"
        BY <2>1 DEF ArtifactEdge, At
    <2>3. Entry \in Entries
        BY <2>1, InHand
    <2>4. ArtifactProgress(Entry) /\ EdgeProgress(Entry)
        BY <2>1, <2>2 DEF IInv, Progress
    <2>5. /\ r \in ParsedEdges(Entry.artifact) /\ Defines(Entry, r[1]) \in rels /\ Defines(Entry, r[3]) \in rels
          /\ Listed(Entry)
        BY <2>1, <2>2, <2>4 DEF ArtifactProgress, EdgeProgress, Listed
    <2> HIDE DEF Entry
    <2> QED
        BY <1>1, <2>3, <2>5
  <1> QED
      BY <1>2, <1>3

LEMMA DescribedStep ==
    ASSUME IInv, EvidenceIsDescribed, [Next]_vars
    PROVE  EvidenceIsDescribed'
  <1>1. CASE current # Idle /\ SealedEvidenceStep
    <2>1. Entry \in Entries
        BY <1>1, InHand
    <2> DEFINE new == Described(Entry)
    <2>2. evidence' = evidence \/ evidence' = Put(evidence, Entry.index, new)
        BY <1>1 DEF SealedEvidenceStep, UpsertEvidence, Described
    <2>3. \A i \in DOMAIN evidence' : \/ i \in DOMAIN evidence /\ evidence'[i] = evidence[i]
                                      \/ i = Entry.index /\ evidence'[i] = new
      <3> HIDE DEF new
      <3> QED
          BY <2>2 DEF Put
    <2> HIDE DEF Entry
    <2> QED
        BY <2>1, <2>3 DEF EvidenceIsDescribed, Described
  <1>2. CASE evidence' = evidence
      BY <1>2 DEF EvidenceIsDescribed, Described
  <1>3. evidence' = evidence \/ (current # Idle /\ SealedEvidenceStep)
    <2>1. IngestedStubStep \/ ArtifactStubTo \/ ArtifactEdge => evidence' = evidence
        BY DEF IngestedStubStep, UpsertIngestedStub, ArtifactStubTo, UpsertEntity, ArtifactEdge, UpsertEdge
    <2>2. \A n : ArtifactEntity(n) \/ ArtifactStubFrom(n) => evidence' = evidence
        BY DEF ArtifactEntity, ArtifactStubFrom, UpsertEntity
    <2> QED
        BY <2>1, <2>2, WritesOrNot DEF Writes
  <1> QED
      BY <1>1, <1>2, <1>3

\* Only a control catalog defines controls.
LEMMA ControlsOf ==
    ASSUME NEW e, NEW n \in ParsedEntities(e.artifact), n[1] = "Control"
    PROVE  Catalog(e) /\ n[2] \in e.artifact.items
  BY DEF ParsedEntities, ParsedTypes, LabelOf, Entity, Catalog

LEMMA CatalogEntities ==
    ASSUME NEW e, Catalog(e), NEW c \in e.artifact.items
    PROVE  Entity("Control", c) \in ParsedEntities(e.artifact)
  BY DEF ParsedEntities, ParsedTypes, LabelOf, Catalog

\* A step that writes no catalogID and handles no sealed event to its end.
LEMMA CatalogsSame ==
    ASSUME CatalogsAreKept, catalogID' = catalogID,
           \A m \in loaded' \ loaded : m[1] # "sealed",
           \/ current' = Idle
           \/ current'.msg[1] # "sealed" \/ current'.pc \notin {"artifact", "to", "edge"}
           \/ ParsedEntities(Entry'.artifact) \subseteq current'.entities
           \/ /\ current # Idle /\ current.pc \in {"artifact", "to", "edge"}
              /\ current'.msg = current.msg /\ current'.entities = current.entities
    PROVE  CatalogsAreKept'
  <1>1. \A c \in DOMAIN catalogID' :
          \E f \in Entries : Catalog(f) /\ c \in f.artifact.items /\ catalogID'[c] = f.artifact.id
      BY DEF CatalogsAreKept
  <1>2. \A e \in Entries :
          <<"sealed", e>> \in loaded' /\ Catalog(e) => e.artifact.items \subseteq DOMAIN catalogID'
      BY DEF CatalogsAreKept
  <1>3. current' # Idle /\ current'.msg[1] = "sealed" /\ current'.pc \in {"artifact", "to", "edge"} =>
          \A n \in ParsedEntities(Entry'.artifact) \ current'.entities :
              n[1] = "Control" => n[2] \in DOMAIN catalogID'
      BY DEF CatalogsAreKept, Entry
  <1> QED
      BY <1>1, <1>2, <1>3 DEF CatalogsAreKept, Catalog

LEMMA CatalogsStep ==
    ASSUME IInv, CatalogsAreKept, [Next]_vars
    PROVE  CatalogsAreKept'
  <1>1. CASE UNCHANGED vars
      BY <1>1 DEF vars, graph, CatalogsAreKept, Catalog, Entry
  <1>2. CASE Consume
    <2>1. PICK m \in Messages : HandleMessage(m)
        BY <1>2 DEF Consume
    <2>2. current'.pc = "subject" /\ catalogID' = catalogID /\ loaded' = loaded
        BY <2>1 DEF HandleMessage, graph
    <2> QED
        BY <2>2, CatalogsSame
  <1>3. CASE Fail \/ Ack
    <2>1. current' = Idle /\ catalogID' = catalogID /\ loaded' = loaded
        BY <1>3 DEF Fail, Ack, graph
    <2> QED
        BY <2>1, CatalogsSame
  <1>4. CASE current # Idle /\ HandleIngested
    <2>1. current \in Handling /\ current.msg[1] = "ingested"
        BY <1>4, InHand DEF HandleIngested, IngestedSubject, IngestedPublisher, IngestedStubStep, At
    <2>2. GoTo("publisher") \/ GoTo("stub") \/ GoTo("ack")
        BY <1>4 DEF HandleIngested, IngestedSubject, IngestedPublisher, IngestedStubStep
    <2>3. current'.msg[1] # "sealed"
        BY <2>1, <2>2, GoToFields DEF Pcs
    <2>4. catalogID' = catalogID /\ \A m \in loaded' \ loaded : m[1] # "sealed"
        BY <1>4, <2>1 DEF HandleIngested, IngestedSubject, IngestedPublisher, IngestedStubStep, UpsertSubject,
                   UpsertPublisher, UpsertIngestedStub
    <2> QED
        BY <2>3, <2>4, CatalogsSame
  <1>5. CASE current # Idle /\ HandleSealed
    <2>1. current \in Handling /\ Entry \in Entries /\ current.msg \in Messages
        BY <1>5, InHand
    <2>2. CASE SealedSubject \/ SealedPublisher \/ FindPublisher
      <3>1. catalogID' = catalogID /\ loaded' = loaded
          BY <2>2, Zenon DEF SealedSubject, SealedPublisher, FindPublisher, UpsertSubject, UpsertPublisher, graph
      <3>2. current'.pc \in {"find", "publisher", "evidence"}
          BY <2>1, <2>2, Zenon DEF SealedSubject, SealedPublisher, FindPublisher, GoTo, Handling
      <3> QED
          BY <3>1, <3>2, CatalogsSame
    <2>3. CASE SealedEvidenceStep
      <3>1. catalogID' = catalogID /\ loaded' = loaded /\ GoTo("artifact") /\ At("sealed", "evidence")
          BY <2>3 DEF SealedEvidenceStep, UpsertEvidence
      <3>2. current.entities = ParsedEntities(Entry.artifact)
          BY <1>5, <3>1 DEF IInv, Progress, SealedProgress, At
      <3>3. current'.entities = current.entities /\ Entry' = Entry
          BY <2>1, <3>1, GoToFields DEF Pcs
      <3> QED
          BY <3>1, <3>2, <3>3, CatalogsSame
    <2>4. CASE \E n \in ParsedEntities(Entry.artifact) : ArtifactEntity(n)
      <3>1. PICK n \in ParsedEntities(Entry.artifact) : ArtifactEntity(n)
          BY <2>4
      <3>2. /\ At("sealed", "artifact") /\ loaded' = loaded /\ current'.entities = current.entities \ {n}
            /\ current'.msg = current.msg /\ current'.pc = current.pc
          BY <2>1, <3>1 DEF ArtifactEntity, Handling
      <3>3. Entry' = Entry
          BY <3>2 DEF Entry
      <3>4. n[1] = "Control" => Catalog(Entry) /\ n[2] \in Entry.artifact.items
          BY ControlsOf
      <3>5. catalogID' = IF n[1] = "Control" THEN Put(catalogID, n[2], Entry.artifact.id) ELSE catalogID
          BY <3>1 DEF ArtifactEntity
      <3>6. /\ DOMAIN catalogID \subseteq DOMAIN catalogID'
            /\ n[1] = "Control" => n[2] \in DOMAIN catalogID'
            /\ \A c \in DOMAIN catalogID' :
                  \/ c \in DOMAIN catalogID /\ catalogID'[c] = catalogID[c]
                  \/ n[1] = "Control" /\ c = n[2] /\ catalogID'[c] = Entry.artifact.id
          BY <3>5 DEF Put
      <3>7. \A c \in DOMAIN catalogID' :
              \E f \in Entries : Catalog(f) /\ c \in f.artifact.items /\ catalogID'[c] = f.artifact.id
        <4> HIDE DEF Entry
        <4> QED
            BY <2>1, <3>4, <3>6 DEF CatalogsAreKept
      <3>8. \A e \in Entries :
              <<"sealed", e>> \in loaded' /\ Catalog(e) => e.artifact.items \subseteq DOMAIN catalogID'
          BY <3>2, <3>6 DEF CatalogsAreKept
      <3>9. \A k \in ParsedEntities(Entry'.artifact) \ current'.entities :
                k[1] = "Control" => k[2] \in DOMAIN catalogID'
        <4>1. \A k \in ParsedEntities(Entry.artifact) \ current.entities :
                k[1] = "Control" => k[2] \in DOMAIN catalogID
            BY <1>5, <3>2 DEF CatalogsAreKept, At
        <4> QED
            BY <3>2, <3>3, <3>6, <4>1
      <3> QED
          BY <3>7, <3>8, <3>9 DEF CatalogsAreKept, Catalog
    <2>5. CASE (\E edge \in ParsedEdges(Entry.artifact) : ArtifactStubFrom(edge)) \/ ArtifactStubTo \/ ArtifactEdge
      <3>1. catalogID' = catalogID /\ loaded' = loaded /\ current.pc \in {"artifact", "to", "edge"}
          BY <2>5, Zenon DEF ArtifactStubFrom, ArtifactStubTo, ArtifactEdge, UpsertEdge, At
      <3>2. current'.msg = current.msg /\ current'.entities = current.entities
          BY <2>1, <2>5, Zenon DEF ArtifactStubFrom, ArtifactStubTo, ArtifactEdge, GoTo, Handling
      <3> QED
          BY <1>5, <3>1, <3>2, CatalogsSame
    <2>6. CASE ArtifactProcessed
      <3>1. /\ At("sealed", "artifact") /\ current.entities = {} /\ catalogID' = catalogID
            /\ loaded' = loaded \cup {current.msg} /\ GoTo("ack")
          BY <2>6 DEF ArtifactProcessed, graph
      <3>2. current'.pc = "ack"
          BY <2>1, <3>1, GoToFields DEF Pcs
      <3>3. \A n \in ParsedEntities(Entry.artifact) : n[1] = "Control" => n[2] \in DOMAIN catalogID
          BY <1>5, <3>1 DEF CatalogsAreKept, At
      <3>4. ASSUME NEW e \in Entries, <<"sealed", e>> \in loaded', Catalog(e)
            PROVE  e.artifact.items \subseteq DOMAIN catalogID'
        <4>1. CASE <<"sealed", e>> \in loaded
            BY <3>1, <3>4, <4>1 DEF CatalogsAreKept
        <4>2. CASE <<"sealed", e>> = current.msg
          <5>1. e = Entry
              BY <4>2 DEF Entry
          <5>2. \A c \in e.artifact.items : Entity("Control", c) \in ParsedEntities(Entry.artifact)
              BY <3>4, <5>1, CatalogEntities
          <5> QED
              BY <3>1, <3>3, <5>2, Zenon DEF Entity
        <4> QED
            BY <3>1, <3>4, <4>1, <4>2
      <3> QED
          BY <3>1, <3>2, <3>4 DEF CatalogsAreKept, Catalog
    <2> QED
        BY <1>5, <2>2, <2>3, <2>4, <2>5, <2>6 DEF HandleSealed
  <1> QED
      BY <1>1, <1>2, <1>3, <1>4, <1>5 DEF Next, Handle

LEMMA GraphInvStep == IInv /\ GraphInv /\ [Next]_vars => GraphInv'
  <1> SUFFICES ASSUME IInv, GraphInv, [Next]_vars PROVE GraphInv'
      OBVIOUS
  <1>1. IsFiniteSet(rels)'
      BY FiniteStep DEF GraphInv
  <1>2. EdgesAreSourced' /\ EvidenceIsDescribed' /\ CatalogsAreKept'
      BY SourcedStep, DescribedStep, CatalogsStep DEF GraphInv
  <1> QED
      BY <1>1, <1>2 DEF GraphInv

\* A request only reads.
LEMMA ReadsOnly == [QueryNext]_allVars => [Next]_vars
  <1> SUFFICES ASSUME [QueryNext]_allVars PROVE [Next]_vars
      OBVIOUS
  <1>1. CASE UNCHANGED allVars
      BY <1>1 DEF allVars
  <1>2. CASE ReaderNext
    <2>1. (\E s \in Subjects : AskThreatModel(s)) \/ Query => UNCHANGED vars
        BY DEF AskThreatModel, Query, QueryCapabilities, QueryIntroduces, QueryThreats, QueryAddresses,
               QueryLeverages, QueryControls, QueryApplies, QueryVectors
    <2>2. UNCHANGED vars
        BY <1>2, <2>1, Zenon DEF ReaderNext, AskEvidence, GetPage, EndRead
    <2> QED
        BY <2>2
  <1> QED
      BY <1>1, <1>2 DEF QueryNext

LEMMA GraphInvInit == Init => IInv /\ GraphInv
  <1> SUFFICES ASSUME Init PROVE IInv /\ GraphInv
      OBVIOUS
  <1>1. IsFiniteSet(rels)
      BY FS_EmptySet DEF Init
  <1>2. EdgesAreSourced /\ EvidenceIsDescribed
      BY DEF Init, EdgesAreSourced, EvidenceIsDescribed
  <1>3. CatalogsAreKept
      BY DEF Init, CatalogsAreKept
  <1> QED
      BY <1>1, <1>2, <1>3, InitInv DEF GraphInv

-----------------------------------------------------------------------------
(* What the queries find                                                   *)

\* Evidence that targets a subject has an Evidence node with properties.
LEMMA TargetingIs ==
    ASSUME GraphOK, NEW e \in Entries, Targets(e) \in rels
    PROVE  e.index \in Targeting(e.subject)
  <1>1. EvidenceNode(e.index) \in Nodes("Evidence")
      BY DEF GraphOK, Targets, EvidenceNode, Nodes
  <1>2. e.index \in DOMAIN evidence
      BY <1>1 DEF GraphOK, EvidenceNode
  <1> QED
      BY <1>2 DEF Targeting, Targets

\* A node that listed evidence defines is returned with a source.
LEMMA SourcedIs ==
    ASSUME GraphOK, NEW e \in Entries, Listed(e), NEW n, Defines(e, n) \in rels
    PROVE  /\ n[2] \in Sourced(e.subject, n[1]) /\ n[2] \in Defined(e.subject, n[1])
           /\ <<e.index, n[2]>> \in Defining(e.subject, n[1])
  <1>1. e.index \in Targeting(e.subject)
      BY TargetingIs DEF Listed
  <1>2. PublishersOf(e.index) # {}
      BY DEF Listed, PublishersOf, PublishedBy
  <1>3. <<e.index, n[2]>> \in Defining(e.subject, n[1])
      BY <1>1 DEF Defining, Defines, EvidenceNode
  <1> QED
      BY <1>2, <1>3 DEF Sourced, Defined

\* The parser's edges, by their types.
LEMMA EdgeShape ==
    ASSUME NEW a, NEW edge \in ParsedEdges(a)
    PROVE  \/ /\ edge[2] = "ADDRESSES"
              /\ edge = <<Entity("Control", edge[1][2]), "ADDRESSES", Entity("Threat", edge[3][2])>>
           \/ /\ edge[2] = "INTRODUCES"
              /\ edge = <<Entity("Capability", edge[1][2]), "INTRODUCES", Entity("Threat", edge[3][2])>>
           \/ /\ edge[2] = "LEVERAGES"
              /\ edge = <<Entity("Threat", edge[1][2]), "LEVERAGES", Entity("Vector", edge[3][2])>>
  <1>1. edge \in ControlEdges(a) \/ edge \in ThreatEdges(a)
      BY DEF ParsedEdges
  <1>2. CASE edge \in ControlEdges(a)
      BY <1>2 DEF ControlEdges, Entity
  <1>3. CASE edge \in ThreatEdges(a)
      BY <1>3 DEF ThreatEdges, Entity
  <1> QED
      BY <1>1, <1>2, <1>3

\* What a handled event leaves for the queries.
LEMMA HandledIs ==
    ASSUME IInv, NEW s, NEW e \in Handled(s)
    PROVE  /\ e \in Entries /\ e.subject = s /\ Listed(e) /\ ParsedEdges(e.artifact) \subseteq rels
           /\ \A n \in ParsedEntities(e.artifact) : Defines(e, n) \in rels
           /\ \A edge \in ParsedEdges(e.artifact) :
                 Defines(e, edge[1]) \in rels /\ Defines(e, edge[3]) \in rels
  <1>1. e \in Entries /\ e.subject = s /\ <<"sealed", e>> \in loaded
      BY DEF Handled
  <1>2. SealedEffect(e) \subseteq rels /\ \E p \in Publishers : PublishedBy(e, p) \in rels
      BY <1>1 DEF IInv, Facts, InGraph, Effect
  <1> QED
      BY <1>1, <1>2 DEF SealedEffect, Listed, Targets, Defines

LEMMA IdsAreSourced ==
    ASSUME IInv, NEW s, NEW e \in Handled(s), NEW label
    PROVE  IdsOf(e, label) \subseteq Sourced(s, label) /\ IdsOf(e, label) \subseteq Defined(s, label)
  <1> SUFFICES ASSUME NEW id \in IdsOf(e, label)
               PROVE  id \in Sourced(s, label) /\ id \in Defined(s, label)
      OBVIOUS
  <1>1. PICK n : /\ n[1] = label /\ id = n[2]
                 /\ \/ n \in ParsedEntities(e.artifact)
                    \/ \E edge \in ParsedEdges(e.artifact) : n = edge[1] \/ n = edge[3]
      BY DEF IdsOf
  <1>2. Defines(e, n) \in rels /\ e \in Entries /\ e.subject = s /\ Listed(e)
      BY <1>1, HandledIs
  <1> QED
      BY <1>1, <1>2, SourcedIs, Zenon DEF IInv

\* The ends of an artifact's edges are among the ids it leaves.
LEMMA PairsLead ==
    ASSUME NEW e
    PROVE  /\ \A p \in PairsOf(e, "INTRODUCES") :
                 p[1] \in IdsOf(e, "Capability") /\ p[2] \in IdsOf(e, "Threat")
           /\ \A p \in PairsOf(e, "ADDRESSES") :
                 p[1] \in IdsOf(e, "Control") /\ p[2] \in IdsOf(e, "Threat")
  <1>1. ASSUME NEW edge \in ParsedEdges(e.artifact)
        PROVE  edge[1][2] \in IdsOf(e, edge[1][1]) /\ edge[3][2] \in IdsOf(e, edge[3][1])
      BY DEF IdsOf
  <1>2. ASSUME NEW edge \in ParsedEdges(e.artifact)
        PROVE  /\ edge[2] = "INTRODUCES" => edge[1][1] = "Capability" /\ edge[3][1] = "Threat"
               /\ edge[2] = "ADDRESSES" => edge[1][1] = "Control" /\ edge[3][1] = "Threat"
      BY EdgeShape DEF Entity
  <1> QED
      BY <1>1, <1>2 DEF PairsOf

LEMMA PairsAreRelated ==
    ASSUME IInv, NEW s, NEW e \in Handled(s)
    PROVE  /\ PairsOf(e, "INTRODUCES") \subseteq Related("Capability", "INTRODUCES", "Threat")
           /\ PairsOf(e, "ADDRESSES") \subseteq Related("Control", "ADDRESSES", "Threat")
  <1>1. ParsedEdges(e.artifact) \subseteq rels
      BY HandledIs
  <1>2. ASSUME NEW edge \in ParsedEdges(e.artifact)
        PROVE  /\ edge[2] = "INTRODUCES" => edge[1][1] = "Capability" /\ edge[3][1] = "Threat"
               /\ edge[2] = "ADDRESSES" => edge[1][1] = "Control" /\ edge[3][1] = "Threat"
      BY EdgeShape DEF Entity
  <1> QED
      BY <1>1, <1>2 DEF PairsOf, Related

\* Pairs that a query returns are edges of the graph.
LEMMA RelatedIs ==
    ASSUME EdgesAreSourced
    PROVE  /\ \A p \in Related("Capability", "INTRODUCES", "Threat") : Introduces(p) \in rels
           /\ \A p \in Related("Control", "ADDRESSES", "Threat") : Addresses(p) \in rels
  <1>1. ASSUME NEW r \in rels, r[2] \in {"INTRODUCES", "ADDRESSES"}
        PROVE  \/ r = <<Entity("Control", r[1][2]), "ADDRESSES", Entity("Threat", r[3][2])>>
               \/ r = <<Entity("Capability", r[1][2]), "INTRODUCES", Entity("Threat", r[3][2])>>
    <2>1. PICK e \in Entries : r \in ParsedEdges(e.artifact)
        BY <1>1 DEF EdgesAreSourced
    <2> QED
        BY <1>1, <2>1, EdgeShape
  <1>2. ASSUME NEW p \in Related("Capability", "INTRODUCES", "Threat")
        PROVE  Introduces(p) \in rels
    <2>1. PICK r \in rels : r[2] = "INTRODUCES" /\ p = <<r[1][2], r[3][2]>>
        BY <1>2 DEF Related
    <2>2. r = <<Entity("Capability", r[1][2]), "INTRODUCES", Entity("Threat", r[3][2])>>
        BY <1>1, <2>1
    <2>3. Introduces(p) = r
        BY <2>1, <2>2 DEF Introduces
    <2> QED
        BY <2>3
  <1>3. ASSUME NEW p \in Related("Control", "ADDRESSES", "Threat")
        PROVE  Addresses(p) \in rels
    <2>1. PICK r \in rels : r[2] = "ADDRESSES" /\ p = <<r[1][2], r[3][2]>>
        BY <1>3 DEF Related
    <2>2. r = <<Entity("Control", r[1][2]), "ADDRESSES", Entity("Threat", r[3][2])>>
        BY <1>1, <2>1
    <2>3. Addresses(p) = r
        BY <2>1, <2>2 DEF Addresses
    <2> QED
        BY <2>3
  <1> QED
      BY <1>2, <1>3

\* An edge of the subject's own leads to what a later query returns.
LEMMA OwnEdgesLead ==
    ASSUME IInv, EdgesAreSourced, NEW p
    PROVE  /\ Introduces(p) \in rels /\ OwnEdge(Introduces(p)) => p[2] \in Sourced(read.subject, "Threat")
           /\ Addresses(p) \in rels /\ OwnEdge(Addresses(p)) => p[1] \in Sourced(read.subject, "Control")
  <1>1. ASSUME NEW r \in rels, r[2] \in {"INTRODUCES", "ADDRESSES"}, OwnEdge(r)
        PROVE  r[1][2] \in Sourced(read.subject, r[1][1]) /\ r[3][2] \in Sourced(read.subject, r[3][1])
    <2>1. PICK e \in Entries : /\ r \in ParsedEdges(e.artifact) /\ Listed(e)
                               /\ Defines(e, r[1]) \in rels /\ Defines(e, r[3]) \in rels
        BY <1>1 DEF EdgesAreSourced
    <2>2. e.subject = read.subject
        BY <1>1, <2>1 DEF OwnEdge
    <2> QED
        BY <2>1, <2>2, SourcedIs, Zenon DEF IInv
  <1>2. /\ Introduces(p)[2] = "INTRODUCES" /\ Introduces(p)[3][1] = "Threat" /\ Introduces(p)[3][2] = p[2]
        /\ Addresses(p)[2] = "ADDRESSES" /\ Addresses(p)[1][1] = "Control" /\ Addresses(p)[1][2] = p[1]
      BY DEF Introduces, Addresses, Entity
  <1>3. ASSUME Introduces(p) \in rels, OwnEdge(Introduces(p))
        PROVE  p[2] \in Sourced(read.subject, "Threat")
      BY <1>1, <1>2, <1>3
  <1>4. ASSUME Addresses(p) \in rels, OwnEdge(Addresses(p))
        PROVE  p[1] \in Sourced(read.subject, "Control")
      BY <1>1, <1>2, <1>4
  <1> QED
      BY <1>3, <1>4

-----------------------------------------------------------------------------
(* ThreatModel, query by query                                             *)

\* What the loader does between two queries takes nothing from the answer.
LEMMA LoaderKeepsModel ==
    ASSUME ModelInv, [Next]_vars, read' = read
    PROVE  ModelInv'
  <1>1. rels \subseteq rels' /\ Handled(read.subject) \subseteq Handled(read.subject)'
    <2>1. rels \subseteq rels' /\ loaded \subseteq loaded'
        BY GraphKept
    <2> QED
        BY <2>1 DEF Handled
  <1>2. \A p : Introduces(p)' = Introduces(p) /\ Addresses(p)' = Addresses(p)
      BY DEF Introduces, Addresses, Entity
  <1>3. /\ CapabilitiesRead => CapabilitiesRead'
        /\ IntroducesRead => IntroducesRead'
        /\ ThreatsRead => ThreatsRead'
        /\ AddressesRead => AddressesRead'
        /\ ControlsRead => ControlsRead'
        /\ VectorsRead => VectorsRead'
      BY <1>1, <1>2, Zenon DEF CapabilitiesRead, IntroducesRead, ThreatsRead, AddressesRead, ControlsRead,
                        VectorsRead, IdsOf, PairsOf, OwnEdge
  <1> QED
      BY <1>1, <1>3 DEF ModelInv, ModelPcs, ModelFields

\* Each query fills its list and leaves the others.
LEMMA QueryCapabilitiesInv ==
    ASSUME IInv, GraphInv, ModelInv, QueryCapabilities
    PROVE  ModelInv'
  <1>1. /\ DOMAIN read = ModelFields /\ read.handled \subseteq Handled(read.subject) /\ vars' = vars
      BY DEF ModelInv, QueryCapabilities, AtQuery
  <1>2. /\ read'.kind = "model" /\ DOMAIN read' = ModelFields /\ read'.pc = "introduces"
        /\ read'.subject = read.subject /\ read'.handled = read.handled /\ read'.introduces = read.introduces
        /\ read'.threats = read.threats /\ read'.addressedBy = read.addressedBy
        /\ read'.controls = read.controls /\ read'.vectors = read.vectors
        /\ read'.capabilities = Sourced(read.subject, "Capability")
      BY <1>1 DEF QueryCapabilities, AtQuery, ModelFields
  <1>3. rels' = rels /\ Handled(read.subject)' = Handled(read.subject)
      BY <1>1, <1>2 DEF vars, graph, Handled
  <1>4. CapabilitiesRead'
      BY <1>1, <1>2, IdsAreSourced DEF CapabilitiesRead, IdsOf
  <1> QED
      BY <1>1, <1>2, <1>3, <1>4 DEF ModelInv, ModelPcs, ModelFields

LEMMA QueryIntroducesInv ==
    ASSUME IInv, GraphInv, ModelInv, QueryIntroduces
    PROVE  ModelInv'
  <1>1. /\ DOMAIN read = ModelFields /\ read.handled \subseteq Handled(read.subject) /\ vars' = vars
        /\ CapabilitiesRead
      BY DEF ModelInv, QueryIntroduces, AtQuery
  <1>2. /\ read'.kind = "model" /\ DOMAIN read' = ModelFields /\ read'.pc = "threats"
        /\ read'.subject = read.subject /\ read'.handled = read.handled /\ read'.capabilities = read.capabilities
        /\ read'.threats = read.threats /\ read'.addressedBy = read.addressedBy
        /\ read'.controls = read.controls /\ read'.vectors = read.vectors
        /\ read'.introduces = {p \in Related("Capability", "INTRODUCES", "Threat") : p[1] \in read.capabilities}
      BY <1>1 DEF QueryIntroduces, AtQuery, ModelFields
  <1>3. rels' = rels /\ Handled(read.subject)' = Handled(read.subject)
      BY <1>1, <1>2 DEF vars, graph, Handled
  <1>4. CapabilitiesRead'
      BY <1>1, <1>2, <1>3 DEF CapabilitiesRead, IdsOf, PairsOf, Introduces, Addresses, Entity, OwnEdge
  <1>5. IntroducesRead'
    <2>1. \A e \in read.handled : PairsOf(e, "INTRODUCES") \subseteq read'.introduces
        BY <1>1, <1>2, PairsAreRelated, PairsLead DEF CapabilitiesRead
    <2>2. \A p \in read'.introduces : Introduces(p) \in rels
        BY <1>2, RelatedIs DEF GraphInv
    <2> QED
        BY <1>2, <1>3, <2>1, <2>2 DEF IntroducesRead, PairsOf, Introduces, Entity
  <1> QED
      BY <1>1, <1>2, <1>3, <1>4, <1>5 DEF ModelInv, ModelPcs, ModelFields

LEMMA QueryThreatsInv ==
    ASSUME IInv, GraphInv, ModelInv, QueryThreats
    PROVE  ModelInv'
  <1>1. /\ DOMAIN read = ModelFields /\ read.handled \subseteq Handled(read.subject) /\ vars' = vars
        /\ CapabilitiesRead /\ IntroducesRead
      BY DEF ModelInv, QueryThreats, AtQuery
  <1>2. /\ read'.kind = "model" /\ DOMAIN read' = ModelFields /\ read'.pc = "addresses"
        /\ read'.subject = read.subject /\ read'.handled = read.handled /\ read'.capabilities = read.capabilities
        /\ read'.introduces = read.introduces /\ read'.addressedBy = read.addressedBy
        /\ read'.controls = read.controls /\ read'.vectors = read.vectors
        /\ read'.threats = Sourced(read.subject, "Threat")
      BY <1>1 DEF QueryThreats, AtQuery, ModelFields
  <1>3. rels' = rels /\ Handled(read.subject)' = Handled(read.subject)
      BY <1>1, <1>2 DEF vars, graph, Handled
  <1>4. CapabilitiesRead' /\ IntroducesRead'
      BY <1>1, <1>2, <1>3 DEF CapabilitiesRead, IntroducesRead, IdsOf, PairsOf, Introduces, Addresses, Entity, OwnEdge
  <1>5. ThreatsRead'
    <2>1. \A e \in read.handled : IdsOf(e, "Threat") \subseteq read'.threats
        BY <1>1, <1>2, IdsAreSourced
    <2>2. \A p \in read.introduces : OwnEdge(Introduces(p)) => p[2] \in read'.threats
        BY <1>1, <1>2, OwnEdgesLead DEF GraphInv, IntroducesRead
    <2> QED
        BY <1>2, <2>1, <2>2 DEF ThreatsRead, IdsOf, Introduces, Entity, OwnEdge
  <1> QED
      BY <1>1, <1>2, <1>3, <1>4, <1>5 DEF ModelInv, ModelPcs, ModelFields

LEMMA QueryAddressesInv ==
    ASSUME IInv, GraphInv, ModelInv, QueryAddresses
    PROVE  ModelInv'
  <1>1. /\ DOMAIN read = ModelFields /\ read.handled \subseteq Handled(read.subject) /\ vars' = vars
        /\ CapabilitiesRead /\ IntroducesRead /\ ThreatsRead
      BY DEF ModelInv, QueryAddresses, AtQuery
  <1>2. /\ read'.kind = "model" /\ DOMAIN read' = ModelFields /\ read'.pc = "leverages"
        /\ read'.subject = read.subject /\ read'.handled = read.handled /\ read'.capabilities = read.capabilities
        /\ read'.introduces = read.introduces /\ read'.threats = read.threats
        /\ read'.controls = read.controls /\ read'.vectors = read.vectors
        /\ read'.addressedBy = {p \in Related("Control", "ADDRESSES", "Threat") : p[2] \in read.threats}
      BY <1>1 DEF QueryAddresses, AtQuery, ModelFields
  <1>3. rels' = rels /\ Handled(read.subject)' = Handled(read.subject)
      BY <1>1, <1>2 DEF vars, graph, Handled
  <1>4. CapabilitiesRead' /\ IntroducesRead' /\ ThreatsRead'
      BY <1>1, <1>2, <1>3 DEF CapabilitiesRead, IntroducesRead, ThreatsRead, IdsOf, PairsOf, Introduces, Addresses, Entity, OwnEdge
  <1>5. AddressesRead'
    <2>1. \A e \in read.handled : PairsOf(e, "ADDRESSES") \subseteq read'.addressedBy
        BY <1>1, <1>2, PairsAreRelated, PairsLead DEF ThreatsRead
    <2>2. \A p \in read'.addressedBy : Addresses(p) \in rels
        BY <1>2, RelatedIs DEF GraphInv
    <2> QED
        BY <1>2, <1>3, <2>1, <2>2 DEF AddressesRead, PairsOf, Addresses, Entity
  <1> QED
      BY <1>1, <1>2, <1>3, <1>4, <1>5 DEF ModelInv, ModelPcs, ModelFields

LEMMA QueryLeveragesInv ==
    ASSUME IInv, GraphInv, ModelInv, QueryLeverages
    PROVE  ModelInv'
  <1>1. /\ DOMAIN read = ModelFields /\ read.handled \subseteq Handled(read.subject) /\ vars' = vars
        /\ CapabilitiesRead /\ IntroducesRead /\ ThreatsRead /\ AddressesRead
      BY DEF ModelInv, QueryLeverages, AtQuery
  <1>2. /\ read'.kind = "model" /\ DOMAIN read' = ModelFields /\ read'.pc = "controls"
        /\ read'.subject = read.subject /\ read'.handled = read.handled /\ read'.capabilities = read.capabilities
        /\ read'.introduces = read.introduces /\ read'.threats = read.threats
        /\ read'.addressedBy = read.addressedBy /\ read'.controls = read.controls /\ read'.vectors = read.vectors
      BY <1>1 DEF QueryLeverages, AtQuery, ModelFields
  <1>3. rels' = rels /\ Handled(read.subject)' = Handled(read.subject)
      BY <1>1, <1>2 DEF vars, graph, Handled
  <1>4. CapabilitiesRead' /\ IntroducesRead' /\ ThreatsRead' /\ AddressesRead'
      BY <1>1, <1>2, <1>3 DEF CapabilitiesRead, IntroducesRead, ThreatsRead, AddressesRead, IdsOf, PairsOf, Introduces, Addresses, Entity, OwnEdge
  <1> QED
      BY <1>1, <1>2, <1>3, <1>4 DEF ModelInv, ModelPcs, ModelFields

LEMMA QueryControlsInv ==
    ASSUME IInv, GraphInv, ModelInv, QueryControls
    PROVE  ModelInv'
  <1>1. /\ DOMAIN read = ModelFields /\ read.handled \subseteq Handled(read.subject) /\ vars' = vars
        /\ CapabilitiesRead /\ IntroducesRead /\ ThreatsRead /\ AddressesRead
      BY DEF ModelInv, QueryControls, AtQuery
  <1>2. /\ read'.kind = "model" /\ DOMAIN read' = ModelFields /\ read'.pc = "applies"
        /\ read'.subject = read.subject /\ read'.handled = read.handled /\ read'.capabilities = read.capabilities
        /\ read'.introduces = read.introduces /\ read'.threats = read.threats
        /\ read'.addressedBy = read.addressedBy /\ read'.vectors = read.vectors
        /\ read'.controls = Sourced(read.subject, "Control")
      BY <1>1 DEF QueryControls, AtQuery, ModelFields
  <1>3. rels' = rels /\ Handled(read.subject)' = Handled(read.subject)
      BY <1>1, <1>2 DEF vars, graph, Handled
  <1>4. CapabilitiesRead' /\ IntroducesRead' /\ ThreatsRead' /\ AddressesRead'
      BY <1>1, <1>2, <1>3 DEF CapabilitiesRead, IntroducesRead, ThreatsRead, AddressesRead, IdsOf, PairsOf, Introduces, Addresses, Entity, OwnEdge
  <1>5. ControlsRead'
    <2>1. \A e \in read.handled : IdsOf(e, "Control") \subseteq read'.controls
        BY <1>1, <1>2, IdsAreSourced
    <2>2. \A p \in read.addressedBy : OwnEdge(Addresses(p)) => p[1] \in read'.controls
        BY <1>1, <1>2, OwnEdgesLead DEF GraphInv, AddressesRead
    <2> QED
        BY <1>2, <2>1, <2>2 DEF ControlsRead, IdsOf, Addresses, Entity, OwnEdge
  <1> QED
      BY <1>1, <1>2, <1>3, <1>4, <1>5 DEF ModelInv, ModelPcs, ModelFields

LEMMA QueryAppliesInv ==
    ASSUME IInv, GraphInv, ModelInv, QueryApplies
    PROVE  ModelInv'
  <1>1. /\ DOMAIN read = ModelFields /\ read.handled \subseteq Handled(read.subject) /\ vars' = vars
        /\ CapabilitiesRead /\ IntroducesRead /\ ThreatsRead /\ AddressesRead /\ ControlsRead
      BY DEF ModelInv, QueryApplies, AtQuery
  <1>2. /\ read'.kind = "model" /\ DOMAIN read' = ModelFields /\ read'.pc = "vectors"
        /\ read'.subject = read.subject /\ read'.handled = read.handled /\ read'.capabilities = read.capabilities
        /\ read'.introduces = read.introduces /\ read'.threats = read.threats
        /\ read'.addressedBy = read.addressedBy /\ read'.controls = read.controls /\ read'.vectors = read.vectors
      BY <1>1 DEF QueryApplies, AtQuery, ModelFields
  <1>3. rels' = rels /\ Handled(read.subject)' = Handled(read.subject)
      BY <1>1, <1>2 DEF vars, graph, Handled
  <1>4. CapabilitiesRead' /\ IntroducesRead' /\ ThreatsRead' /\ AddressesRead' /\ ControlsRead'
      BY <1>1, <1>2, <1>3, Zenon DEF CapabilitiesRead, IntroducesRead, ThreatsRead, AddressesRead, ControlsRead, IdsOf, PairsOf, Introduces, Addresses, Entity, OwnEdge
  <1> QED
      BY <1>1, <1>2, <1>3, <1>4 DEF ModelInv, ModelPcs, ModelFields

LEMMA QueryVectorsInv ==
    ASSUME IInv, GraphInv, ModelInv, QueryVectors
    PROVE  ModelInv'
  <1>1. /\ DOMAIN read = ModelFields /\ read.handled \subseteq Handled(read.subject) /\ vars' = vars
        /\ CapabilitiesRead /\ IntroducesRead /\ ThreatsRead /\ AddressesRead /\ ControlsRead
      BY DEF ModelInv, QueryVectors, AtQuery
  <1>2. /\ read'.kind = "model" /\ DOMAIN read' = ModelFields /\ read'.pc = "answered"
        /\ read'.subject = read.subject /\ read'.handled = read.handled /\ read'.capabilities = read.capabilities
        /\ read'.introduces = read.introduces /\ read'.threats = read.threats
        /\ read'.addressedBy = read.addressedBy /\ read'.controls = read.controls
        /\ read'.vectors = Defined(read.subject, "Vector")
      BY <1>1 DEF QueryVectors, AtQuery, ModelFields
  <1>3. rels' = rels /\ Handled(read.subject)' = Handled(read.subject)
      BY <1>1, <1>2 DEF vars, graph, Handled
  <1>4. CapabilitiesRead' /\ IntroducesRead' /\ ThreatsRead' /\ AddressesRead' /\ ControlsRead'
      BY <1>1, <1>2, <1>3, Zenon DEF CapabilitiesRead, IntroducesRead, ThreatsRead, AddressesRead, ControlsRead, IdsOf, PairsOf, Introduces, Addresses, Entity, OwnEdge
  <1>5. VectorsRead'
      BY <1>1, <1>2, IdsAreSourced DEF VectorsRead, IdsOf
  <1> QED
      BY <1>1, <1>2, <1>3, <1>4, <1>5 DEF ModelInv, ModelPcs, ModelFields

-----------------------------------------------------------------------------
(* Rows and pages                                                          *)

LEMMA RowsAre ==
    ASSUME NEW s, NEW row \in Rows(s)
    PROVE  row = <<row[1], row[2]>> /\ row[1] \in Targeting(s) /\ row[2] \in PublishersOf(row[1])
  BY DEF Rows

LEMMA RowsFinite ==
    ASSUME GraphInv, NEW s
    PROVE  IsFiniteSet(Rows(s))
  <1> DEFINE f == [r \in rels |-> <<r[1][2], r[3][2]>>]
  <1>1. \A row \in Rows(s) : \E r \in rels : row = f[r]
    <2> TAKE row \in Rows(s)
    <2>1. PICK r \in rels : r[1] = EvidenceNode(row[1]) /\ row[2] = r[3][2]
        BY RowsAre DEF PublishersOf
    <2>2. row = <<r[1][2], r[3][2]>>
        BY <2>1, RowsAre DEF EvidenceNode
    <2> QED
        BY <2>2
  <1> HIDE DEF f
  <1>2. IsFiniteSet({f[r] : r \in rels})
      BY Images DEF GraphInv
  <1>3. Rows(s) \in SUBSET {f[r] : r \in rels}
      BY <1>1
  <1> QED
      BY <1>2, <1>3, FS_Subset, Zenon

\* Indexes of a finite set of rows.
LEMMA IndexesFinite ==
    ASSUME NEW rows, IsFiniteSet(rows)
    PROVE  IsFiniteSet(Indexes(rows)) /\ Cardinality(Indexes(rows)) <= Cardinality(rows)
  <1> DEFINE f == [row \in rows |-> row[1]]
  <1>1. Indexes(rows) = {f[row] : row \in rows}
      BY DEF Indexes
  <1> HIDE DEF f
  <1> QED
      BY <1>1, Images

LEMMA IndexesAreNat ==
    ASSUME GraphInv, NEW s, NEW row \in Rows(s)
    PROVE  row[1] \in Nat
  <1>1. row[1] \in DOMAIN evidence
      BY RowsAre, Zenon DEF Targeting
  <1> QED
      BY <1>1, QueryAssumption DEF GraphInv, EvidenceIsDescribed

LEMMA MatchingRows ==
    ASSUME NEW s, NEW type, NEW range, NEW cursor
    PROVE  /\ Matching(s, type, range, cursor) \subseteq Rows(s)
           /\ Matching(s, NoType, Always, NoCursor) = Rows(s)
           /\ Matching(s, type, range, cursor)
                 = {row \in Matching(s, type, range, NoCursor) : cursor = NoCursor \/ row[1] > cursor}
  BY DEF Matching, Always, InRange

\* The loader adds rows and takes none, and leaves type and date of those that
\* no other ledger's entry shares.
LEMMA RowsKept ==
    ASSUME IInv, GraphInv, [Next]_vars, NEW s
    PROVE  /\ Rows(s) \subseteq Rows(s)'
           /\ \A row \in Rows(s) : ~Shared(row[1]) => evidence'[row[1]] = evidence[row[1]]
  <1>1. rels \subseteq rels' /\ DOMAIN evidence \subseteq DOMAIN evidence'
      BY GraphKept
  <1>2. Targeting(s) \subseteq Targeting(s)' /\ \A i : PublishersOf(i) \subseteq PublishersOf(i)'
      BY <1>1 DEF Targeting, PublishersOf
  <1>3. Rows(s) \subseteq Rows(s)'
      BY <1>2 DEF Rows
  <1>4. ASSUME NEW row \in Rows(s), ~Shared(row[1])
        PROVE  evidence'[row[1]] = evidence[row[1]]
    <2>1. row[1] \in DOMAIN evidence /\ row[1] \in DOMAIN evidence'
        BY <1>1, RowsAre, Zenon DEF Targeting
    <2>2. PICK e \in Entries : e.index = row[1] /\ evidence[row[1]] = Described(e)
        BY <2>1 DEF GraphInv, EvidenceIsDescribed
    <2>3. EvidenceIsDescribed'
        BY GraphInvStep DEF GraphInv
    <2>4. PICK f \in Entries : f.index = row[1] /\ evidence'[row[1]] = Described(f)
        BY <2>1, <2>3, Zenon DEF EvidenceIsDescribed, Described, inferArtifactType
    <2>5. e = f
        BY <1>4, <2>2, <2>4, EntryAssumption DEF Shared
    <2> QED
        BY <2>2, <2>4, <2>5
  <1> QED
      BY <1>3, <1>4

LEMMA LoaderKeepsPages ==
    ASSUME IInv, GraphInv, PagesInv, [Next]_vars, read' = read
    PROVE  PagesInv'
  <1>1. Kept' = Kept
      BY DEF Kept, Shared, Always
  <1>2. ASSUME NEW i \in Kept, i \in Listing PROVE i \in Listing'
    <2> DEFINE s == read.subject
               R == Matching(s, read.type, read.range, NoCursor)
               R1 == Matching(s, read.type, read.range, NoCursor)'
    <2>1. PICK row \in R : row[1] = i
        BY <1>2 DEF Listing, Indexes
    <2>2. row \in Rows(s) /\ row \in Rows(s)'
        BY <2>1, RowsKept, MatchingRows
    <2>3. row \in R1
      <3>1. CASE read.type = NoType /\ read.range = Always
          BY <2>2, <3>1 DEF Matching, Always, InRange
      <3>2. CASE ~Shared(i)
        <4>1. evidence'[row[1]] = evidence[row[1]]
            BY <2>1, <2>2, <3>2, RowsKept
        <4> QED
            BY <2>1, <2>2, <4>1 DEF Matching, InRange, NoCursor
      <3> QED
          BY <1>2, <3>1, <3>2 DEF Kept
    <2> QED
        BY <2>1, <2>3 DEF Listing, Indexes
  <1> QED
      BY <1>1, <1>2 DEF PagesInv, EvidenceFields, NoCursor

LEMMA AskEvidenceInv ==
    ASSUME NEW s, NEW type, NEW range, NEW limit \in Limits, AskEvidence(s, type, range, limit)
    PROVE  PagesInv'
  <1>1. /\ DOMAIN read' = EvidenceFields /\ read'.pc = "page" /\ read'.limit = limit /\ read'.cursor = NoCursor
        /\ read'.subject = s /\ read'.type = type /\ read'.range = range
        /\ read'.present = Indexes(Matching(s, type, range, NoCursor))
      BY DEF AskEvidence, EvidenceFields
  <1>2. read'.present = Listing'
    <2>1. rels' = rels /\ evidence' = evidence
        BY DEF AskEvidence, vars, graph
    <2> QED
        BY <1>1, <2>1 DEF Listing, Indexes, Matching, Rows, Targeting, PublishersOf, EvidenceNode, Subject,
                          InRange, NoCursor
  <1>3. Kept' \subseteq read'.present
      BY DEF Kept
  <1> QED
      BY <1>1, <1>2, <1>3 DEF PagesInv, EvidenceFields, NoCursor

LEMMA PageSizes ==
    ASSUME NEW limit \in Limits
    PROVE  PageSize(limit) \in Nat \ {0}
  BY QueryAssumption DEF PageSize

\* A page that is not the last has a last row, and what it leaves out comes at
\* or after that row's index.
LEMMA PageEnds ==
    ASSUME NEW rows, IsFiniteSet(rows), \A row \in rows : row[1] \in Nat,
           NEW size \in Nat \ {0}, NEW page \in Pages(rows, size), page # rows
    PROVE  /\ NextCursor(rows, page) \in Nat /\ NextCursor(rows, page) \in Indexes(page)
           /\ \A row \in rows \ page : row[1] >= NextCursor(rows, page)
  <1>1. /\ page \subseteq rows /\ Cardinality(page) = Min({size, Cardinality(rows)})
        /\ \A row \in page, other \in rows \ page : row[1] <= other[1]
      BY DEF Pages
  <1>2. IsFiniteSet(page) /\ Cardinality(page) \in Nat /\ Cardinality(rows) \in Nat
      BY <1>1, FS_Subset, FS_CardinalityType
  <1>3. page # {}
    <2> SUFFICES ASSUME page = {} PROVE FALSE
        OBVIOUS
    <2>1. Cardinality(page) = 0 /\ Cardinality(rows) # 0
        BY <1>2, FS_EmptySet
    <2> DEFINE c == Cardinality(rows)
    <2>2. c \in Nat /\ c # 0 /\ Min({size, c}) = 0
        BY <1>1, <1>2, <2>1
    <2> HIDE DEF c
    <2>3. IsFiniteSet({size, c})
      <3>1. IsFiniteSet({size} \cup {c})
          BY FS_Singleton, FS_AddElement, Zenon
      <3>2. {size, c} = {size} \cup {c}
          OBVIOUS
      <3> QED
          BY <3>1, <3>2, Zenon
    <2>4. Min({size, c}) \in {size, c}
        BY <2>2, <2>3, Extremes
    <2> QED
        BY <2>2, <2>4
  <1> DEFINE I == Indexes(page)
  <1>4. I \subseteq Int /\ I # {} /\ IsFiniteSet(I) /\ I \subseteq Nat
    <2>1. IsFiniteSet(I)
        BY <1>2, IndexesFinite
    <2>2. I \subseteq Nat /\ I # {}
        BY <1>1, <1>3 DEF Indexes
    <2> QED
        BY <2>1, <2>2
  <1>5. NextCursor(rows, page) = Max(I)
      BY DEF NextCursor
  <1> HIDE DEF I
  <1>6. Max(I) \in I
      BY <1>4, Extremes, Zenon
  <1>7. \A row \in rows \ page : \A i \in I : row[1] >= i
    <2> SUFFICES ASSUME NEW other \in rows \ page, NEW i \in I PROVE other[1] >= i
        OBVIOUS
    <2>1. PICK row \in page : row[1] = i
        BY DEF I, Indexes
    <2>2. row[1] <= other[1] /\ row[1] \in Nat /\ other[1] \in Nat
        BY <1>1, <2>1
    <2> QED
        BY <2>1, <2>2
  <1> QED
      BY <1>4, <1>5, <1>6, <1>7 DEF I

\* A page changes neither the graph nor what the request selects.
LEMMA ListingKept ==
    ASSUME rels' = rels, evidence' = evidence,
           read'.subject = read.subject, read'.type = read.type, read'.range = read.range
    PROVE  Listing' = Listing
  <1> DEFINE all == Matching(read.subject, read.type, read.range, NoCursor)
  <1>1. ASSUME NEW i PROVE (PublishersOf(i))' = PublishersOf(i)
      BY DEF PublishersOf, EvidenceNode
  <1>2. (Targeting(read.subject))' = Targeting(read.subject)
      BY DEF Targeting, EvidenceNode, Subject
  <1>3. ASSUME NEW row PROVE row \in (Rows(read.subject))' <=> row \in Rows(read.subject)
      BY <1>1, <1>2 DEF Rows
  <1>4. ASSUME NEW row PROVE row \in all' <=> row \in all
      BY <1>3 DEF Matching, InRange, NoCursor
  <1>5. all' = all
    <2> HIDE DEF all
    <2> QED
        BY <1>4
  <1>6. Listing = Indexes(all) /\ Listing' = Indexes(all)'
      BY Zenon DEF Listing
  <1> HIDE DEF all
  <1> QED
      BY <1>5, <1>6, Zenon DEF Indexes

LEMMA GetPageInv ==
    ASSUME IInv, GraphInv, PagesInv, GetPage
    PROVE  PagesInv' /\ read'.kind = "evidence"
  <1> DEFINE rows == Matching(read.subject, read.type, read.range, read.cursor)
  <1>1. PICK page \in Pages(rows, PageSize(read.limit)) :
            read' = [read EXCEPT !.seen = @ \cup Indexes(page),
                                 !.cursor = NextCursor(rows, page),
                                 !.pc = IF NextCursor(rows, page) = NoCursor THEN "answered" ELSE "page"]
      BY Zenon DEF GetPage
  <1>2. /\ DOMAIN read = EvidenceFields /\ read.limit \in Limits /\ read.cursor \in Nat \cup {NoCursor}
        /\ read.kind = "evidence" /\ read.pc = "page"
        /\ Kept \subseteq Listing
        /\ \A i \in Kept : read.cursor = NoCursor \/ i > read.cursor \/ i \in read.seen
      BY DEF PagesInv, GetPage
  <1> DEFINE next == NextCursor(rows, page)
  <1>3. /\ read'.kind = "evidence" /\ DOMAIN read' = EvidenceFields /\ read'.limit = read.limit
        /\ read'.subject = read.subject /\ read'.type = read.type /\ read'.range = read.range
        /\ read'.present = read.present /\ read'.seen = read.seen \cup Indexes(page)
        /\ read'.cursor = next /\ read'.pc = IF next = NoCursor THEN "answered" ELSE "page"
    <2> HIDE DEF next
    <2> QED
        BY <1>1, <1>2 DEF EvidenceFields, next
  <1>4. Listing' = Listing /\ Kept' = Kept
    <2>1. rels' = rels /\ evidence' = evidence
        BY DEF GetPage, vars, graph
    <2>2. Listing' = Listing
        BY <1>3, <2>1, ListingKept
    <2> QED
        BY <1>3, <2>2 DEF Kept, Shared, Always
  <1>5. /\ IsFiniteSet(rows) /\ \A row \in rows : row[1] \in Nat
        /\ \A i \in Listing : read.cursor = NoCursor \/ i > read.cursor => \E row \in rows : row[1] = i
    <2>1. rows \in SUBSET Rows(read.subject)
        BY MatchingRows
    <2>2. IsFiniteSet(rows)
        BY <2>1, RowsFinite, FS_Subset
    <2>3. \A row \in rows : row[1] \in Nat
        BY <2>1, IndexesAreNat
    <2>4. ASSUME NEW i \in Listing, read.cursor = NoCursor \/ i > read.cursor
          PROVE  \E row \in rows : row[1] = i
      <3>1. PICK row \in Matching(read.subject, read.type, read.range, NoCursor) : row[1] = i
          BY DEF Listing, Indexes
      <3>2. row \in rows
          BY <2>4, <3>1, MatchingRows
      <3> QED
          BY <3>1, <3>2
    <2> QED
        BY <2>2, <2>3, <2>4
  <1> HIDE DEF rows
  <1>6. CASE page = rows
    <2>1. next = NoCursor
        BY <1>6 DEF NextCursor
    <2>2. read'.pc = "answered" /\ read'.cursor = NoCursor
        BY <1>3, <2>1
    <2>3. Kept \subseteq read'.seen
        BY <1>2, <1>3, <1>5, <1>6 DEF Indexes
    <2> QED
        BY <1>2, <1>3, <1>4, <2>2, <2>3, Zenon DEF PagesInv, EvidenceFields, NoCursor
  <1>7. CASE page # rows
    <2>1. /\ next \in Nat /\ next \in Indexes(page)
          /\ \A row \in rows \ page : row[1] >= next
        BY <1>2, <1>5, <1>7, PageSizes, PageEnds
    <2>2. next # NoCursor
        BY <2>1 DEF NoCursor
    <2> HIDE DEF next
    <2>3. read'.pc = "page" /\ read'.cursor \in Nat
        BY <1>3, <2>1, <2>2
    <2>4. ASSUME NEW i \in Kept
          PROVE  i > next \/ i \in read'.seen
      <3>1. CASE read.cursor # NoCursor /\ ~(i > read.cursor)
          BY <1>2, <1>3, <2>4, <3>1
      <3>2. CASE read.cursor = NoCursor \/ i > read.cursor
        <4>1. PICK row \in rows : row[1] = i
            BY <1>2, <1>5, <2>4, <3>2
        <4>2. CASE row \in page
            BY <1>3, <4>1, <4>2 DEF Indexes
        <4>3. CASE row \notin page
          <5>1. i >= next /\ i \in Nat
              BY <1>5, <2>1, <4>1, <4>3
          <5>2. i > next \/ i = next
              BY <2>1, <5>1
          <5> QED
              BY <1>3, <2>1, <5>2
        <4> QED
            BY <4>2, <4>3
      <3> QED
          BY <3>1, <3>2
    <2> QED
        BY <1>2, <1>3, <1>4, <2>3, <2>4, Zenon DEF PagesInv, EvidenceFields, NoCursor
  <1> QED
      BY <1>3, <1>6, <1>7

-----------------------------------------------------------------------------
(* Requests and loader together                                            *)

QueriesInv == IInv /\ GraphInv /\ ModelInv /\ PagesInv

LEMMA QueriesInit == QueryInit => QueriesInv
  BY GraphInvInit DEF QueryInit, ReaderInit, NoRequest, QueriesInv, ModelInv, PagesInv

LEMMA ReaderStep ==
    ASSUME QueriesInv, ReaderNext
    PROVE  ModelInv' /\ PagesInv'
  <1>1. CASE Query
    <2>1. ModelInv'
        BY <1>1, QueryCapabilitiesInv, QueryIntroducesInv, QueryThreatsInv, QueryAddressesInv,
           QueryLeveragesInv, QueryControlsInv, QueryAppliesInv, QueryVectorsInv DEF Query, QueriesInv
    <2>2. read.kind = "model" /\ DOMAIN read = ModelFields
        BY <1>1 DEF Query, QueryCapabilities, QueryIntroduces, QueryThreats, QueryAddresses, QueryLeverages,
                    QueryControls, QueryApplies, QueryVectors, AtQuery, QueriesInv, ModelInv
    <2>3. read'.kind = "model"
        BY <1>1, <2>2, Zenon DEF Query, QueryCapabilities, QueryIntroduces, QueryThreats, QueryAddresses, QueryLeverages,
                    QueryControls, QueryApplies, QueryVectors, ModelFields
    <2> QED
        BY <2>1, <2>3 DEF PagesInv
  <1>2. CASE \E s \in Subjects : AskThreatModel(s)
    <2>1. PICK s \in Subjects : AskThreatModel(s)
        BY <1>2
    <2>2. /\ DOMAIN read' = ModelFields /\ read'.kind = "model" /\ read'.pc = "capabilities"
          /\ read'.subject = s /\ read'.handled = Handled(s)
        BY <2>1, Zenon DEF AskThreatModel, ModelFields
    <2>3. Handled(read.subject)' = Handled(s)
        BY <2>1, <2>2 DEF AskThreatModel, vars, Handled
    <2> QED
        BY <2>2, <2>3 DEF ModelInv, ModelPcs, ModelFields, PagesInv
  <1>3. CASE \E s \in Subjects, t \in ArtifactTypes \cup {NoType}, range \in Ranges, l \in Limits :
                AskEvidence(s, t, range, l)
    <2>1. PagesInv'
        BY <1>3, AskEvidenceInv
    <2>2. read'.kind = "evidence"
        BY <1>3 DEF AskEvidence
    <2> QED
        BY <2>1, <2>2 DEF ModelInv
  <1>4. CASE GetPage
      BY <1>4, GetPageInv DEF QueriesInv, ModelInv
  <1>5. CASE EndRead
      BY <1>5 DEF EndRead, NoRequest, ModelInv, PagesInv
  <1> QED
      BY <1>1, <1>2, <1>3, <1>4, <1>5 DEF ReaderNext

LEMMA QueriesStep == QueriesInv /\ [QueryNext]_allVars => QueriesInv'
  <1> SUFFICES ASSUME QueriesInv, [QueryNext]_allVars PROVE QueriesInv'
      OBVIOUS
  <1>1. [Next]_vars
      BY ReadsOnly
  <1>2. IInv' /\ GraphInv'
      BY <1>1, NextInv, GraphInvStep DEF QueriesInv
  <1>3. CASE ReaderNext
      BY <1>2, <1>3, ReaderStep DEF QueriesInv
  <1>4. CASE read' = read
    <2>1. ModelInv' /\ PagesInv'
        BY <1>1, <1>4, LoaderKeepsModel, LoaderKeepsPages DEF QueriesInv
    <2> QED
        BY <1>2, <2>1 DEF QueriesInv
  <1> QED
      BY <1>3, <1>4 DEF QueryNext, allVars, readerVars

\* The strengthening holds in every state of loader and requests.
THEOREM QueriesInductive == QuerySpec => []QueriesInv
  <1>1. QuerySpec => QueryInit /\ [][QueryNext]_allVars
      BY DEF QuerySpec
  <1> QED
      BY <1>1, QueriesInit, QueriesStep, PTL

-----------------------------------------------------------------------------
\* Whatever is loaded between its eight queries, GET threat-model lists every
\* capability, threat and control of the events handled before the request came,
\* the pairs they state to introduce or to address a threat and the vectors
\* their threats refer to.
THEOREM ModelIsComplete == QuerySpec => []ModelComplete
  <1>1. QueriesInv => ModelComplete
    <2> SUFFICES ASSUME QueriesInv, Answered("model") PROVE ModelComplete
        BY DEF ModelComplete
    <2>1. /\ CapabilitiesRead /\ IntroducesRead /\ ThreatsRead /\ AddressesRead /\ ControlsRead /\ VectorsRead
          /\ read.handled \subseteq Handled(read.subject)
        BY DEF QueriesInv, ModelInv, Answered
    <2> SUFFICES ASSUME NEW e \in read.handled
                 PROVE  LET of(label) == {n[2] : n \in {m \in ParsedEntities(e.artifact) : m[1] = label}}
                        IN  /\ of("Capability") \subseteq read.capabilities
                            /\ of("Threat") \subseteq read.threats
                            /\ of("Control") \subseteq read.controls
                            /\ ParsedEntities(e.artifact) # {} => ModelFound
                            /\ \A edge \in ParsedEdges(e.artifact) :
                                  LET pair == <<edge[1][2], edge[3][2]>>
                                  IN  /\ edge[2] = "INTRODUCES" => pair \in read.introduces
                                      /\ edge[2] = "ADDRESSES" => pair \in read.addressedBy
                                      /\ edge[2] = "LEVERAGES" => pair[2] \in read.vectors
        BY DEF ModelComplete
    <2> DEFINE of(label) == {n[2] : n \in {m \in ParsedEntities(e.artifact) : m[1] = label}}
    <2>2. \A label : of(label) \subseteq IdsOf(e, label)
        BY DEF IdsOf
    <2>3. of("Capability") \subseteq read.capabilities /\ of("Threat") \subseteq read.threats
          /\ of("Control") \subseteq read.controls
        BY <2>1, <2>2 DEF CapabilitiesRead, ThreatsRead, ControlsRead
    <2>4. ParsedEntities(e.artifact) # {} => ModelFound
      <3>1. \A n \in ParsedEntities(e.artifact) : n[1] \in {"Capability", "Threat", "Control"} /\ n[2] \in of(n[1])
          BY DEF ParsedEntities, ParsedTypes, LabelOf, Entity
      <3> HIDE DEF of
      <3> QED
          BY <2>3, <3>1 DEF ModelFound
    <2>5. ASSUME NEW edge \in ParsedEdges(e.artifact)
          PROVE  /\ edge[2] = "INTRODUCES" => <<edge[1][2], edge[3][2]>> \in read.introduces
                 /\ edge[2] = "ADDRESSES" => <<edge[1][2], edge[3][2]>> \in read.addressedBy
                 /\ edge[2] = "LEVERAGES" => edge[3][2] \in read.vectors
      <3>1. <<edge[1][2], edge[3][2]>> \in PairsOf(e, edge[2]) /\ edge[3][2] \in IdsOf(e, edge[3][1])
          BY DEF PairsOf, IdsOf
      <3>2. edge[2] = "LEVERAGES" => edge[3][1] = "Vector"
          BY EdgeShape DEF Entity
      <3> QED
          BY <2>1, <3>1, <3>2 DEF IntroducesRead, AddressesRead, VectorsRead
    <2> QED
        BY <2>3, <2>4, <2>5
  <1> QED
      BY <1>1, QueriesInductive, PTL

\* A threat model names no threat and no control that it does not list, also
\* when the catalog with both is loaded between two of its queries.
THEOREM NoReferenceDangles == QuerySpec => []NoDanglingReference
  <1>1. QueriesInv => NoDanglingReference
    <2> SUFFICES ASSUME QueriesInv, Answered("model") PROVE NoDanglingReference
        BY DEF NoDanglingReference
    <2>1. ThreatsRead /\ ControlsRead
        BY DEF QueriesInv, ModelInv, Answered
    <2> QED
        BY <2>1 DEF ThreatsRead, ControlsRead, Introduces, Addresses, NoDanglingReference
  <1> QED
      BY <1>1, QueriesInductive, PTL

\* Following nextCursor to the end shows all evidence there was at the start,
\* for every limit and every page cut, whatever is loaded meanwhile, but for
\* evidence at an index of two ledgers in a request that selects by type or date.
THEOREM PagesShowAll == QuerySpec => []PagesComplete
  <1>1. QueriesInv => PagesComplete
      BY DEF QueriesInv, PagesInv, Kept, Answered, PagesComplete
  <1> QED
      BY <1>1, QueriesInductive, PTL

-----------------------------------------------------------------------------
(* Answers of a single query                                               *)

LEMMA DefiningFinite ==
    ASSUME GraphInv, NEW s, NEW label
    PROVE  IsFiniteSet(Defining(s, label))
  <1> DEFINE f == [r \in rels |-> <<r[1][2], r[3][2]>>]
  <1>1. Defining(s, label) \in SUBSET {f[r] : r \in rels}
      BY DEF Defining
  <1> HIDE DEF f
  <1>2. IsFiniteSet({f[r] : r \in rels})
      BY Images DEF GraphInv
  <1> QED
      BY <1>1, <1>2, FS_Subset, Zenon

\* Coverage lists every control of a loaded catalog under the catalog's id, and
\* is not answered 404, unless a catalog with another id claims the control.
THEOREM CoverageIsComplete == QuerySpec => []CoverageComplete
  <1>1. QueriesInv => CoverageComplete
    <2> SUFFICES ASSUME QueriesInv, NEW e \in Entries, <<"sealed", e>> \in loaded, Catalog(e),
                        NEW c \in e.artifact.items,
                        \A f \in Entries : Catalog(f) /\ c \in f.artifact.items => f.artifact.id = e.artifact.id
                 PROVE  /\ GetCoverageFound(e.subject, e.artifact.id)
                        /\ c \in Coverage(e.subject, e.artifact.id).controls
        BY DEF CoverageComplete, Catalog
    <2>1. c \in DOMAIN catalogID /\ catalogID[c] = e.artifact.id
      <3>1. c \in DOMAIN catalogID
          BY DEF QueriesInv, GraphInv, CatalogsAreKept
      <3> QED
          BY <3>1 DEF QueriesInv, GraphInv, CatalogsAreKept
    <2>2. <<e.index, c>> \in Defining(e.subject, "Control")
      <3>1. e \in Handled(e.subject)
          BY DEF Handled
      <3>2. Listed(e) /\ Defines(e, Entity("Control", c)) \in rels
          BY <3>1, HandledIs, CatalogEntities DEF QueriesInv
      <3>3. GraphOK
          BY DEF QueriesInv, IInv
      <3> QED
          BY <3>2, <3>3, SourcedIs DEF Entity
    <2> DEFINE controls == {d \in Defining(e.subject, "Control") :
                               d[2] \in DOMAIN catalogID /\ catalogID[d[2]] = e.artifact.id}
    <2>3. <<e.index, c>> \in controls /\ controls \in SUBSET Defining(e.subject, "Control")
        BY <2>1, <2>2
    <2>4. Coverage(e.subject, e.artifact.id).total = Cardinality(controls)
          /\ Coverage(e.subject, e.artifact.id).controls = {d[2] : d \in controls}
        BY Zenon DEF Coverage
    <2> HIDE DEF controls
    <2>5. IsFiniteSet(controls)
        BY <2>3, DefiningFinite, FS_Subset DEF QueriesInv
    <2>6. Cardinality(controls) # 0
        BY <2>3, <2>5, FS_EmptySet
    <2>7. c \in {d[2] : d \in controls}
        BY <2>3
    <2> QED
        BY <2>4, <2>6, <2>7 DEF GetCoverageFound
  <1> QED
      BY <1>1, QueriesInductive, PTL

\* The types of a subject's evidence have a place in the order, so the first
\* row of the summary is one of them.
LEMMA FirstTypeIs ==
    ASSUME GraphInv, NEW s, TypesOf(s) # {}
    PROVE  FirstType(TypesOf(s)) \in TypesOf(s)
  <1> DEFINE places == {i \in DOMAIN TypeOrder : TypeOrder[i] \in TypesOf(s)}
  <1>1. PICK row \in Rows(s) : evidence[row[1]].artifactType \in TypesOf(s)
      BY DEF TypesOf
  <1>2. PICK e \in Entries : evidence[row[1]] = Described(e)
      BY <1>1, RowsAre, Zenon DEF GraphInv, EvidenceIsDescribed, Targeting
  <1>3. places # {}
    <2>1. evidence[row[1]].artifactType = inferArtifactType(e.artifact)
        BY <1>2 DEF Described
    <2> QED
        BY <1>1, <2>1, QueryAssumption
  <1>4. places \subseteq Int /\ IsFiniteSet(places)
    <2>1. DOMAIN TypeOrder = 1 .. Len(TypeOrder) /\ Len(TypeOrder) \in Nat
        BY QueryAssumption
    <2>2. IsFiniteSet(1 .. Len(TypeOrder))
        BY <2>1, FS_Interval
    <2> QED
        BY <2>1, <2>2, FS_Subset
  <1>5. Min(places) \in places
    <2> HIDE DEF places
    <2> QED
        BY <1>3, <1>4, Extremes, Zenon
  <1> QED
      BY <1>5 DEF FirstType

\* The list of subjects, a subject's summary and its evidence listing agree on
\* whether there is evidence, on its types and on each type's date, and the list
\* counts what the listing shows.
THEOREM AnswersAgree == QuerySpec => []EndpointsAgree
  <1>1. QueriesInv => EndpointsAgree
    <2> SUFFICES ASSUME QueriesInv, NEW s \in DOMAIN ListSubjects
                 PROVE  LET listed  == ListSubjects[s]
                            summary == SubjectSummary(s)
                        IN  /\ GetSubjectFound(s) <=> listed.evidenceCount > 0
                            /\ Cardinality(Indexes(Matching(s, NoType, Always, NoCursor))) = listed.evidenceCount
                            /\ DOMAIN summary.artifactTypes = DOMAIN listed.artifactTypes
                            /\ \A t \in DOMAIN listed.artifactTypes :
                                  summary.artifactTypes[t].lastUpdated = listed.artifactTypes[t].lastUpdated
        BY Zenon DEF EndpointsAgree
    <2> DEFINE rows == Rows(s)
               first == TypeRow(s, FirstType(TypesOf(s)))
               n == Cardinality(Indexes(rows))
               publishers == Cardinality({row[2] : row \in rows})
               m == Cardinality(Indexes(first))
               q == Cardinality({row[2] : row \in first})
               dates(t) == {evidence[row[1]].sealed : row \in TypeRow(s, t)}
               byType == [t \in TypesOf(s) |-> [count |-> Cardinality(TypeRow(s, t)),
                                                lastUpdated |-> LatestOf(TypeRow(s, t))]]
               byDate == [t \in TypesOf(s) |-> [count |-> Cardinality(dates(t)), lastUpdated |-> Max(dates(t))]]
    <2>1. ListSubjects[s] = [evidenceCount |-> n, publisherCount |-> publishers, artifactTypes |-> byDate]
        BY Zenon DEF ListSubjects, ListedSubject
    <2>2. SubjectSummary(s) = [evidenceCount |-> IF TypesOf(s) = {} THEN 0 ELSE m,
                               publisherCount |-> IF TypesOf(s) = {} THEN 0 ELSE q,
                               artifactTypes |-> byType]
        BY Zenon DEF SubjectSummary
    <2>3. GraphInv /\ IsFiniteSet(rows)
        BY RowsFinite DEF QueriesInv
    <2>4. /\ \A t : TypeRow(s, t) \in SUBSET rows /\ IsFiniteSet(TypeRow(s, t))
          /\ TypesOf(s) = {} <=> rows = {}
      <3>1. \A t : TypeRow(s, t) \in SUBSET rows
          BY DEF TypeRow
      <3>2. TypesOf(s) = {} <=> rows = {}
          BY Zenon DEF TypesOf
      <3> QED
          BY <2>3, <3>1, <3>2, FS_Subset
    <2>5. n \in Nat /\ m \in Nat
      <3>1. IsFiniteSet(Indexes(rows)) /\ IsFiniteSet(Indexes(first))
          BY <2>3, <2>4, IndexesFinite
      <3> HIDE DEF first, rows
      <3> QED
          BY <3>1, FS_CardinalityType
    <2>6. TypesOf(s) # {} => m > 0 /\ n > 0
      <3> SUFFICES ASSUME TypesOf(s) # {} PROVE m > 0 /\ n > 0
          OBVIOUS
      <3>1. first # {} /\ IsFiniteSet(first) /\ rows # {}
        <4>1. FirstType(TypesOf(s)) \in TypesOf(s)
            BY <2>3, FirstTypeIs
        <4>2. first # {}
            BY <4>1, Zenon DEF TypeRow, TypesOf
        <4> QED
            BY <2>4, <4>2
      <3>2. /\ Indexes(first) # {} /\ IsFiniteSet(Indexes(first))
            /\ Indexes(rows) # {} /\ IsFiniteSet(Indexes(rows))
          BY <2>3, <3>1, IndexesFinite, Zenon DEF Indexes
      <3>3. m # 0 /\ n # 0
          BY <3>2, FS_EmptySet
      <3> HIDE DEF m, n
      <3> QED
          BY <2>5, <3>3
    <2>7. TypesOf(s) = {} => n = 0
      <3> SUFFICES ASSUME TypesOf(s) = {} PROVE n = 0
          OBVIOUS
      <3>1. Indexes(rows) = {}
          BY <2>4 DEF Indexes
      <3> QED
          BY <3>1, FS_EmptySet
    <2>8. ASSUME NEW t \in TypesOf(s) PROVE byType[t].lastUpdated = byDate[t].lastUpdated
      <3>1. LatestOf(TypeRow(s, t)) = Max(dates(t))
          BY DEF LatestOf
      <3> HIDE DEF dates
      <3> QED
          BY <3>1
    <2>9. Cardinality(Indexes(Matching(s, NoType, Always, NoCursor))) = n
        BY MatchingRows
    <2>10. DOMAIN byType = TypesOf(s) /\ DOMAIN byDate = TypesOf(s)
        OBVIOUS
    <2> HIDE DEF n, publishers, m, q, byType, byDate
    <2> DEFINE listed == ListSubjects[s]
               summary == SubjectSummary(s)
    <2>11. listed.evidenceCount = n /\ listed.artifactTypes = byDate
        BY <2>1
    <2>12. /\ summary.evidenceCount = IF TypesOf(s) = {} THEN 0 ELSE m
           /\ summary.artifactTypes = byType
        BY <2>2
    <2> HIDE DEF listed, summary
    <2>13. GetSubjectFound(s) <=> listed.evidenceCount > 0
      <3>1. GetSubjectFound(s) <=> summary.evidenceCount # 0
          BY Zenon DEF GetSubjectFound, summary
      <3> QED
          BY <2>5, <2>6, <2>7, <2>11, <2>12, <3>1
    <2>14. DOMAIN summary.artifactTypes = DOMAIN listed.artifactTypes
        BY <2>10, <2>11, <2>12
    <2>15. \A t \in DOMAIN listed.artifactTypes :
              summary.artifactTypes[t].lastUpdated = listed.artifactTypes[t].lastUpdated
        BY <2>8, <2>10, <2>11, <2>12
    <2> QED
        BY <2>9, <2>11, <2>13, <2>14, <2>15, Zenon DEF listed, summary
  <1> QED
      BY <1>1, QueriesInductive, PTL
=============================================================================
