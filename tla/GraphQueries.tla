---------------------------- MODULE GraphQueries ----------------------------
(***************************************************************************)
(* The graph service's read API (internal/graph/handler.go) and the        *)
(* queries behind it (internal/graph/writer.go), beside a running loader.  *)
(* GET threat-model is eight queries, each its own transaction; GET        *)
(* evidence is one query per page; the other endpoints are one query, or   *)
(* queries whose order does not matter, and are operators on a state.      *)
(***************************************************************************)
EXTENDS EvidenceGraph, Integers, Sequences, FiniteSetsExt

CONSTANTS
    Subjects,       \* subject ids that are asked for
    Limits,         \* values of the limit parameter
    NoLimit,        \* no limit parameter
    NoType,         \* no type parameter
    Ranges,         \* values of the parameters since and before, as pairs
    NoTime,         \* no since or no before parameter
    TypeOrder,      \* artifact types, in the order of their names
    MaxReads        \* bound on requests

\* limit is an integer (strconv.Atoi), a log index is not negative.
ASSUME QueryAssumption ==
    /\ \A l \in Limits : l = NoLimit \/ l \in Int
    /\ \A e \in Entries : e.index \in Nat
    /\ TypeOrder \in Seq(STRING)
    /\ \A e \in Entries : \E i \in DOMAIN TypeOrder : TypeOrder[i] = inferArtifactType(e.artifact)

VARIABLES
    read,         \* the request being answered
    reads         \* how many were made

readerVars == <<read, reads>>
allVars    == <<vars, readerVars>>

NoRequest == [kind |-> "none"]

ReaderInit == read = NoRequest /\ reads = 0

-----------------------------------------------------------------------------
(* MATCH patterns shared by the queries                                    *)

\* (s)<-[:TARGETS]-(e:Evidence)
Targeting(s) == {i \in DOMAIN evidence : <<EvidenceNode(i), "TARGETS", Subject(s)>> \in rels}

PublishersOf(i) ==
    {r[3][2] : r \in {q \in rels : q[1] = EvidenceNode(i) /\ q[2] = "PUBLISHED_BY"}}

\* (s)<-[:TARGETS]-(e:Evidence)-[:PUBLISHED_BY]->(p:Publisher), one row each
Rows(s) == UNION {{i} \X PublishersOf(i) : i \in Targeting(s)}

\* ... -(e)-[:DEFINES]->(n:label), as <<index, id>>
Defining(s, label) ==
    {<<r[1][2], r[3][2]>> : r \in {q \in rels : /\ q[2] = "DEFINES"
                                                /\ q[3][1] = label
                                                /\ q[1][2] \in Targeting(s)}}

Defined(s, label) == {d[2] : d \in Defining(s, label)}

\* (from)-[:type]->(to) with the id of one end in a list, as pairs of ids
Related(from, type, to) ==
    {<<r[1][2], r[3][2]>> : r \in {q \in rels : q[1][1] = from /\ q[2] = type /\ q[3][1] = to}}

-----------------------------------------------------------------------------
(* Writer.SubjectSummary, ListSubjects and Coverage                        *)

TypeRow(s, t) == {row \in Rows(s) : evidence[row[1]].artifactType = t}

TypesOf(s) == {evidence[row[1]].artifactType : row \in Rows(s)}

Indexes(rows) == {row[1] : row \in rows}

LatestOf(rows) == Max({evidence[row[1]].sealed : row \in rows})

\* ORDER BY artifactType
FirstType(types) == TypeOrder[Min({i \in DOMAIN TypeOrder : TypeOrder[i] \in types})]

\* One row per artifact type, in the order of the types; the two counts of the
\* whole subject are taken from the first.
SubjectSummary(s) ==
    LET types == TypesOf(s)
        first == TypeRow(s, FirstType(types))
    IN  [evidenceCount  |-> IF types = {} THEN 0 ELSE Cardinality(Indexes(first)),
         publisherCount |-> IF types = {} THEN 0 ELSE Cardinality({row[2] : row \in first}),
         artifactTypes  |-> [t \in types |-> [count |-> Cardinality(TypeRow(s, t)),
                                              lastUpdated |-> LatestOf(TypeRow(s, t))]]]

\* Faulty variant: a type's date is that of its first row.
ListedSubjectOldest(s) ==
    [evidenceCount  |-> Cardinality(Indexes(Rows(s))),
     publisherCount |-> Cardinality({row[2] : row \in Rows(s)}),
     artifactTypes  |->
        [t \in TypesOf(s) |->
            LET dates == {evidence[row[1]].sealed : row \in TypeRow(s, t)}
            IN  [count |-> Cardinality(dates), lastUpdated |-> Min(dates)]]]

\* Every subject once; per type the distinct dates, counted, and the latest.
ListedSubject(s) ==
    [evidenceCount  |-> Cardinality(Indexes(Rows(s))),
     publisherCount |-> Cardinality({row[2] : row \in Rows(s)}),
     artifactTypes  |->
        [t \in TypesOf(s) |->
            LET dates == {evidence[row[1]].sealed : row \in TypeRow(s, t)}
            IN  [count |-> Cardinality(dates), lastUpdated |-> Max(dates)]]]

ListSubjects == [s \in {n[2] : n \in Nodes("Subject")} |-> ListedSubject(s)]

\* Coverage: a control counts once for each evidence that defines it; findings
\* with EVALUATES would cover it, but the loader writes none.
Coverage(s, catalog) ==
    LET controls == {d \in Defining(s, "Control") :
                        d[2] \in DOMAIN catalogID /\ catalogID[d[2]] = catalog}
        found == {f[2] : f \in {g \in Related("EvaluationFinding", "EVALUATES", "Control") :
                                   g[1] \in Defined(s, "EvaluationFinding")}}
    IN  [total    |-> Cardinality(controls),
         covered  |-> Cardinality({c \in found : c \in DOMAIN catalogID /\ catalogID[c] = catalog}),
         controls |-> {d[2] : d \in controls}]

\* handler.go: what is answered 404.
GetSubjectFound(s)           == SubjectSummary(s).evidenceCount # 0
GetCoverageFound(s, catalog) == Coverage(s, catalog).total # 0

-----------------------------------------------------------------------------
(* Writer.ThreatModel: queries in order, the loader free to write between  *)

\* What must be in the answer: the events handled when the request came.
Handled(s) == {e \in Entries : e.subject = s /\ <<"sealed", e>> \in loaded}

AskThreatModel(s) ==
    /\ read.kind = "none"
    /\ reads < MaxReads
    /\ reads' = reads + 1
    /\ read' = [kind |-> "model", pc |-> "capabilities", subject |-> s,
                capabilities |-> {}, introduces |-> {}, threats |-> {}, addressedBy |-> {},
                leverages |-> {}, controls |-> {}, applies |-> {}, vectors |-> {},
                handled |-> Handled(s)]
    /\ UNCHANGED vars

AtQuery(pc) == read.kind = "model" /\ read.pc = pc

\* Only entities whose evidence has a publisher are returned with a source.
Sourced(s, label) ==
    {d[2] : d \in {c \in Defining(s, label) : PublishersOf(c[1]) # {}}}

QueryCapabilities ==
    /\ AtQuery("capabilities")
    /\ read' = [read EXCEPT !.pc = "introduces",
                            !.capabilities = Sourced(read.subject, "Capability")]
    /\ UNCHANGED <<reads, vars>>

\* Faulty variant: threats are filtered before they are asked for.
QueryIntroducesListed ==
    /\ AtQuery("introduces")
    /\ read' = [read EXCEPT !.pc = "threats",
                            !.introduces = {p \in Related("Capability", "INTRODUCES", "Threat") :
                                               p[1] \in read.capabilities /\ p[2] \in read.threats}]
    /\ UNCHANGED <<reads, vars>>

QueryIntroduces ==
    /\ AtQuery("introduces")
    /\ read' = [read EXCEPT !.pc = "threats",
                            !.introduces = {p \in Related("Capability", "INTRODUCES", "Threat") :
                                               p[1] \in read.capabilities}]
    /\ UNCHANGED <<reads, vars>>

\* Faulty variant: the match is not optional, a threat no control addresses is lost.
QueryThreatsAddressed ==
    /\ AtQuery("threats")
    /\ read' = [read EXCEPT !.pc = "addresses",
                            !.threats = {t \in Sourced(read.subject, "Threat") :
                                \E p \in Related("Control", "ADDRESSES", "Threat") : p[2] = t}]
    /\ UNCHANGED <<reads, vars>>

QueryThreats ==
    /\ AtQuery("threats")
    /\ read' = [read EXCEPT !.pc = "addresses",
                            !.threats = Sourced(read.subject, "Threat")]
    /\ UNCHANGED <<reads, vars>>

QueryAddresses ==
    /\ AtQuery("addresses")
    /\ read' = [read EXCEPT !.pc = "leverages",
                            !.addressedBy = {p \in Related("Control", "ADDRESSES", "Threat") :
                                                p[2] \in read.threats}]
    /\ UNCHANGED <<reads, vars>>

QueryLeverages ==
    /\ AtQuery("leverages")
    /\ read' = [read EXCEPT !.pc = "controls",
                            !.leverages = {p \in Related("Threat", "LEVERAGES", "Capability") :
                                              p[1] \in read.threats}]
    /\ UNCHANGED <<reads, vars>>

QueryControls ==
    /\ AtQuery("controls")
    /\ read' = [read EXCEPT !.pc = "applies",
                            !.controls = Sourced(read.subject, "Control")]
    /\ UNCHANGED <<reads, vars>>

QueryApplies ==
    /\ AtQuery("applies")
    /\ read' = [read EXCEPT !.pc = "vectors",
                            !.applies = {p \in Related("Control", "APPLIES", "Guidance") :
                                            p[1] \in read.controls}]
    /\ UNCHANGED <<reads, vars>>

QueryVectors ==
    /\ AtQuery("vectors")
    /\ read' = [read EXCEPT !.pc = "answered", !.vectors = Defined(read.subject, "Vector")]
    /\ UNCHANGED <<reads, vars>>

\* handler.go GetThreatModel answers 404 when all four lists are empty.
ModelFound ==
    read.capabilities # {} \/ read.threats # {} \/ read.controls # {} \/ read.vectors # {}

-----------------------------------------------------------------------------
(* GetEvidence and Writer.Evidence: a client that follows nextCursor       *)

NoCursor == -1

\* handler.go: default 50, at most 200, at least 1.
PageSize(limit) ==
    IF limit = NoLimit THEN 50 ELSE IF limit > 200 THEN 200 ELSE IF limit < 1 THEN 1 ELSE limit

InRange(time, range) ==
    /\ range[1] = NoTime \/ time >= range[1]
    /\ range[2] = NoTime \/ time < range[2]

Always == <<NoTime, NoTime>>

Matching(s, type, range, cursor) ==
    {row \in Rows(s) : /\ type = NoType \/ evidence[row[1]].artifactType = type
                       /\ InRange(evidence[row[1]].sealed, range)
                       /\ cursor = NoCursor \/ row[1] > cursor}

\* ORDER BY logIndex LIMIT size: rows of the same index come in any order.
Pages(rows, size) ==
    {page \in SUBSET rows :
        /\ Cardinality(page) = Min({size, Cardinality(rows)})
        /\ \A row \in page, other \in rows \ page : row[1] <= other[1]}

\* Faulty variant: the cursor is the extra row's.
NextCursorExtra(rows, page) ==
    IF page = rows THEN NoCursor ELSE Min(Indexes(rows \ page))

\* The cursor is the index of the last row kept, when one more was found.
NextCursor(rows, page) ==
    IF page = rows THEN NoCursor ELSE Max(Indexes(page))

AskEvidence(s, type, range, limit) ==
    /\ read.kind = "none"
    /\ reads < MaxReads
    /\ reads' = reads + 1
    /\ read' = [kind |-> "evidence", pc |-> "page", subject |-> s, type |-> type,
                range |-> range, limit |-> limit, cursor |-> NoCursor, seen |-> {},
                present |-> Indexes(Matching(s, type, range, NoCursor))]
    /\ UNCHANGED vars

GetPage ==
    /\ read.kind = "evidence"
    /\ read.pc = "page"
    /\ LET rows == Matching(read.subject, read.type, read.range, read.cursor)
       IN  \E page \in Pages(rows, PageSize(read.limit)) :
              read' = [read EXCEPT !.seen = @ \cup Indexes(page),
                                   !.cursor = NextCursor(rows, page),
                                   !.pc = IF NextCursor(rows, page) = NoCursor
                                          THEN "answered" ELSE "page"]
    /\ UNCHANGED <<reads, vars>>

\* A request can fail or be abandoned at any of its queries.
EndRead ==
    /\ read.kind # "none"
    /\ read' = NoRequest
    /\ UNCHANGED <<reads, vars>>

-----------------------------------------------------------------------------
ArtifactTypes == {inferArtifactType(e.artifact) : e \in Entries}

Query ==
    \/ QueryCapabilities \/ QueryIntroduces \/ QueryThreats \/ QueryAddresses
    \/ QueryLeverages \/ QueryControls \/ QueryApplies \/ QueryVectors

ReaderNext ==
    \/ \E s \in Subjects : AskThreatModel(s)
    \/ Query
    \/ \E s \in Subjects, t \in ArtifactTypes \cup {NoType}, range \in Ranges, l \in Limits :
          AskEvidence(s, t, range, l)
    \/ GetPage
    \/ EndRead

QueryInit == Init /\ ReaderInit
QueryNext == (Next /\ UNCHANGED readerVars) \/ ReaderNext
QuerySpec == QueryInit /\ [][QueryNext]_allVars

QueryFairSpec ==
    /\ QuerySpec
    /\ WF_allVars(Handle /\ UNCHANGED readerVars)
    /\ \A m \in Messages : SF_allVars(HandleMessage(m) /\ UNCHANGED readerVars)

-----------------------------------------------------------------------------
Answered(kind) == read.kind = kind /\ read.pc = "answered"

\* ThreatModel lists every capability, threat and control of an event that was
\* handled before the request came, every pair such an event states to introduce
\* or to address a threat, and every vector its threats refer to, although the
\* eight queries see eight different graphs.  Which threat has which vector is
\* not asked for.
ModelComplete ==
    Answered("model") =>
        \A e \in read.handled :
            LET of(label) == {n[2] : n \in {m \in ParsedEntities(e.artifact) : m[1] = label}}
            IN  /\ of("Capability") \subseteq read.capabilities
                /\ of("Threat") \subseteq read.threats
                /\ of("Control") \subseteq read.controls
                /\ ParsedEntities(e.artifact) # {} => ModelFound
                /\ \A edge \in ParsedEdges(e.artifact) :
                      LET pair == <<edge[1][2], edge[3][2]>>
                      IN  /\ edge[2] = "INTRODUCES" => pair \in read.introduces
                          /\ edge[2] = "ADDRESSES" => pair \in read.addressedBy
                          /\ edge[2] = "LEVERAGES" => pair[2] \in read.vectors

\* Edges that only this subject's evidence states.
OwnEdge(edge) ==
    \A e \in Entries : edge \in ParsedEdges(e.artifact) => e.subject = read.subject

\* The ids a capability or a threat refers to are listed in the same answer,
\* even when the artifact that states them is loaded while it is assembled:
\* processArtifact writes both ends before the edge, and ThreatModel asks for
\* the edges before it asks for what they lead to.
NoDanglingReference ==
    Answered("model") =>
        /\ \A p \in read.introduces :
              OwnEdge(<<Entity("Capability", p[1]), "INTRODUCES", Entity("Threat", p[2])>>)
                  => p[2] \in read.threats
        /\ \A p \in read.addressedBy :
              OwnEdge(<<Entity("Control", p[1]), "ADDRESSES", Entity("Threat", p[2])>>)
                  => p[1] \in read.controls

\* Ledgers of two subjects have an entry at this index, hence one Evidence node
\* whose type and date are those of the entry UpsertEvidence merged last.
Shared(i) ==
    \E e, f \in Entries : e.index = i /\ f.index = i /\ e.subject # f.subject

\* Following nextCursor to the end shows every evidence that was there when the
\* first page was asked for, whatever is loaded meanwhile, when nothing is
\* selected by type or date; with such a selection it shows every one whose index
\* no other subject's ledger uses.  The others may be relabelled between two
\* pages and drop out of the selection.
PagesComplete ==
    Answered("evidence") =>
        \A i \in read.present :
            (read.type = NoType /\ read.range = Always) \/ ~Shared(i) => i \in read.seen

\* The list of subjects, a subject's own summary and its evidence listing are
\* three aggregations of the same rows, each grouped in its own way.  They agree
\* on which subjects have evidence, list and listing on how much, and list and
\* summary on the artifact types and the latest date of each.
EndpointsAgree ==
    LET subjects == ListSubjects IN
    \A s \in DOMAIN subjects :
        LET listed  == subjects[s]
            summary == SubjectSummary(s)
        IN  /\ GetSubjectFound(s) <=> listed.evidenceCount > 0
            /\ Cardinality(Indexes(Matching(s, NoType, Always, NoCursor))) = listed.evidenceCount
            /\ DOMAIN summary.artifactTypes = DOMAIN listed.artifactTypes
            /\ \A t \in DOMAIN listed.artifactTypes :
                  summary.artifactTypes[t].lastUpdated = listed.artifactTypes[t].lastUpdated

\* "Total evidence count" (api/graph/openapi.yaml:277): the evidenceCount in the
\* detail of a subject is the number of evidence that its listing shows.
TotalEvidenceCount ==
    \A s \in Subjects :
        SubjectSummary(s).evidenceCount = Cardinality(Indexes(Matching(s, NoType, Always, NoCursor)))

\* Coverage of a catalog lists each of its controls once the catalog is loaded,
\* unless a catalog with another id claims the same control.
CoverageComplete ==
    \A e \in Entries :
        <<"sealed", e>> \in loaded /\ e.artifact.type = "ControlCatalog" =>
            \A c \in e.artifact.items :
                \/ /\ GetCoverageFound(e.subject, e.artifact.id)
                   /\ c \in Coverage(e.subject, e.artifact.id).controls
                \/ \E f \in Entries : /\ f.artifact.type = "ControlCatalog"
                                      /\ c \in f.artifact.items
                                      /\ f.artifact.id # e.artifact.id

\* "Evidence returns a paginated list of evidence for a subject" (writer.go:660):
\* what is listed for a subject was sealed in that subject's ledger.
ListedIsItsOwn ==
    \A s \in Subjects : \A row \in Matching(s, NoType, Always, NoCursor) :
        \E e \in Entries : /\ e.subject = s /\ e.index = row[1]
                           /\ e.digest = evidence[row[1]].digest
=============================================================================
