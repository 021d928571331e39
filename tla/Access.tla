------------------------------- MODULE Access -------------------------------
(***************************************************************************)
(* An HTTP request on its way through a service: authentication            *)
(* (internal/authn), the subject header (internal/gateway/                 *)
(* subject_middleware.go), authorization (internal/authz), and the         *)
(* gateway's handlers (internal/gateway/handler.go, admin.go, validate.go) *)
(* up to their writes.  Requests interleave: the trust list is read once,  *)
(* by the authorization, while other requests change it.  Services stop    *)
(* and start again, perhaps with another issuer configuration; the buckets *)
(* keep what was written.                                                  *)
(***************************************************************************)
EXTENDS Issuers

CONSTANTS
    Services,       \* the services that run
    Subjects,       \* well-formed subject ids
    Requests,       \* identifiers of requests
    Asks,           \* per request: the calls it may be
    Configs,        \* issuer configurations, by name
    SchemaTypes,    \* artifact types with a schema
    MaxStarts,      \* bound on starts, over all services
    MaxFaults       \* bound on failed lookups and writes

Missing == "missing"

\* No schema in schemaFiles (validate.go) has the name of a label for what is
\* not checked against one.
ASSUME AccessAssumption ==
    /\ \A r \in Requests : \A c \in Asks[r] : c.service \in Services
    /\ SchemaTypes \cap {"", "dsse", "unknown", Missing} = {}

(***************************************************************************)
(* A call is [service, method, path, deeper, subject, token, body,         *)
(* entries, scanner].  subject: the X-Subject-ID header of an ingest       *)
(* request, the {subjectId} of a trust modification, the subjectId in the  *)
(* body of a registration.  body: the artifact of an ingest request,       *)
(* [size, dsse, json, canonical, target, subjectId, meta, type, conforms]. *)
(* entries: trustedPublishers.  scanner: "none", or what the scannerJwk    *)
(* holds.                                                                  *)
(***************************************************************************)

VARIABLES
    config,       \* per service: the configuration it runs with, or Down
    trust,        \* bucket publisher-trust: subject -> trusted identities
    registered,   \* bucket subjects-registry
    jwks,         \* bucket static-jwks: issuers with a stored key
    req,          \* per request: the call and how far it has come
    published,    \* INGEST: what was published
    announced,    \* EVIDENCE: ingested events
    starts,       \* how often a service started
    faults        \* how many lookups and writes failed

buckets == <<trust, registered, jwks>>
streams == <<published, announced>>
vars    == <<config, buckets, req, streams, starts, faults>>

Down == "down"

Registries == [k \in DOMAIN Configs |-> NewIssuerRegistry(Configs[k])]

registry(s) == Registries[config[s]]

Init ==
    /\ config = [s \in Services |-> Down]
    /\ trust = <<>>
    /\ registered = {}
    /\ jwks = {}
    /\ req = [r \in Requests |-> [pc |-> "idle"]]
    /\ published = {}
    /\ announced = {}
    /\ starts = 0
    /\ faults = 0

-----------------------------------------------------------------------------
(* Services and requests                                                   *)

Up(s) == config[s] # Down

Open(r) == req[r].pc \notin {"idle", "answered", "lost"}

\* main: a service that cannot reach one of its issuers exits.
Start(s, k, up) ==
    /\ ~Up(s)
    /\ starts < MaxStarts
    /\ BuildIssuers(Configs[k], up)
    /\ config' = [config EXCEPT ![s] = k]
    /\ starts' = starts + 1
    /\ UNCHANGED <<buckets, req, streams, faults>>

\* The requests in hand are lost with the service.
Stop(s) ==
    /\ Up(s)
    /\ config' = [config EXCEPT ![s] = Down]
    /\ req' = [r \in Requests |-> IF Open(r) /\ req[r].call.service = s
                                  THEN [req[r] EXCEPT !.pc = "lost"] ELSE req[r]]
    /\ UNCHANGED <<buckets, streams, starts, faults>>

Trusted(s) == IF s \in DOMAIN trust THEN trust[s] ELSE {}

\* ever and always: who was trusted for the subject at some time and at every
\* time since the request came.
Arrive(r, c) ==
    /\ req[r].pc = "idle"
    /\ Up(c.service)
    /\ req' = [req EXCEPT ![r] = [pc |-> "authn", call |-> c, status |-> 0,
                                  principal |-> Rejected, seen |-> config[c.service],
                                  ever |-> Trusted(c.subject), always |-> Trusted(c.subject),
                                  failed |-> FALSE]]
    /\ UNCHANGED <<config, buckets, streams, starts, faults>>

At(r, pc) == req[r].pc = pc

Go(r, pc) == req' = [req EXCEPT ![r].pc = pc]

Answer(r, status) == req' = [req EXCEPT ![r].pc = "answered", ![r].status = status]

\* A call to NATS fails.
AnswerFailed(r, status) ==
    /\ faults < MaxFaults
    /\ faults' = faults + 1
    /\ req' = [req EXCEPT ![r].pc = "answered", ![r].status = status, ![r].failed = TRUE]

-----------------------------------------------------------------------------
(* Middleware                                                              *)

\* The graph service has no key bucket.
keyBucket(s) == IF s = "graph" THEN {} ELSE jwks

AuthMiddleware(r) ==
    /\ At(r, "authn")
    /\ LET c == req[r].call
           p == Authenticate(registry(c.service), keyBucket(c.service), c.token)
       IN  req' = IF p.ok
                  THEN [req EXCEPT ![r].pc = "authz", ![r].principal = p]
                  ELSE [req EXCEPT ![r].pc = "answered", ![r].status = 401]
    /\ UNCHANGED <<config, buckets, streams, starts, faults>>

ValidateSubjectID(s) == s \in Subjects

\* SubjectIDExtractor: only the route to ingest has it.
HeaderRefused(c) == c.path = "/api/ingest" /\ c.subject # "" /\ ~ValidateSubjectID(c.subject)

contextSubject(c) == IF c.path = "/api/ingest" THEN c.subject ELSE ""

Handler(c) ==
    CASE c.path = "/api/ingest"                              -> "ingest"
      [] c.path = "/admin/subjects" /\ c.method = "POST"      -> "register"
      [] c.path = "/admin/subjects" /\ c.method = "PUT"       -> "modify"
      [] OTHER                                               -> "read"

\* Faulty variant: the issuer is not compared.
IsPublisherTrustedBySub(r) ==
    LET c == req[r].call
    IN  c.service = "gateway" /\ \E e \in Trusted(contextSubject(c)) :
                                    e.sub = req[r].principal.who.sub

\* Faulty variant: only the first entry of the list is compared.
IsPublisherTrustedFirst(r) ==
    LET list == Trusted(contextSubject(req[r].call))
    IN  list # {} /\ req[r].principal.who = CHOOSE e \in list : TRUE

\* Only the gateway has a trust store.
IsPublisherTrusted(r) ==
    LET c == req[r].call
    IN  c.service = "gateway" /\ req[r].principal.who \in Trusted(contextSubject(c))

\* Middleware: a route without action is refused, and so is publishing without
\* a subject; only publishing looks into the trust store, and is refused when
\* the lookup fails.
Allowed(r, action) ==
    LET c == req[r].call
        publish == action = "publish:artifact"
    IN  /\ publish => contextSubject(c) # ""
        /\ isAuthorized(action, registry(c.service), req[r].principal,
                        publish /\ IsPublisherTrusted(r))

Middleware(r) ==
    /\ At(r, "authz")
    /\ LET c == req[r].call
           actions == ActionForRoute(c.method, c.path, c.deeper)
       IN  \/ HeaderRefused(c) /\ Answer(r, 400) /\ UNCHANGED faults
           \/ /\ ~HeaderRefused(c)
              /\ IF \E a \in actions : Allowed(r, a) THEN Go(r, Handler(c)) ELSE Answer(r, 403)
              /\ UNCHANGED faults
           \/ /\ ~HeaderRefused(c)
              /\ "publish:artifact" \in actions
              /\ AnswerFailed(r, 403)
    /\ UNCHANGED <<config, buckets, streams, starts>>

\* Reading handlers: GraphQueries and Ledger say what they answer.
Read(r) ==
    /\ At(r, "read")
    /\ \E status \in {200, 400, 404, 500} : Answer(r, status)
    /\ UNCHANGED <<config, buckets, streams, starts, faults>>

-----------------------------------------------------------------------------
(* IngestArtifact                                                          *)

\* MaxBodySize: what comes after 256 KiB is not read.  "over" is a text that is
\* longer than that, blanks at its end aside: what is cut off is no JSON.
ReadBody(b) ==
    IF b.size = "over" THEN [b EXCEPT !.size = "cut", !.json = FALSE, !.canonical = FALSE] ELSE b

BodySubject(b) == IF b.target # "" THEN b.target ELSE b.subjectId

\* Faulty variant: a top-level type wins.
ArtifactTypeTopLevel(b) ==
    CASE b.dsse -> "dsse"
      [] ~b.dsse /\ b.type # Missing -> b.type
      [] OTHER -> IF b.meta = Missing THEN "unknown" ELSE b.meta

\* metadata.type, or else the top-level type.
ArtifactType(b) ==
    CASE b.dsse -> "dsse"
      [] ~b.dsse /\ b.meta \notin {Missing, "unknown"} -> b.meta
      [] OTHER -> IF b.type = Missing THEN "unknown" ELSE b.type

\* SchemaRegistry.Validate reads the type once more, in its own way.
Validate(b) ==
    IF b.meta \notin {Missing, ""}
    THEN b.meta \in SchemaTypes /\ b.meta \in b.conforms
    ELSE b.type \in SchemaTypes => b.type \in b.conforms

BadRequest(c, b) ==
    \/ b.size \in {"empty", "broken off"}
    \/ ~ValidateSubjectID(c.subject)
    \/ ~b.dsse /\ (~b.json \/ BodySubject(b) \notin {"", c.subject})

\* Wrap canonicalises the content as JSON, a DSSE envelope too.  Canonical JSON
\* asks for more than json.Unmarshal does, such as keys that all differ.
Wraps(b) == b.canonical

IngestStatus(c, b) ==
    CASE BadRequest(c, b)                                        -> 400
      [] ~BadRequest(c, b) /\ ~b.dsse /\ ~Validate(b)             -> 422
      [] ~BadRequest(c, b) /\ (b.dsse \/ Validate(b)) /\ ~Wraps(b) -> 500
      [] OTHER                                                   -> 202

IngestArtifact(r) ==
    /\ At(r, "ingest")
    /\ LET c == req[r].call
           status == IngestStatus(c, ReadBody(c.body))
       IN  IF status = 202 THEN Go(r, "publish") ELSE Answer(r, status)
    /\ UNCHANGED <<config, buckets, streams, starts, faults>>

\* The receipt names the bearer of the token as the publisher.
IngestRef(r) ==
    LET c == req[r].call
    IN  [request |-> r, subject |-> c.subject, content |-> ReadBody(c.body),
         type |-> ArtifactType(ReadBody(c.body)), publisher |-> req[r].principal.who]

\* js.Publish can fail before or after the stream has the message.
Publish(r) ==
    /\ At(r, "publish")
    /\ \/ published' = published \cup {IngestRef(r)} /\ Go(r, "announce") /\ UNCHANGED faults
       \/ published' \in {published, published \cup {IngestRef(r)}} /\ AnswerFailed(r, 500)
    /\ UNCHANGED <<config, buckets, announced, starts>>

\* PublishEvidenceIngested: its failure is not reported.
Announce(r) ==
    /\ At(r, "announce")
    /\ announced' \in {announced, announced \cup {IngestRef(r)}}
    /\ Answer(r, 202)
    /\ UNCHANGED <<config, buckets, published, starts, faults>>

-----------------------------------------------------------------------------
(* RegisterSubject and ModifyTrust; SubjectAdmin has the locker's side     *)

ValidEntries(r) ==
    \A e \in req[r].call.entries :
        ValidateTrustEntry(registry(req[r].call.service), e.issuer, e.sub)

\* The scanner identity convention: issuer == sub.
Scanners(c) == {e \in c.entries : e.issuer.name = e.sub.name}

\* Faulty variant: the subject id is not validated.
RegistrationRefusedAnyId(r) ==
    LET c == req[r].call
    IN  c.entries = {} \/ ~ValidEntries(r)

RegistrationRefused(r) ==
    LET c == req[r].call
    IN  \/ ~ValidateSubjectID(c.subject)
        \/ c.entries = {}
        \/ c.scanner # "none" /\ Scanners(c) = {}
        \/ c.scanner \in {"garbled", "private"}
        \/ ~ValidEntries(r)

\* Everything is validated before the locker is asked.
RegisterSubject(r) ==
    /\ At(r, "register")
    /\ \/ RegistrationRefused(r) /\ Answer(r, 400) /\ UNCHANGED faults
       \/ ~RegistrationRefused(r) /\ Go(r, "set trust") /\ UNCHANGED faults
       \/ ~RegistrationRefused(r) /\ AnswerFailed(r, 500)
    /\ UNCHANGED <<config, buckets, streams, starts>>

ModifyTrust(r) ==
    /\ At(r, "modify")
    /\ LET valid == ValidateSubjectID(req[r].call.subject)
           exists == req[r].call.subject \in registered
       IN  \/ /\ CASE ~valid                             -> Answer(r, 400)
                  [] valid /\ ~exists                    -> Answer(r, 404)
                  [] valid /\ exists /\ ~ValidEntries(r) -> Answer(r, 400)
                  [] OTHER                               -> Go(r, "set trust")
              /\ UNCHANGED faults
           \/ valid /\ AnswerFailed(r, 500)
    /\ UNCHANGED <<config, buckets, streams, starts>>

\* Every other request for the subject sees the list change.
Witnessed(q, s, list) ==
    IF Open(q) /\ req[q].call.subject = s
    THEN [req[q] EXCEPT !.ever = @ \cup list, !.always = @ \cap list]
    ELSE req[q]

Written(c) == [s \in DOMAIN trust \cup {c.subject} |->
                  IF s = c.subject THEN c.entries ELSE trust[s]]

\* SetPublisherTrust: compare-and-swap, so it takes effect at once or not at
\* all, and a write that fails can be in the bucket nevertheless.  A
\* modification is answered 200 whether or not the locker seals it.
SetPublisherTrust(r) ==
    LET c == req[r].call
        modify == Handler(c) = "modify"
        others(own) == [q \in Requests |->
                           IF q = r THEN own ELSE Witnessed(q, c.subject, c.entries)]
    IN  /\ At(r, "set trust")
        /\ \/ /\ trust' = Written(c)
              /\ req' = others([req[r] EXCEPT !.pc = IF modify THEN "answered" ELSE "set subject",
                                              !.status = IF modify THEN 200 ELSE 0])
              /\ UNCHANGED faults
           \/ /\ faults < MaxFaults
              /\ faults' = faults + 1
              /\ trust' = Written(c)
              /\ req' = others([req[r] EXCEPT !.pc = "answered", !.status = 500, !.failed = TRUE])
           \/ AnswerFailed(r, 500) /\ UNCHANGED trust
        /\ UNCHANGED <<config, registered, jwks, streams, starts>>

\* TrustStore.RegisterSubject, and 201 when there is no key to store.
PutSubject(r) ==
    LET c == req[r].call
    IN  /\ At(r, "set subject")
        /\ \/ /\ registered' = registered \cup {c.subject}
              /\ IF c.scanner = "none" THEN Answer(r, 201) ELSE Go(r, "set key")
              /\ UNCHANGED faults
           \/ registered' \in {registered, registered \cup {c.subject}} /\ AnswerFailed(r, 500)
        /\ UNCHANGED <<config, trust, jwks, streams, starts>>

\* An issuer with "://" is no key of the bucket.
StoreJWK(r) ==
    /\ At(r, "set key")
    /\ \/ /\ \E e \in Scanners(req[r].call) :
                IF ValidKey(e.issuer)
                THEN jwks' = jwks \cup {e.issuer} /\ Answer(r, 201)
                ELSE jwks' = jwks /\ Answer(r, 500)
          /\ UNCHANGED faults
       \/ AnswerFailed(r, 500) /\ UNCHANGED jwks
    /\ UNCHANGED <<config, trust, registered, streams, starts>>

-----------------------------------------------------------------------------
Endpoints == UNION {UNION {p.endpoints : p \in publisherIssuers(k)}
                        \cup NewOIDCIssuer(k).endpoints : k \in {Configs[n] : n \in DOMAIN Configs}}

Step(r) ==
    \/ AuthMiddleware(r) \/ Middleware(r) \/ Read(r)
    \/ IngestArtifact(r) \/ Publish(r) \/ Announce(r)
    \/ RegisterSubject(r) \/ ModifyTrust(r) \/ SetPublisherTrust(r) \/ PutSubject(r) \/ StoreJWK(r)

Next ==
    \/ \E s \in Services, k \in DOMAIN Configs, down \in {{}} \cup {{e} : e \in Endpoints} :
          Start(s, k, Endpoints \ down)
    \/ \E s \in Services : Stop(s)
    \/ \E r \in Requests : \E c \in Asks[r] : Arrive(r, c)
    \/ \E r \in Requests : Step(r)

Spec == Init /\ [][Next]_vars

-----------------------------------------------------------------------------
Pcs == {"authn", "authz", "ingest", "publish", "announce", "register", "modify", "set trust",
        "set subject", "set key", "read", "answered", "lost"}

\* Trust lists belong to well-formed subjects, registered subjects have one, and
\* a request is at a step of its handler.
TypeOK ==
    /\ registered \subseteq DOMAIN trust
    /\ DOMAIN trust \subseteq Subjects
    /\ starts \in 0 .. MaxStarts
    /\ faults \in 0 .. MaxFaults
    /\ \A r \in Requests : req[r].pc # "idle" => req[r].pc \in Pcs /\ req[r].call \in Asks[r]

\* A token that a configured publisher signed for this audience.
PublisherToken(known, t) ==
    /\ t.iss \in DOMAIN known.publishers
    /\ t.iss # known.oidc.url
    /\ t.signer = t.iss
    /\ t.audience /\ t.fresh /\ t.sub # NoSub

\* What the gateway publishes was submitted with the token of a configured
\* publisher, is attributed to that token's issuer and sub, names no other
\* subject than the one that was authorised, and its publisher was trusted for
\* that subject at some time since the request came: a list read from before
\* the request never counts, although trust can be withdrawn before js.Publish.
PublishedWasTrusted ==
    \A m \in published \cup announced :
        LET q == req[m.request]
        IN  /\ PublisherToken(Registries[q.seen], q.call.token)
            /\ m.publisher = Identity(q.call.token.iss, q.call.token.sub)
            /\ m.publisher \in q.ever
            /\ m.subject = q.call.subject
            /\ ~m.content.dsse => BodySubject(m.content) \in {"", m.subject}

\* A token of the human IdP with the admin scope, or with the admin group in
\* the configured claim.
AdminToken(known, t) ==
    /\ t.iss = known.oidc.url
    /\ t.signer = known.oidc.keys
    /\ \/ "complytime:admin" \in t.scopes
       \/ /\ known.oidc.groupClaim \in DOMAIN t.claims
          /\ \E g \in t.claims[known.oidc.groupClaim] : ToLower(g) = known.admin

\* Whoever is trusted for a subject was put there by an administrator's request
\* for that very subject, at a gateway where the entry's issuer was configured
\* as a publisher and its sub had the form of that issuer's kind.
OnlyAdmitted ==
    \A s \in DOMAIN trust : \A e \in trust[s] :
        \E r \in Requests :
            LET q == req[r]
            IN  /\ q.pc # "idle"
                /\ q.call.subject = s /\ e \in q.call.entries
                /\ AdminToken(Registries[q.seen], q.call.token)
                /\ e.issuer # Registries[q.seen].oidc.url
                /\ e.issuer \in DOMAIN Registries[q.seen].publishers
                /\ Registries[q.seen].publishers[e.issuer] \in {"workload", e.sub.form}

\* The converse of PublishedWasTrusted: a publisher whose entry stood all the
\* time is never turned away by authentication or authorization, unless a
\* lookup failed.  ValidateTrustEntry accepts no entry that Authenticate and
\* the Cedar policies would not honour.
TrustedIsHeard ==
    \A r \in Requests :
        LET q == req[r]
        IN  /\ q.pc = "answered" /\ q.status \in {401, 403} /\ ~q.failed
            /\ Handler(q.call) = "ingest"
            /\ PublisherToken(Registries[q.seen], q.call.token)
            => Identity(q.call.token.iss, q.call.token.sub) \notin q.always

\* An artifact labelled with a type that has a schema conforms to that schema,
\* although IngestArtifact and SchemaRegistry.Validate find the type each in
\* their own way.
LabelIsChecked ==
    \A m \in published : m.type \in SchemaTypes => m.type \in m.content.conforms

=============================================================================
