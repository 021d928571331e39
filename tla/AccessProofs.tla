---------------------------- MODULE AccessProofs ----------------------------
(***************************************************************************)
(* Proofs about Access, for all calls, issuer configurations and numbers   *)
(* of services and requests.  What makes the invariant inductive is what a *)
(* request knows at each step of its way: the configuration it came to is  *)
(* still the one its service runs with, its principal is what that         *)
(* configuration makes of its token, and a step behind the authorization   *)
(* is reached only by whom the policies let through.                       *)
(***************************************************************************)
EXTENDS Access, TLAPS

\* A leaf that names no prover is tried with SMT, then with Zenon.
USE SMTT(30), ZenonT(30)

Rec(q) ==
    q = [pc |-> q.pc, call |-> q.call, status |-> q.status, principal |-> q.principal,
         seen |-> q.seen, ever |-> q.ever, always |-> q.always, failed |-> q.failed]

Entering  == {"authn", "authz"}
Closed    == {"idle", "answered", "lost"}
Serving   == {"ingest", "publish", "announce"}
Accepted  == {"publish", "announce"}
Admitting == {"register", "modify", "set trust", "set subject", "set key"}
Setting   == {"set trust", "set subject", "set key"}

Known(q) == q.principal.ok /\ q.principal = Authenticate(Registries[q.seen], {}, q.call.token)

Entries(q) ==
    \A e \in q.call.entries : ValidateTrustEntry(Registries[q.seen], e.issuer, e.sub)

\* What a request has behind it at each step.
Sound(q) ==
    /\ q.pc \notin Closed \cup {"authn"} => Known(q)
    /\ q.pc \in Serving => q.principal.publisher /\ q.principal.who \in q.ever
    /\ q.pc \in Accepted => IngestStatus(q.call, ReadBody(q.call.body)) = 202
    /\ q.pc \in Admitting => isAdmin(Registries[q.seen], q.principal)
    /\ q.pc \in Setting => Entries(q)

\* What an open request and its service agree on.
Live(q) ==
    /\ q.call.service \in Services
    /\ q.seen = config[q.call.service]
    /\ Up(q.call.service)
    /\ q.pc \in Entering => Trusted(q.call.subject) \subseteq q.ever

\* PublishedWasTrusted and LabelIsChecked of one message.
Sent(m, q) ==
    /\ PublisherToken(Registries[q.seen], q.call.token)
    /\ m.publisher = Identity(q.call.token.iss, q.call.token.sub)
    /\ m.publisher \in q.ever
    /\ m.subject = q.call.subject
    /\ ~m.content.dsse => BodySubject(m.content) \in {"", m.subject}
    /\ m.type \in SchemaTypes => m.type \in m.content.conforms

\* OnlyAdmitted of one entry and one request.
Admits(q, s, e) ==
    /\ q.call.subject = s /\ e \in q.call.entries
    /\ AdminToken(Registries[q.seen], q.call.token)
    /\ e.issuer # Registries[q.seen].oidc.url
    /\ e.issuer \in DOMAIN Registries[q.seen].publishers
    /\ Registries[q.seen].publishers[e.issuer] \in {"workload", e.sub.form}

Shape ==
    /\ req = [r \in Requests |-> req[r]]
    /\ config = [s \in Services |-> config[s]]
    /\ jwks = {}

Handling ==
    \A r \in Requests : req[r].pc # "idle" =>
        Rec(req[r]) /\ Sound(req[r]) /\ (req[r].pc \notin Closed => Live(req[r]))

Sending ==
    \A m \in published \cup announced :
        m.request \in Requests /\ req[m.request].pc # "idle" /\ Sent(m, req[m.request])

Admitted ==
    \A s \in DOMAIN trust : \A e \in trust[s] :
        \E r \in Requests : req[r].pc # "idle" /\ Admits(req[r], s, e)

IInv == Shape /\ Handling /\ Sending /\ Admitted

-----------------------------------------------------------------------------
(* A request on its way                                                    *)

\* Later states of a request know the same call and configuration, and no
\* fewer identities that were trusted.
Grew(q, u) ==
    /\ u.pc # "idle"
    /\ u.call = q.call /\ u.seen = q.seen /\ q.ever \subseteq u.ever

Kept(q, u) ==
    Rec(u) /\ u.call = q.call /\ u.seen = q.seen /\ u.ever = q.ever /\ u.principal = q.principal

LEMMA SetPc ==
    ASSUME NEW q, Rec(q), NEW x
    PROVE  LET u == [q EXCEPT !.pc = x] IN Kept(q, u) /\ u.pc = x
BY DEF Rec, Kept

LEMMA SetStatus ==
    ASSUME NEW q, Rec(q), NEW x
    PROVE  LET u == [q EXCEPT !.status = x] IN Kept(q, u) /\ u.pc = q.pc
BY DEF Rec, Kept

LEMMA SetFailed ==
    ASSUME NEW q, Rec(q), NEW x
    PROVE  LET u == [q EXCEPT !.failed = x] IN Kept(q, u) /\ u.pc = q.pc
BY DEF Rec, Kept

LEMMA SetPrincipal ==
    ASSUME NEW q, Rec(q), NEW x
    PROVE  LET u == [q EXCEPT !.principal = x]
           IN  /\ Rec(u) /\ u.principal = x /\ u.pc = q.pc
               /\ u.call = q.call /\ u.seen = q.seen /\ u.ever = q.ever
BY DEF Rec

LEMMA SetEver ==
    ASSUME NEW q, Rec(q), NEW x
    PROVE  LET u == [q EXCEPT !.ever = x]
           IN  /\ Rec(u) /\ u.ever = x /\ u.pc = q.pc
               /\ u.call = q.call /\ u.seen = q.seen /\ u.principal = q.principal
BY DEF Rec

LEMMA SetAlways ==
    ASSUME NEW q, Rec(q), NEW x
    PROVE  LET u == [q EXCEPT !.always = x] IN Kept(q, u) /\ u.pc = q.pc
BY DEF Rec, Kept

LEMMA KeptIsKept ==
    ASSUME NEW q, NEW u, NEW v, Kept(q, u), Kept(u, v)
    PROVE  Kept(q, v)
BY DEF Kept

LEMMA SentGrew ==
    ASSUME NEW m, NEW q, NEW u, Grew(q, u), Sent(m, q)
    PROVE  Sent(m, u)
BY Zenon DEF Grew, Sent

LEMMA AdmitsGrew ==
    ASSUME NEW s, NEW e, NEW q, NEW u, Grew(q, u), Admits(q, s, e)
    PROVE  Admits(u, s, e)
BY DEF Grew, Admits

LEMMA SoundGrew ==
    ASSUME NEW q, NEW u, Grew(q, u), Sound(q), u.pc = q.pc, u.principal = q.principal
    PROVE  Sound(u)
BY DEF Grew, Sound, Known, Entries

LEMMA ClosedIsSound == ASSUME NEW u, u.pc \in Closed PROVE Sound(u)
BY Zenon DEF Sound, Closed, Serving, Accepted, Admitting, Setting

-----------------------------------------------------------------------------
(* Tokens                                                                  *)

\* Only the token of a configured publisher makes a publisher.
LEMMA PublisherIsToken ==
    ASSUME NEW known, NEW t, NEW p, p = Authenticate(known, {}, t), p.ok, p.publisher
    PROVE  PublisherToken(known, t) /\ p.who = Identity(t.iss, t.sub)
BY DEF Authenticate, oidcAuthenticate, publisherAuthenticate, Verified, Rejected,
       PublisherToken, Identity

\* Only the token of the human IdP makes an administrator.
LEMMA AdminIsToken ==
    ASSUME NEW known, NEW t, NEW p, p = Authenticate(known, {}, t), p.ok, isAdmin(known, p)
    PROVE  AdminToken(known, t)
BY Zenon DEF Authenticate, oidcAuthenticate, publisherAuthenticate, Verified, Rejected, isAdmin,
       AdminToken, ExtractScopes, ExtractGroups, ExtractClaimByPath

Checked(c, b) ==
    /\ ~b.dsse => BodySubject(b) \in {"", c.subject}
    /\ ArtifactType(b) \in SchemaTypes => ArtifactType(b) \in b.conforms

\* What IngestArtifact accepts names no other subject and conforms to the
\* schema it is labelled with.
LEMMA AcceptedIsChecked ==
    ASSUME NEW c, NEW b, IngestStatus(c, b) = 202
    PROVE  Checked(c, b)
<1>1. ~BadRequest(c, b) /\ (b.dsse \/ Validate(b))
  <2>1. BadRequest(c, b) => IngestStatus(c, b) = 400
    BY SMT DEF IngestStatus
  <2>2. ~BadRequest(c, b) /\ ~b.dsse /\ ~Validate(b) => IngestStatus(c, b) = 422
    BY SMT DEF IngestStatus
  <2> QED BY <2>1, <2>2, SMT
<1>2. ~b.dsse => BodySubject(b) \in {"", c.subject}
  BY <1>1, Zenon DEF BadRequest
<1>3. ASSUME ArtifactType(b) \in SchemaTypes PROVE ArtifactType(b) \in b.conforms
  <2> DEFINE type == ArtifactType(b)
  <2>1. type \notin {"", "dsse", "unknown", Missing}
    BY <1>3, AccessAssumption, Zenon
  <2>2. ~b.dsse /\ type = IF b.meta \notin {Missing, "unknown"} THEN b.meta ELSE b.type
    BY <2>1, Zenon DEF ArtifactType
  <2> HIDE DEF type
  <2>3. "unknown" \notin SchemaTypes
    BY AccessAssumption, Zenon
  <2>4. Missing # "unknown" /\ Missing # ""
    BY DEF Missing
  <2>5. type \in SchemaTypes => type \in b.conforms
    <3>1. CASE b.meta \notin {Missing, ""}
      <4>1. b.meta \in SchemaTypes /\ b.meta \in b.conforms
        BY <1>1, <2>2, <3>1, Zenon DEF Validate
      <4>2. b.meta # "unknown"
        BY <4>1, <2>3
      <4> QED BY <4>1, <4>2, <3>1, <2>2, Zenon
    <3>2. CASE b.meta = Missing
      BY <1>1, <2>2, <3>2 DEF Validate
    <3>3. CASE b.meta = ""
      BY <2>1, <2>2, <2>4, <3>3, Zenon
    <3> QED BY <3>1, <3>2, <3>3, Zenon
  <2> QED BY <1>3, <2>5 DEF type
<1> QED BY <1>2, <1>3, Zenon DEF Checked

LEMMA SentByRequest ==
    ASSUME NEW r, Sound(req[r]), Rec(req[r]), req[r].pc \in Accepted
    PROVE  Sent(IngestRef(r), req[r]) /\ IngestRef(r).request = r
<1> DEFINE q == req[r]
           b == ReadBody(q.call.body)
           m == IngestRef(r)
<1>1. Known(q) /\ q.principal.publisher /\ q.principal.who \in q.ever /\ IngestStatus(q.call, b) = 202
  BY DEF Sound, Closed, Serving, Accepted
<1>2. /\ PublisherToken(Registries[q.seen], q.call.token)
      /\ q.principal.who = Identity(q.call.token.iss, q.call.token.sub)
  BY <1>1, PublisherIsToken DEF Known
<1>4. /\ m.request = r /\ m.subject = q.call.subject /\ m.content = b
      /\ m.type = ArtifactType(b) /\ m.publisher = q.principal.who
  BY DEF IngestRef
<1> HIDE DEF b, m, q
<1>3. Checked(q.call, b)
  BY <1>1, AcceptedIsChecked
<1> QED BY <1>1, <1>2, <1>3, <1>4, Zenon DEF Sent, Checked, m, q
-----------------------------------------------------------------------------
(* Steps                                                                   *)

AllGrew == \A x \in Requests : req[x].pc # "idle" => Grew(req[x], req'[x])

LEMMA SendingStays ==
    ASSUME Sending, AllGrew, UNCHANGED streams
    PROVE  Sending'
<1> SUFFICES ASSUME NEW m \in published \cup announced
             PROVE  m.request \in Requests /\ req'[m.request].pc # "idle" /\ Sent(m, req'[m.request])
  BY Zenon DEF Sending, streams, Sent
<1>1. m.request \in Requests /\ req[m.request].pc # "idle" /\ Sent(m, req[m.request])
  BY DEF Sending
<1>2. Grew(req[m.request], req'[m.request])
  BY <1>1 DEF AllGrew
<1> QED BY <1>1, <1>2, SentGrew DEF Grew

LEMMA AdmittedStays ==
    ASSUME Admitted, AllGrew, NEW s \in DOMAIN trust, NEW e \in trust[s]
    PROVE  \E r \in Requests : req'[r].pc # "idle" /\ Admits(req'[r], s, e)
<1>1. PICK r \in Requests : req[r].pc # "idle" /\ Admits(req[r], s, e)
  BY DEF Admitted
<1>2. Grew(req[r], req'[r])
  BY <1>1 DEF AllGrew
<1> QED BY <1>1, <1>2, AdmitsGrew DEF Grew

LEMMA AdmittedUnchanged ==
    ASSUME Admitted, AllGrew, UNCHANGED trust
    PROVE  Admitted'
<1> SUFFICES ASSUME NEW s \in DOMAIN trust, NEW e \in trust[s]
             PROVE  \E r \in Requests : req'[r].pc # "idle" /\ Admits(req'[r], s, e)
  BY ZenonT(40) DEF Admitted, Admits
<1> QED BY AdmittedStays

\* One request takes a step, and may send.
LEMMA Advance ==
    ASSUME IInv, NEW r \in Requests, NEW u, req' = [req EXCEPT ![r] = u],
           req[r].pc \notin Closed, u.pc \in Entering => req[r].pc \in Entering,
           Rec(u), Sound(u), Grew(req[r], u), UNCHANGED <<config, trust>>, jwks' = {},
           \A m \in published' \cup announced' :
               m \in published \cup announced \/ (m.request = r /\ Sent(m, u))
    PROVE  IInv'
<1>1. req' = [x \in Requests |-> req'[x]] /\ \A x \in Requests : req'[x] = IF x = r THEN u ELSE req[x]
  BY DEF IInv, Shape
<1>2. AllGrew
  BY <1>1 DEF AllGrew, Grew
<1>3. Shape'
  BY <1>1 DEF IInv, Shape
<1>4. ASSUME NEW x \in Requests, req'[x].pc # "idle"
      PROVE  Rec(req'[x]) /\ Sound(req'[x])
  BY <1>1, <1>4 DEF IInv, Handling
<1>5. ASSUME NEW x \in Requests, req'[x].pc # "idle", req'[x].pc \notin Closed
      PROVE  Live(req[x])'
  <2>1. req[x].pc # "idle" /\ req[x].pc \notin Closed
    BY <1>1, <1>5 DEF Closed
  <2>2. Live(req[x])
    BY <2>1 DEF IInv, Handling
  <2>3. /\ req'[x].call = req[x].call /\ req'[x].seen = req[x].seen /\ req[x].ever \subseteq req'[x].ever
        /\ req'[x].pc \in Entering => req[x].pc \in Entering
    BY <1>1, <1>2, <2>1 DEF AllGrew, Grew
  <2> QED BY <2>2, <2>3 DEF Live, Up, Trusted
<1>6. Handling'
  BY <1>4, <1>5, ZenonT(40) DEF Handling, Rec, Sound, Known, Entries
<1>7. ASSUME NEW m \in published' \cup announced'
      PROVE  m.request \in Requests /\ req'[m.request].pc # "idle" /\ Sent(m, req'[m.request])
  <2>1. CASE m.request = r /\ Sent(m, u)
    BY <1>1, <2>1 DEF Grew
  <2>2. CASE m \in published \cup announced
    <3>1. m.request \in Requests /\ req[m.request].pc # "idle" /\ Sent(m, req[m.request])
      BY <2>2 DEF IInv, Sending
    <3>2. Grew(req[m.request], req'[m.request])
      BY <1>2, <3>1 DEF AllGrew
    <3> QED BY <3>1, <3>2, SentGrew DEF Grew
  <2> QED BY <2>1, <2>2
<1>8. Sending'
  BY <1>7, Zenon DEF Sending, Sent
<1>9. Admitted'
  BY <1>2, AdmittedUnchanged DEF IInv
<1> QED BY <1>3, <1>6, <1>8, <1>9 DEF IInv

NewlySent(r) ==
    \A m \in published' \cup announced' :
        m \in published \cup announced \/ (m.request = r /\ Sent(m, req[r]))

LEMMA KeptGrew == ASSUME NEW q, NEW u, Kept(q, u), u.pc # "idle" PROVE Grew(q, u) /\ Rec(u)
BY DEF Kept, Grew

LEMMA Answers ==
    ASSUME IInv, NEW r \in Requests, req[r].pc \notin Closed, NEW status,
           Answer(r, status) \/ AnswerFailed(r, status), UNCHANGED <<config, trust, jwks>>, NewlySent(r)
    PROVE  IInv'
<1> DEFINE a == [req[r] EXCEPT !.pc = "answered"]
           b == [a EXCEPT !.status = status]
           c == [b EXCEPT !.failed = TRUE]
<1>1. Rec(req[r]) /\ r \in DOMAIN req
  BY DEF IInv, Handling, Shape, Closed
<1>2. Kept(req[r], a) /\ a.pc = "answered"
  BY <1>1, SetPc
<1>5. \E u \in {b, c} : req' = [req EXCEPT ![r] = u]
  BY <1>1 DEF Answer, AnswerFailed
<1> HIDE DEF a
<1>3. Kept(req[r], b) /\ b.pc = "answered"
  <2>1. Rec(a)
    BY <1>2 DEF Kept
  <2>2. Kept(a, b) /\ b.pc = a.pc
    BY <2>1, SetStatus
  <2> HIDE DEF b
  <2> QED BY <1>2, <2>2, KeptIsKept
<1> HIDE DEF b
<1>4. Kept(req[r], c) /\ c.pc = "answered"
  <2>1. Rec(b)
    BY <1>3 DEF Kept
  <2>2. Kept(b, c) /\ c.pc = b.pc
    BY <2>1, SetFailed
  <2> HIDE DEF c
  <2> QED BY <1>3, <2>2, KeptIsKept
<1> HIDE DEF c
<1>6. PICK u \in {b, c} : req' = [req EXCEPT ![r] = u]
  BY <1>5, Zenon
<1>7. Kept(req[r], u) /\ u.pc = "answered"
  BY <1>3, <1>4, <1>6
<1>8. Grew(req[r], u) /\ Rec(u) /\ Sound(u)
  BY <1>7, KeptGrew, ClosedIsSound DEF Closed
<1>9. u.pc \notin Entering /\ jwks' = {}
  BY <1>7 DEF Entering, IInv, Shape
<1>10. \A m \in published' \cup announced' :
          m \in published \cup announced \/ (m.request = r /\ Sent(m, u))
  BY <1>8, SentGrew DEF NewlySent
<1> QED BY <1>6, <1>8, <1>9, <1>10, Advance, Zenon

LEMMA Goes ==
    ASSUME IInv, NEW r \in Requests, req[r].pc \notin Closed, NEW x, x \notin Entering \cup {"idle"},
           Go(r, x), \A u : Kept(req[r], u) /\ u.pc = x => Sound(u),
           UNCHANGED <<config, trust, jwks>>, NewlySent(r)
    PROVE  IInv'
<1> DEFINE u == [req[r] EXCEPT !.pc = x]
<1>1. Rec(req[r]) /\ r \in DOMAIN req
  BY DEF IInv, Handling, Shape, Closed
<1>2. Kept(req[r], u) /\ u.pc = x
  BY <1>1, SetPc
<1>3. req' = [req EXCEPT ![r] = u]
  BY <1>1 DEF Go
<1>4. Sound(u)
  BY <1>2, Zenon
<1> HIDE DEF u
<1>5. Grew(req[r], u) /\ Rec(u)
  BY <1>2, KeptGrew
<1>6. u.pc \notin Entering /\ jwks' = {}
  BY <1>2 DEF IInv, Shape
<1>7. \A m \in published' \cup announced' :
          m \in published \cup announced \/ (m.request = r /\ Sent(m, u))
  BY <1>5, SentGrew DEF NewlySent
<1> QED BY <1>3, <1>4, <1>5, <1>6, <1>7, Advance, Zenon

LEMMA AuthMiddlewareStep ==
    ASSUME IInv, NEW r \in Requests, AuthMiddleware(r)
    PROVE  IInv'
<1> DEFINE q == req[r]
           p == Authenticate(registry(q.call.service), keyBucket(q.call.service), q.call.token)
           a == [q EXCEPT !.pc = "authz"]
           u == [a EXCEPT !.principal = p]
<1>1. q.pc = "authn" /\ UNCHANGED <<config, trust, jwks, published, announced>>
  BY DEF AuthMiddleware, At, buckets, streams
<1>2. Rec(q) /\ Live(q) /\ r \in DOMAIN req /\ q.pc \notin Closed
  BY <1>1 DEF IInv, Handling, Shape, Closed
<1>3. p = Authenticate(Registries[q.seen], {}, q.call.token)
  BY <1>2 DEF Live, registry, keyBucket, IInv, Shape
<1>4. CASE ~p.ok
  <2>1. Answer(r, 401)
    BY <1>4 DEF AuthMiddleware, Answer
  <2> QED BY <1>1, <1>2, <2>1, Answers DEF NewlySent
<1>5. CASE p.ok
  <2>1. req' = [req EXCEPT ![r] = u]
    BY <1>2, <1>5, Zenon DEF AuthMiddleware
  <2>2. Kept(q, a) /\ a.pc = "authz"
    BY <1>2, SetPc
  <2> HIDE DEF a
  <2>3. /\ Rec(u) /\ u.principal = p /\ u.pc = "authz"
        /\ u.call = q.call /\ u.seen = q.seen /\ u.ever = q.ever
    BY <2>2, SetPrincipal DEF Kept
  <2> HIDE DEF u, p
  <2>4. Known(u)
    BY <1>3, <1>5, <2>3 DEF Known
  <2>5. Sound(u) /\ Grew(q, u)
    BY <2>3, <2>4 DEF Sound, Grew, Serving, Accepted, Admitting, Setting
  <2>6. jwks' = {} /\ q.pc \in Entering
    BY <1>1 DEF IInv, Shape, Entering
  <2>7. \A m \in published' \cup announced' : m \in published \cup announced
    BY <1>1
  <2> QED BY <1>1, <1>2, <2>1, <2>3, <2>5, <2>6, <2>7, Advance, Zenon
<1> QED BY <1>4, <1>5

adminActions == {"admin:request-registration", "admin:request-trust-modification"}

LEMMA Routes ==
    ASSUME NEW c, NEW a \in ActionForRoute(c.method, c.path, c.deeper)
    PROVE  /\ Handler(c) \in {"ingest", "register", "modify", "read"}
           /\ Handler(c) = "ingest" => a = "publish:artifact" /\ c.path = "/api/ingest"
           /\ Handler(c) \in {"register", "modify"} => a \in adminActions
BY DEF ActionForRoute, routeMappings, Handler, adminActions

LEMMA Policies ==
    ASSUME NEW a, NEW known, NEW p, NEW trusted, isAuthorized(a, known, p, trusted)
    PROVE  /\ a = "publish:artifact" => p.publisher /\ trusted
           /\ a \in adminActions => isAdmin(known, p)
BY DEF isAuthorized, permitPublish, permitAdmin, permitEvidence, forbidUntrusted, adminActions

LEMMA MiddlewareStep ==
    ASSUME IInv, NEW r \in Requests, Middleware(r)
    PROVE  IInv'
<1> DEFINE q == req[r]
           c == q.call
<1>1. q.pc = "authz" /\ UNCHANGED <<config, trust, jwks, published, announced>>
  BY DEF Middleware, At, buckets, streams
<1>2. Rec(q) /\ Live(q) /\ Sound(q) /\ q.pc \notin Closed
  BY <1>1 DEF IInv, Handling, Shape, Closed
<1>3. NewlySent(r)
  BY <1>1 DEF NewlySent
<1>4. ASSUME NEW status, Answer(r, status) \/ AnswerFailed(r, status) PROVE IInv'
  BY <1>1, <1>2, <1>3, <1>4, Answers
<1>5. ASSUME NEW a \in ActionForRoute(c.method, c.path, c.deeper), Allowed(r, a), Go(r, Handler(c))
      PROVE  IInv'
  <2> DEFINE h == Handler(c)
  <2>1. /\ h \in {"ingest", "register", "modify", "read"}
        /\ h = "ingest" => a = "publish:artifact" /\ c.path = "/api/ingest"
        /\ h \in {"register", "modify"} => a \in adminActions
    BY Routes, SMTT(30)
  <2>2. /\ a = "publish:artifact" => q.principal.publisher /\ IsPublisherTrusted(r)
        /\ a \in adminActions => isAdmin(Registries[q.seen], q.principal)
    BY <1>2, <1>5, Policies, Zenon DEF Allowed, Live, registry
  <2>3. h = "ingest" => q.principal.publisher /\ q.principal.who \in q.ever
    BY <1>1, <1>2, <2>1, <2>2, Zenon DEF IsPublisherTrusted, contextSubject, Live, Entering
  <2>4. Known(q)
    BY <1>1, <1>2 DEF Sound, Closed
  <2>5. Go(r, h)
    BY <1>5
  <2> HIDE DEF h
  <2>6. ASSUME NEW u, Kept(q, u), u.pc = h PROVE Sound(u)
    <3>1. Known(u)
      BY <2>4, <2>6 DEF Known, Kept
    <3>2. h = "ingest" => u.principal.publisher /\ u.principal.who \in u.ever
      BY <2>3, <2>6 DEF Kept
    <3>3. h \in {"register", "modify"} => isAdmin(Registries[u.seen], u.principal)
      BY <2>1, <2>2, <2>6 DEF Kept
    <3> QED BY <2>1, <2>6, <3>1, <3>2, <3>3, Zenon DEF Sound, Serving, Accepted, Admitting, Setting
  <2>7. h \notin Entering \cup {"idle"}
    BY <2>1 DEF Entering
  <2> QED BY <1>1, <1>2, <1>3, <2>5, <2>6, <2>7, Goes
<1> QED BY <1>4, <1>5 DEF Middleware

LEMMA ReadStep ==
    ASSUME IInv, NEW r \in Requests, Read(r)
    PROVE  IInv'
<1>1. PICK status : Answer(r, status)
  BY DEF Read
<1>2. req[r].pc \notin Closed /\ UNCHANGED <<config, trust, jwks>> /\ NewlySent(r)
  BY DEF Read, At, buckets, streams, NewlySent, Closed
<1> QED BY <1>1, <1>2, Answers

LEMMA IngestArtifactStep ==
    ASSUME IInv, NEW r \in Requests, IngestArtifact(r)
    PROVE  IInv'
<1> DEFINE q == req[r]
           status == IngestStatus(q.call, ReadBody(q.call.body))
<1>1. q.pc = "ingest" /\ q.pc \notin Closed /\ UNCHANGED <<config, trust, jwks>> /\ NewlySent(r)
  BY DEF IngestArtifact, At, buckets, streams, NewlySent, Closed
<1>2. Sound(q)
  BY <1>1 DEF IInv, Handling
<1>3. IF status = 202 THEN Go(r, "publish") ELSE Answer(r, status)
  BY DEF IngestArtifact
<1>4. CASE status = 202
  <2>1. ASSUME NEW u, Kept(q, u), u.pc = "publish" PROVE Sound(u)
    BY <1>1, <1>2, <1>4, <2>1
       DEF Sound, Kept, Known, Closed, Serving, Accepted, Admitting, Setting
  <2>2. "publish" \notin Entering \cup {"idle"}
    BY DEF Entering
  <2>3. Go(r, "publish")
    BY <1>3, <1>4
  <2> QED BY <1>1, <2>1, <2>2, <2>3, Goes
<1>5. CASE status # 202
  BY <1>1, <1>3, <1>5, Answers
<1> QED BY <1>4, <1>5

LEMMA PublishStep ==
    ASSUME IInv, NEW r \in Requests, Publish(r) \/ Announce(r)
    PROVE  IInv'
<1> DEFINE q == req[r]
<1>1. q.pc \in Accepted /\ q.pc \notin Closed /\ UNCHANGED <<config, trust, jwks>>
  BY DEF Publish, Announce, At, buckets, Closed, Accepted
<1>2. Rec(q) /\ Sound(q)
  BY <1>1 DEF IInv, Handling, Closed
<1>3. published' \cup announced' \subseteq (published \cup announced) \cup {IngestRef(r)}
  BY DEF Publish, Announce
<1>4. NewlySent(r)
  BY <1>1, <1>2, <1>3, SentByRequest DEF NewlySent
<1>5. ASSUME NEW status, Answer(r, status) \/ AnswerFailed(r, status) PROVE IInv'
  BY <1>1, <1>4, <1>5, Answers
<1>6. ASSUME Go(r, "announce") PROVE IInv'
  <2>1. ASSUME NEW u, Kept(q, u), u.pc = "announce" PROVE Sound(u)
    BY <1>1, <1>2, <2>1, ZenonT(40) DEF Sound, Kept, Known, Closed, Serving, Accepted, Admitting, Setting
  <2>2. "announce" \notin Entering \cup {"idle"}
    BY DEF Entering
  <2> QED BY <1>1, <1>4, <1>6, <2>1, <2>2, Goes, SMTT(30)
<1> QED BY <1>5, <1>6 DEF Publish, Announce

LEMMA EntriesAreValid ==
    ASSUME NEW r, Live(req[r]), ValidEntries(r)
    PROVE  Entries(req[r])
BY DEF Live, ValidEntries, Entries, registry

LEMMA AdministerStep ==
    ASSUME IInv, NEW r \in Requests, RegisterSubject(r) \/ ModifyTrust(r)
    PROVE  IInv'
<1> DEFINE q == req[r]
<1>1. q.pc \in {"register", "modify"} /\ UNCHANGED <<config, trust, jwks>> /\ NewlySent(r)
  BY Zenon DEF RegisterSubject, ModifyTrust, At, buckets, streams, NewlySent
<1>2. Sound(q) /\ Live(q) /\ q.pc \notin Closed
  BY <1>1 DEF IInv, Handling, Closed
<1>3. ASSUME NEW status, Answer(r, status) \/ AnswerFailed(r, status) PROVE IInv'
  BY <1>1, <1>2, <1>3, Answers
<1>4. ASSUME ValidEntries(r), Go(r, "set trust") PROVE IInv'
  <2>1. Entries(q)
    BY <1>2, <1>4, EntriesAreValid, ZenonT(40)
  <2>2. ASSUME NEW u, Kept(q, u), u.pc = "set trust" PROVE Sound(u)
    BY <1>1, <1>2, <2>1, <2>2, ZenonT(40)
       DEF Sound, Kept, Known, Entries, Closed, Serving, Accepted, Admitting, Setting
  <2>3. "set trust" \notin Entering \cup {"idle"}
    BY DEF Entering
  <2> QED BY <1>1, <1>2, <1>4, <2>2, <2>3, Goes, Zenon
<1>5. RegisterSubject(r) => IInv'
  BY <1>3, <1>4, Zenon DEF RegisterSubject, RegistrationRefused
<1>6. ModifyTrust(r) => IInv'
  BY <1>3, <1>4, ZenonT(40) DEF ModifyTrust
<1> QED BY <1>5, <1>6

LEMMA PutSubjectStep ==
    ASSUME IInv, NEW r \in Requests, PutSubject(r)
    PROVE  IInv'
<1> DEFINE q == req[r]
<1>1. q.pc = "set subject" /\ UNCHANGED <<config, trust, jwks>> /\ NewlySent(r)
  BY Zenon DEF PutSubject, At, streams, NewlySent
<1>2. Sound(q) /\ q.pc \notin Closed
  BY <1>1, Zenon DEF IInv, Handling, Closed
<1>3. ASSUME NEW status, Answer(r, status) \/ AnswerFailed(r, status) PROVE IInv'
  BY <1>1, <1>2, <1>3, Answers, Zenon
<1>4. ASSUME Go(r, "set key") PROVE IInv'
  <2>1. ASSUME NEW u, Kept(q, u), u.pc = "set key" PROVE Sound(u)
    BY <1>1, <1>2, <2>1, ZenonT(40)
       DEF Sound, Kept, Known, Entries, Closed, Serving, Accepted, Admitting, Setting
  <2>2. "set key" \notin Entering \cup {"idle"}
    BY DEF Entering
  <2> QED BY <1>1, <1>2, <1>4, <2>1, <2>2, Goes, ZenonT(40)
<1> QED BY <1>3, <1>4, Zenon DEF PutSubject

\* A validated issuer has a scheme, so no key is ever stored.
LEMMA StoreJWKStep ==
    ASSUME IInv, NEW r \in Requests, StoreJWK(r)
    PROVE  IInv'
<1> DEFINE q == req[r]
<1>1. q.pc = "set key" /\ UNCHANGED <<config, trust>> /\ NewlySent(r)
  BY Zenon DEF StoreJWK, At, streams, NewlySent
<1>2. Sound(q) /\ q.pc \notin Closed
  BY <1>1, Zenon DEF IInv, Handling, Closed
<1>3. \A e \in Scanners(q.call) : ~ValidKey(e.issuer)
  BY <1>1, <1>2, Zenon DEF Sound, Setting, Entries, Scanners, ValidateTrustEntry, ValidateIssuerURL, ValidKey
<1>4. (Answer(r, 500) \/ AnswerFailed(r, 500)) /\ UNCHANGED jwks
  BY <1>3, ZenonT(40) DEF StoreJWK
<1> QED BY <1>1, <1>2, <1>4, Answers, ZenonT(40)

-----------------------------------------------------------------------------
(* Writing the trust list                                                  *)

\* A request that was there when the list for s was written.
Saw(q, u, s, list) ==
    /\ Rec(u) /\ Sound(u) /\ Grew(q, u) /\ u.pc = q.pc
    /\ q.pc \notin Closed /\ q.call.subject = s => list \subseteq u.ever

LEMMA WitnessedGrew ==
    ASSUME NEW x, NEW s, NEW list, Rec(req[x]), req[x].pc # "idle", Sound(req[x]),
           NEW u, u = Witnessed(x, s, list)
    PROVE  Saw(req[x], u, s, list)
<1> DEFINE q == req[x]
<1>1. CASE Open(x) /\ q.call.subject = s
  <2> DEFINE v == [q EXCEPT !.ever = q.ever \cup list]
             w == [v EXCEPT !.always = v.always \cap list]
  <2>1. u = w
    BY <1>1 DEF Witnessed
  <2>2. /\ Rec(v) /\ v.ever = q.ever \cup list /\ v.pc = q.pc
        /\ v.call = q.call /\ v.seen = q.seen /\ v.principal = q.principal
    BY SetEver
  <2> HIDE DEF v
  <2>3. Kept(v, w) /\ w.pc = v.pc
    BY <2>2, SetAlways, Zenon
  <2> HIDE DEF w
  <2>4. /\ Rec(u) /\ u.ever = q.ever \cup list /\ u.pc = q.pc
        /\ u.call = q.call /\ u.seen = q.seen /\ u.principal = q.principal
    BY <2>1, <2>2, <2>3 DEF Kept
  <2>5. Grew(q, u)
    BY <2>4 DEF Grew
  <2>6. Sound(u)
    BY <2>4, <2>5, SoundGrew
  <2> QED BY <2>4, <2>5, <2>6 DEF Saw
<1>2. CASE ~(Open(x) /\ q.call.subject = s)
  BY <1>2 DEF Witnessed, Open, Closed, Grew, Saw
<1> QED BY <1>1, <1>2

\* An entry that is set is admitted by the request that sets it.
LEMMA SetterAdmits ==
    ASSUME NEW q, Sound(q), q.pc = "set trust", NEW e \in q.call.entries
    PROVE  Admits(q, q.call.subject, e)
<1>1. Known(q) /\ isAdmin(Registries[q.seen], q.principal) /\ Entries(q)
  BY Zenon DEF Sound, Closed, Admitting, Setting
<1>2. AdminToken(Registries[q.seen], q.call.token)
  BY <1>1, AdminIsToken, Zenon DEF Known
<1>3. ValidateTrustEntry(Registries[q.seen], e.issuer, e.sub)
  BY <1>1, Zenon DEF Entries
<1> QED BY <1>2, <1>3, Zenon DEF Admits, ValidateTrustEntry, validTrustSub

LEMMA TrustIsWritten ==
    ASSUME IInv, NEW r \in Requests, req[r].pc = "set trust", NEW own, Kept(req[r], own),
           own.pc \in {"answered", "set subject"}, trust' = Written(req[r].call),
           req' = [x \in Requests |-> IF x = r THEN own
                                      ELSE Witnessed(x, req[r].call.subject, req[r].call.entries)],
           UNCHANGED <<config, jwks, published, announced>>
    PROVE  IInv'
<1> DEFINE q == req[r]
           s == q.call.subject
           list == q.call.entries
<1>1. Sound(q) /\ Live(q)
  BY ZenonT(40) DEF IInv, Handling, Closed
<1>2. Sound(own) /\ Grew(q, own) /\ Rec(own)
  BY <1>1, Zenon DEF Sound, Kept, Known, Entries, Grew, Closed, Serving, Accepted, Admitting, Setting
<1>3. ASSUME NEW x \in Requests, x # r, req[x].pc # "idle"
      PROVE  /\ Rec(req'[x]) /\ Sound(req'[x]) /\ Grew(req[x], req'[x]) /\ req'[x].pc = req[x].pc
             /\ req[x].pc \notin Closed /\ req[x].call.subject = s => list \subseteq req'[x].ever
  <2>1. Rec(req[x]) /\ Sound(req[x])
    BY <1>3, Zenon DEF IInv, Handling
  <2>2. req'[x] = Witnessed(x, s, list)
    BY <1>3, Zenon
  <2> HIDE DEF s, list
  <2>3. Saw(req[x], req'[x], s, list)
    BY <1>3, <2>1, <2>2, WitnessedGrew, Zenon
  <2> QED BY <2>3, Zenon DEF Saw
<1>4. req'[r] = own
  BY Zenon
<1>5. ASSUME NEW x \in Requests, x # r, req[x].pc = "idle" PROVE req'[x].pc = "idle"
  BY <1>5, Zenon DEF Witnessed, Open
<1>6. req' = [x \in Requests |-> req'[x]]
  BY Zenon
<1>7. DOMAIN trust' = DOMAIN trust \cup {s} /\ \A t \in DOMAIN trust' : trust'[t] = IF t = s THEN list ELSE trust[t]
  BY Zenon DEF Written
<1>8. q.pc = "set trust" /\ own.pc # "idle" /\ own.pc \notin Entering
      /\ UNCHANGED <<config, jwks, published, announced>>
  BY Zenon DEF Entering
<1>9. \A e \in list : Admits(q, s, e)
  BY <1>1, SetterAdmits, Zenon
<1>10. own.call = q.call /\ own.seen = q.seen
  BY Zenon DEF Kept
<1>11. Shape /\ Handling /\ Sending /\ Admitted
  BY Zenon DEF IInv
<1>12. AllGrew
  BY <1>2, <1>3, <1>4, Zenon DEF AllGrew
<1>13. Shape'
  BY <1>6, <1>8, <1>11, Zenon DEF Shape
<1>14. ASSUME NEW x \in Requests, req'[x].pc # "idle" PROVE Rec(req'[x]) /\ Sound(req'[x])
  BY <1>2, <1>3, <1>4, <1>5, <1>14, Zenon
<1>15. ASSUME NEW x \in Requests, req'[x].pc # "idle", req'[x].pc \notin Closed PROVE Live(req[x])'
  <2>1. CASE x = r
    BY <1>1, <1>4, <1>8, <1>10, <2>1, ZenonT(40) DEF Live, Up
  <2>2. CASE x # r
    <3>1. req[x].pc = req'[x].pc /\ req[x].pc # "idle"
      BY <1>3, <1>5, <1>15, <2>2, ZenonT(40)
    <3>2. /\ Live(req[x]) /\ Grew(req[x], req'[x])
          /\ req[x].call.subject = s => list \subseteq req'[x].ever
      BY <1>3, <1>11, <1>15, <2>2, <3>1, ZenonT(40) DEF Handling
    <3>3. req[x].call.subject # s => Trusted(req[x].call.subject)' = Trusted(req[x].call.subject)
      <4>1. SUFFICES ASSUME req[x].call.subject # s
                     PROVE  Trusted(req[x].call.subject)' = Trusted(req[x].call.subject)
        BY Zenon
      <4>2. req'[x].call.subject = req[x].call.subject
        BY <3>2, ZenonT(40) DEF Grew
      <4> QED BY <1>7, <4>1, <4>2, Zenon DEF Trusted
    <3>4. req[x].call.subject = s => Trusted(req[x].call.subject)' = list
      BY <1>7, <3>2, Zenon DEF Trusted, Grew
    <3> HIDE DEF s, list
    <3> QED BY <1>8, <3>1, <3>2, <3>3, <3>4, ZenonT(40) DEF Live, Up, Grew
  <2> QED BY <2>1, <2>2, Zenon
<1>16. Handling'
  BY <1>14, <1>15, ZenonT(40) DEF Handling, Rec, Sound, Known, Entries
<1>17. Sending'
  BY <1>8, <1>11, <1>12, SendingStays, Zenon DEF streams
<1>18. ASSUME NEW t \in DOMAIN trust', NEW e \in trust'[t]
       PROVE  \E x \in Requests : req'[x].pc # "idle" /\ Admits(req'[x], t, e)
  <2>1. CASE t = s
    <3>1. Admits(own, t, e)
      BY <1>2, <1>7, <1>9, <2>1, AdmitsGrew, Zenon
    <3> QED BY <1>4, <1>8, <3>1, Zenon
  <2>2. CASE t # s
    BY <1>7, <1>11, <1>12, <2>2, AdmittedStays, Zenon
  <2> QED BY <2>1, <2>2, Zenon
<1>19. Admitted'
  BY <1>18, Zenon DEF Admitted, Admits
<1> QED BY <1>13, <1>16, <1>17, <1>19, Zenon DEF IInv

LEMMA SetPublisherTrustStep ==
    ASSUME IInv, NEW r \in Requests, SetPublisherTrust(r)
    PROVE  IInv'
<1> DEFINE q == req[r]
           Own(own) == req' = [x \in Requests |-> IF x = r THEN own
                                                 ELSE Witnessed(x, q.call.subject, q.call.entries)]
           pc == IF Handler(q.call) = "modify" THEN "answered" ELSE "set subject"
           status == IF Handler(q.call) = "modify" THEN 200 ELSE 0
           a == [q EXCEPT !.pc = pc]
           b == [a EXCEPT !.status = status]
           d == [q EXCEPT !.pc = "answered"]
           e == [d EXCEPT !.status = 500]
           f == [e EXCEPT !.failed = TRUE]
<1>1. q.pc = "set trust" /\ UNCHANGED <<config, jwks, published, announced>>
  BY Zenon DEF SetPublisherTrust, At, streams
<1>2. Rec(q) /\ q.pc \notin Closed
  BY <1>1, Zenon DEF IInv, Handling, Closed
<1>3. \/ trust' = Written(q.call) /\ Own(b)
      \/ trust' = Written(q.call) /\ Own(f)
      \/ AnswerFailed(r, 500) /\ UNCHANGED trust
  BY Zenon DEF SetPublisherTrust
<1>4. Kept(q, a) /\ a.pc = pc
  BY <1>2, SetPc, Zenon
<1>5. Kept(q, d) /\ d.pc = "answered"
  BY <1>2, SetPc
<1>6. pc \in {"answered", "set subject"}
  OBVIOUS
<1> HIDE DEF a, d, pc, status
<1>7. Kept(q, b) /\ b.pc = pc
  <2>1. Kept(a, b) /\ b.pc = a.pc
    BY <1>4, SetStatus DEF Kept
  <2> HIDE DEF b
  <2> QED BY <1>4, <2>1, KeptIsKept
<1>8. Kept(q, e) /\ e.pc = "answered"
  <2>1. Kept(d, e) /\ e.pc = d.pc
    BY <1>5, SetStatus DEF Kept
  <2> HIDE DEF e
  <2> QED BY <1>5, <2>1, KeptIsKept
<1> HIDE DEF b, e
<1>9. Kept(q, f) /\ f.pc = "answered"
  <2>1. Kept(e, f) /\ f.pc = e.pc
    BY <1>8, SetFailed DEF Kept
  <2> HIDE DEF f
  <2> QED BY <1>8, <2>1, KeptIsKept
<1> HIDE DEF f
<1>10. CASE trust' = Written(q.call) /\ Own(b)
  BY <1>1, <1>6, <1>7, <1>10, TrustIsWritten, Zenon
<1>11. CASE trust' = Written(q.call) /\ Own(f)
  BY <1>1, <1>9, <1>11, TrustIsWritten, Zenon
<1>12. CASE AnswerFailed(r, 500) /\ UNCHANGED trust
  <2>1. NewlySent(r)
    BY <1>1, Zenon DEF NewlySent
  <2> QED BY <1>1, <1>2, <1>12, <2>1, Answers, ZenonT(40)
<1> QED BY <1>3, <1>10, <1>11, <1>12

-----------------------------------------------------------------------------
(* Services and arrivals                                                   *)

\* Only a service that is down starts, and it has no open requests.
LEMMA StartStep ==
    ASSUME IInv, NEW s \in Services, NEW k, NEW up, Start(s, k, up)
    PROVE  IInv'
<1>1. config' = [config EXCEPT ![s] = k] /\ config[s] = Down
      /\ UNCHANGED <<trust, jwks, req, published, announced>>
  BY DEF Start, Up, buckets, streams
<1>2. AllGrew /\ Shape'
  BY <1>1 DEF IInv, Shape, AllGrew, Grew
<1>3. ASSUME NEW x \in Requests, req[x].pc # "idle", req[x].pc \notin Closed PROVE Live(req[x])'
  <2>1. Live(req[x])
    BY <1>3 DEF IInv, Handling
  <2>2. req[x].call.service # s /\ req[x].call.service \in Services
    BY <1>1, <2>1 DEF Live, Up
  <2>3. config'[req[x].call.service] = config[req[x].call.service]
    BY <1>1, <2>2, SMTT(30) DEF IInv, Shape
  <2> QED BY <1>1, <2>1, <2>3 DEF Live, Up, Trusted
<1>4. Handling'
  BY <1>1, <1>3, ZenonT(40) DEF IInv, Handling, Rec, Sound, Known, Entries
<1> QED BY <1>1, <1>2, <1>4, SendingStays, AdmittedUnchanged DEF IInv, streams

LEMMA StopStep ==
    ASSUME IInv, NEW s \in Services, Stop(s)
    PROVE  IInv'
<1>1. config' = [config EXCEPT ![s] = Down] /\ UNCHANGED <<trust, jwks, published, announced>>
  BY DEF Stop, buckets, streams
<1>2. req' = [x \in Requests |-> req'[x]]
  BY DEF Stop
<1>3. ASSUME NEW x \in Requests, req[x].pc \notin Closed, req[x].call.service = s
      PROVE  Kept(req[x], req'[x]) /\ req'[x].pc = "lost"
  <2>1. Rec(req[x])
    BY <1>3 DEF IInv, Handling, Closed
  <2>2. req'[x] = [req[x] EXCEPT !.pc = "lost"]
    BY <1>3 DEF Stop, Open, Closed
  <2> QED BY <2>1, <2>2, SetPc
<1>4. ASSUME NEW x \in Requests, ~(req[x].pc \notin Closed /\ req[x].call.service = s)
      PROVE  req'[x] = req[x]
  BY <1>4 DEF Stop, Open, Closed
<1>5. AllGrew
  BY <1>3, <1>4, KeptGrew DEF AllGrew, Grew
<1>6. Shape'
  BY <1>1, <1>2 DEF IInv, Shape
<1>7. ASSUME NEW x \in Requests, req'[x].pc # "idle" PROVE Rec(req'[x]) /\ Sound(req'[x])
  <2>1. CASE req[x].pc \notin Closed /\ req[x].call.service = s
    BY <1>3, <2>1, ClosedIsSound DEF Kept, Closed
  <2>2. CASE ~(req[x].pc \notin Closed /\ req[x].call.service = s)
    BY <1>4, <1>7, <2>2 DEF IInv, Handling
  <2> QED BY <2>1, <2>2
<1>8. ASSUME NEW x \in Requests, req'[x].pc # "idle", req'[x].pc \notin Closed PROVE Live(req[x])'
  <2>1. req'[x] = req[x] /\ req[x].call.service # s
    BY <1>3, <1>4, <1>8 DEF Closed
  <2>2. Live(req[x])
    BY <1>8, <2>1 DEF IInv, Handling
  <2>3. config'[req[x].call.service] = config[req[x].call.service]
    BY <1>1, <2>1, <2>2 DEF IInv, Shape, Live
  <2> QED BY <1>1, <2>1, <2>2, <2>3 DEF Live, Up, Trusted
<1>9. Handling'
  BY <1>7, <1>8, ZenonT(40) DEF Handling, Rec, Sound, Known, Entries
<1> QED BY <1>1, <1>5, <1>6, <1>9, SendingStays, AdmittedUnchanged DEF IInv, streams

LEMMA ArriveStep ==
    ASSUME IInv, NEW r \in Requests, NEW c \in Asks[r], Arrive(r, c)
    PROVE  IInv'
<1> DEFINE u == [pc |-> "authn", call |-> c, status |-> 0, principal |-> Rejected,
                 seen |-> config[c.service], ever |-> Trusted(c.subject),
                 always |-> Trusted(c.subject), failed |-> FALSE]
<1>1. req[r].pc = "idle" /\ Up(c.service) /\ UNCHANGED <<config, trust, jwks, published, announced>>
  BY DEF Arrive, buckets, streams
<1>2. req' = [req EXCEPT ![r] = u]
  BY SMTT(30) DEF Arrive
<1>3. /\ Rec(u) /\ u.pc = "authn" /\ u.call = c /\ u.seen = config[c.service]
      /\ u.ever = Trusted(c.subject)
  BY DEF Rec
<1> HIDE DEF u
<1>4. req' = [x \in Requests |-> req'[x]] /\ \A x \in Requests : req'[x] = IF x = r THEN u ELSE req[x]
  BY <1>2 DEF IInv, Shape
<1>5. AllGrew
  BY <1>1, <1>4 DEF AllGrew, Grew
<1>6. Shape'
  BY <1>1, <1>4 DEF IInv, Shape
<1>7. Sound(u)
  BY <1>3 DEF Sound, Serving, Accepted, Admitting, Setting
<1>8. ASSUME NEW x \in Requests, req'[x].pc # "idle" PROVE Rec(req'[x]) /\ Sound(req'[x])
  BY <1>3, <1>4, <1>7, <1>8 DEF IInv, Handling
<1>9. ASSUME NEW x \in Requests, req'[x].pc # "idle", req'[x].pc \notin Closed PROVE Live(req[x])'
  <2>1. CASE x = r
    <3>1. c.service \in Services
      BY AccessAssumption, Zenon
    <3> QED BY <1>1, <1>3, <1>4, <2>1, <3>1 DEF Live, Up, Trusted
  <2>2. CASE x # r
    <3>1. req'[x] = req[x] /\ Live(req[x])
      BY <1>4, <1>9, <2>2 DEF IInv, Handling
    <3> QED BY <1>1, <3>1 DEF Live, Up, Trusted
  <2> QED BY <2>1, <2>2
<1>10. Handling'
  BY <1>8, <1>9, ZenonT(40) DEF Handling, Rec, Sound, Known, Entries
<1> QED BY <1>1, <1>5, <1>6, <1>10, SendingStays, AdmittedUnchanged DEF IInv, streams

LEMMA InitIInv == Init => IInv
<1> SUFFICES ASSUME Init PROVE IInv
  OBVIOUS
<1>1. Shape /\ Handling
  BY DEF Init, Shape, Handling
<1>2. Sending /\ Admitted
  BY DEF Init, Sending, Admitted
<1> QED BY <1>1, <1>2 DEF IInv

LEMMA StutterIInv == ASSUME IInv, UNCHANGED vars PROVE IInv'
<1>1. UNCHANGED <<config, trust, jwks, req, published, announced>>
  BY DEF vars, buckets, streams
<1>2. AllGrew /\ Shape'
  BY <1>1 DEF IInv, Shape, AllGrew, Grew
<1>3. Handling'
  BY <1>1, ZenonT(40) DEF IInv, Handling, Rec, Sound, Known, Entries, Live, Up, Trusted
<1> QED BY <1>1, <1>2, <1>3, SendingStays, AdmittedUnchanged DEF IInv, streams

LEMMA NextIInv == IInv /\ [Next]_vars => IInv'
<1> SUFFICES ASSUME IInv, [Next]_vars PROVE IInv'
  OBVIOUS
<1>1. ASSUME NEW s \in Services, NEW k, NEW up, Start(s, k, up) PROVE IInv'
  BY <1>1, StartStep
<1>2. ASSUME NEW s \in Services, Stop(s) PROVE IInv'
  BY <1>2, StopStep
<1>3. ASSUME NEW r \in Requests, NEW c \in Asks[r], Arrive(r, c) PROVE IInv'
  BY <1>3, ArriveStep
<1>4. ASSUME NEW r \in Requests, Step(r) PROVE IInv'
  BY <1>4, AuthMiddlewareStep, MiddlewareStep, ReadStep, IngestArtifactStep, PublishStep,
     AdministerStep, SetPublisherTrustStep, PutSubjectStep, StoreJWKStep DEF Step
<1>5. CASE UNCHANGED vars
  BY <1>5, StutterIInv
<1> QED BY <1>1, <1>2, <1>3, <1>4, <1>5, Zenon DEF Next

\* What a request has behind it at each step, what was sent and who was
\* admitted, in every reachable state.
THEOREM RequestsAreSound == Spec => []IInv
BY InitIInv, NextIInv, PTL DEF Spec

\* The gateway publishes only what a configured publisher's token submitted for
\* a subject that trusted this publisher at some time since the request came,
\* attributed to that token, whatever other requests write to the trust list
\* and however services restart (AuthMiddleware, authz.Middleware,
\* IngestArtifact).
THEOREM OnlyTrustedPublish == Spec => []PublishedWasTrusted
<1>1. IInv => PublishedWasTrusted
  BY Zenon DEF IInv, Sending, Sent, PublishedWasTrusted
<1> QED BY <1>1, RequestsAreSound, PTL

\* A label with a schema is a checked label, although IngestArtifact and
\* SchemaRegistry.Validate read the type each in their own way.
THEOREM LabelsAreChecked == Spec => []LabelIsChecked
<1>1. IInv => LabelIsChecked
  BY Zenon DEF IInv, Sending, Sent, LabelIsChecked
<1> QED BY <1>1, RequestsAreSound, PTL

\* Every entry of a trust list was written by an administrator's request for
\* that subject and validated against the configuration the request came to
\* (RegisterSubject, ModifyTrust, ValidateTrustEntry).
THEOREM TrustIsAdmitted == Spec => []OnlyAdmitted
<1>1. IInv => OnlyAdmitted
  BY DEF IInv, Admitted, Admits, OnlyAdmitted
<1> QED BY <1>1, RequestsAreSound, PTL

NoKeyStored == jwks = {}

\* No gateway ever stores a scanner's key, whatever is configured and asked for:
\* RegisterSubject only comes to StoreJWK with issuers that ValidateTrustEntry
\* passed, which have a scheme and are no keys of the bucket.
THEOREM NoScannerKey == Spec => []NoKeyStored
<1>1. IInv => NoKeyStored
  BY DEF IInv, Shape, NoKeyStored
<1> QED BY <1>1, RequestsAreSound, PTL
=============================================================================
