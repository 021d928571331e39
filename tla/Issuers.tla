------------------------------ MODULE Issuers -------------------------------
(***************************************************************************)
(* Who may sign tokens and what a token makes of its bearer: the issuer    *)
(* configuration (internal/config/issuers.go), the registry of issuers     *)
(* (internal/authn), the publisher issuers (internal/authn/publisher) and  *)
(* the Cedar policies (internal/authz).                                    *)
(*                                                                         *)
(* Strings the code looks into are records.  An issuer is [name, scheme,   *)
(* lower, slash]: has it a "://", are its scheme and host in lower case,   *)
(* does it end in "/".  A group is [name, lower].  A sub is [name, form],  *)
(* where form is the kind of issuer whose pattern it matches, if any.  A   *)
(* token is [iss, sub, signer, audience, fresh, scopes, claims]: signer is *)
(* the issuer whose key signed it, audience and fresh say whether these    *)
(* checks of jwt.Parse pass, claims gives the groups at a dot-path.        *)
(***************************************************************************)
EXTENDS Naturals, Sequences, FiniteSetsExt

Url(name)   == [name |-> name, scheme |-> TRUE, lower |-> TRUE, slash |-> FALSE]
NoIssuer    == [name |-> "", scheme |-> FALSE, lower |-> TRUE, slash |-> FALSE]
NoSub       == [name |-> "", form |-> "none"]
Group(name) == [name |-> name, lower |-> TRUE]
NoGroup     == Group("")

TrimRight(u) == [u EXCEPT !.slash = FALSE]
ToLower(g)   == [g EXCEPT !.lower = TRUE]

\* NATS accepts no ":" in the key of a bucket.
ValidKey(u) == ~u.scheme

ValidateIssuerURL(u) == u.scheme /\ u.lower

-----------------------------------------------------------------------------
(* The issuers.  endpoints: what must answer when the service starts.      *)

Jwks(u)      == <<u, "jwks">>
Discovery(u) == <<u, "openid-configuration">>

GitHubActionsIssuerURL == Url("github")
GitLabCIIssuerURL      == Url("gitlab")
GCPWorkloadIssuerURL   == Url("google")

NewGitHubActionsIssuer(u) ==
    LET url == TrimRight(IF u = NoIssuer THEN GitHubActionsIssuerURL ELSE u)
    IN  [url |-> url, kind |-> "github", endpoints |-> {Jwks(url)}]

NewGitLabCIIssuer(u) ==
    LET url == TrimRight(IF u = NoIssuer THEN GitLabCIIssuerURL ELSE u)
    IN  [url |-> url, kind |-> "gitlab", endpoints |-> {Jwks(url)}]

NewGCPWorkloadIssuer(u) ==
    LET url == TrimRight(IF u = NoIssuer THEN GCPWorkloadIssuerURL ELSE u)
    IN  [url |-> url, kind |-> "gcp", endpoints |-> {Jwks(url)}]

NewKubernetesIssuer(u) ==
    [url |-> TrimRight(u), kind |-> "kubernetes",
     endpoints |-> {Discovery(TrimRight(u)), Jwks(TrimRight(u))}]

NewSPIFFEIssuer(u) ==
    [url |-> TrimRight(u), kind |-> "spiffe", endpoints |-> {Jwks(TrimRight(u))}]

NewWorkloadIssuer(u) ==
    [url |-> TrimRight(u), kind |-> "workload", endpoints |-> {Jwks(TrimRight(u))}]

\* Each kind of issuer but workload has a pattern for the subs it issues.
validTrustSub(kind, sub) == sub # NoSub /\ (kind = "workload" \/ sub.form = kind)

-----------------------------------------------------------------------------
(* config/issuers.go.  A configuration is [issuer, expected, claim,        *)
(* adminGroup, auditorGroup, mode, enabled, custom].                       *)

knownShortnames == {"github_actions", "gitlab", "gcp"}
customTypes     == {"github", "gitlab", "gcp", "kubernetes", "spiffe", "workload"}

UnmarshalIssuers(k) == k.issuer # NoIssuer /\ k.enabled \subseteq knownShortnames

buildKnownIssuer(shortname) ==
    CASE shortname = "github_actions" -> NewGitHubActionsIssuer(NoIssuer)
      [] shortname = "gitlab"         -> NewGitLabCIIssuer(NoIssuer)
      [] shortname = "gcp"            -> NewGCPWorkloadIssuer(NoIssuer)

buildCustomIssuer(c) ==
    CASE c.type = "github"     -> NewGitHubActionsIssuer(c.url)
      [] c.type = "gitlab"     -> NewGitLabCIIssuer(c.url)
      [] c.type = "gcp"        -> NewGCPWorkloadIssuer(c.url)
      [] c.type = "kubernetes" -> NewKubernetesIssuer(c.url)
      [] c.type = "spiffe"     -> NewSPIFFEIssuer(c.url)
      [] c.type = "workload"   -> NewWorkloadIssuer(c.url)

\* An issuer without url has no scheme either.
validCustom(c) == ValidateIssuerURL(c.url) /\ c.type \in customTypes

DefaultAdminGroup   == Group("complytime-admin")
DefaultAuditorGroup == Group("complytime-auditor")
adminGroup(k)       == IF k.adminGroup = NoGroup THEN DefaultAdminGroup ELSE k.adminGroup
auditorGroup(k)     == IF k.auditorGroup = NoGroup THEN DefaultAuditorGroup ELSE k.auditorGroup

\* The keys are fetched from the issuer; tokens must name the expected issuer.
NewOIDCIssuer(k) ==
    LET url == TrimRight(k.issuer)
    IN  [keys |-> url, url |-> IF k.expected = NoIssuer THEN url ELSE TrimRight(k.expected),
         groupClaim |-> k.claim, knownGroups |-> {adminGroup(k), auditorGroup(k)},
         endpoints |-> {Discovery(url), Jwks(url)}]

publisherIssuers(k) ==
    {buildKnownIssuer(name) : name \in k.enabled}
        \cup {buildCustomIssuer(k.custom[i]) : i \in DOMAIN k.custom}

\* Whether the service starts with configuration k while `up` answers.
BuildIssuers(k, up) ==
    /\ UnmarshalIssuers(k)
    /\ ValidateIssuerURL(k.issuer)
    /\ \A i \in DOMAIN k.custom : validCustom(k.custom[i])
    /\ NewOIDCIssuer(k).endpoints \subseteq up
    /\ k.mode \in {"", "enforce", "audit"}
    /\ \A p \in publisherIssuers(k) : p.endpoints \subseteq up

\* NewIssuerRegistry: of several publishers with one URL the last stays.
publisherMap(k) ==
    [u \in {p.url : p \in publisherIssuers(k)} |->
        LET custom == {i \in DOMAIN k.custom : buildCustomIssuer(k.custom[i]).url = u}
        IN  IF custom # {}
            THEN buildCustomIssuer(k.custom[Max(custom)]).kind
            ELSE (CHOOSE p \in publisherIssuers(k) : p.url = u).kind]

NewIssuerRegistry(k) ==
    [oidc |-> NewOIDCIssuer(k), publishers |-> publisherMap(k),
     admin |-> adminGroup(k), auditor |-> auditorGroup(k)]

-----------------------------------------------------------------------------
(* Authentication                                                          *)

knownScopes == {"complytime:admin", "complytime:audit", "complytime:read"}

ExtractScopes(t) == t.scopes \cap knownScopes

ExtractClaimByPath(claims, path) == IF path \in DOMAIN claims THEN claims[path] ELSE {}

ExtractGroups(t, oidc) ==
    IF oidc.groupClaim = "" THEN {}
    ELSE {ToLower(g) : g \in ExtractClaimByPath(t.claims, oidc.groupClaim)} \cap oidc.knownGroups

Rejected == [ok |-> FALSE]

Identity(u, sub) == [issuer |-> u, sub |-> sub]

\* jwt.Parse with the issuer's keys, then the exact issuer and a sub.
Verified(t, keys, iss) ==
    t.signer = keys /\ t.iss = iss /\ t.audience /\ t.fresh /\ t.sub # NoSub

oidcAuthenticate(oidc, t) ==
    IF Verified(t, oidc.keys, oidc.url)
    THEN [ok |-> TRUE, who |-> Identity(oidc.url, t.sub), publisher |-> FALSE,
          scopes |-> ExtractScopes(t), groups |-> ExtractGroups(t, oidc)]
    ELSE Rejected

publisherAuthenticate(u, t) ==
    IF Verified(t, u, u)
    THEN [ok |-> TRUE, who |-> Identity(u, t.sub), publisher |-> TRUE,
          scopes |-> {}, groups |-> {}]
    ELSE Rejected

peekIssuer(t) == TrimRight(t.iss)

\* Authenticate: OIDC issuer, then configured publishers, then stored keys.
\* Looking up a name that is no key of the bucket is an error.
Authenticate(registry, jwks, t) ==
    LET iss == peekIssuer(t)
    IN  CASE iss = registry.oidc.url -> oidcAuthenticate(registry.oidc, t)
          [] iss # registry.oidc.url /\ iss \in DOMAIN registry.publishers ->
                publisherAuthenticate(iss, t)
          [] OTHER ->
                IF ValidKey(iss) /\ iss \in jwks THEN publisherAuthenticate(iss, t) ELSE Rejected

\* ValidateTrustEntry: humans are no publishers, unknown issuers neither.
ValidateTrustEntry(registry, u, sub) ==
    /\ ValidateIssuerURL(u)
    /\ u # registry.oidc.url
    /\ u \in DOMAIN registry.publishers
    /\ validTrustSub(registry.publishers[u], sub)

-----------------------------------------------------------------------------
(* Authorization                                                           *)

routeMappings ==
    {[method |-> "POST", path |-> "/api/ingest", deeper |-> FALSE, action |-> "publish:artifact"],
     [method |-> "GET", path |-> "/api/evidence", deeper |-> FALSE, action |-> "read:evidence"],
     [method |-> "POST", path |-> "/admin/subjects", deeper |-> FALSE,
      action |-> "admin:request-registration"],
     [method |-> "PUT", path |-> "/admin/subjects", deeper |-> TRUE,
      action |-> "admin:request-trust-modification"],
     [method |-> "GET", path |-> "/api/subjects", deeper |-> FALSE, action |-> "query:evidence"],
     [method |-> "GET", path |-> "/api/subjects", deeper |-> TRUE, action |-> "query:evidence"],
     [method |-> "GET", path |-> "/ledgers", deeper |-> FALSE, action |-> "read:evidence"],
     [method |-> "GET", path |-> "/ledgers", deeper |-> TRUE, action |-> "read:evidence"]}

\* ActionForRoute: the actions mapped to a route; deeper when the path goes on
\* after a "/".
ActionForRoute(method, path, deeper) ==
    {m.action : m \in {n \in routeMappings :
                          n.method = method /\ n.path = path /\ n.deeper = deeper}}

\* base.cedar
isAdmin(registry, p)   == "complytime:admin" \in p.scopes \/ registry.admin \in p.groups
isAuditor(registry, p) == "complytime:audit" \in p.scopes \/ registry.auditor \in p.groups

permitPublish(action, p, trusted) == action = "publish:artifact" /\ p.publisher /\ trusted
forbidUntrusted(action, trusted) == action = "publish:artifact" /\ ~trusted

\* Faulty variant: auditors administer.
permitAdminAuditor(action, registry, p) ==
    /\ action \in {"admin:request-registration", "admin:request-trust-modification"}
    /\ isAuditor(registry, p) \/ isAdmin(registry, p)

permitAdmin(action, registry, p) ==
    /\ action \in {"admin:request-registration", "admin:request-trust-modification"}
    /\ isAdmin(registry, p)

permitEvidence(action, registry, p) ==
    /\ action \in {"query:evidence", "read:evidence"}
    /\ isAuditor(registry, p) \/ isAdmin(registry, p)

isAuthorized(action, registry, p, trusted) ==
    /\ \/ permitPublish(action, p, trusted)
       \/ permitAdmin(action, registry, p)
       \/ permitEvidence(action, registry, p)
    /\ ~forbidUntrusted(action, trusted)
=============================================================================
