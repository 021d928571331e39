------------------------------ MODULE MCAccess ------------------------------
(* Small instances of Access for TLC.                                       *)
EXTENDS Access, TLC

Idp     == Url("idp")
Public  == Url("idp-public")
Cluster == Url("cluster")
Slash(u) == [u EXCEPT !.slash = TRUE]

Config(expected, claim, mode, custom) ==
    [issuer |-> Slash(Idp), expected |-> expected, claim |-> claim, adminGroup |-> NoGroup,
     auditorGroup |-> NoGroup, mode |-> mode, enabled |-> {"github_actions"}, custom |-> custom]

\* A cluster beside GitHub; GitHub's URL configured once more, as a workload
\* issuer; the cluster become the human IdP; and one that never starts.
SomeConfigs ==
    "cluster" :> Config(NoIssuer, "groups", "", <<[url |-> Slash(Cluster), type |-> "kubernetes"]>>)
    @@ "workload" :> Config(NoIssuer, "", "audit",
                            <<[url |-> GitHubActionsIssuerURL, type |-> "workload"]>>)
    @@ "moved" :> Config(Cluster, "", "enforce", <<[url |-> Cluster, type |-> "kubernetes"]>>)
    @@ "strict" :> Config(NoIssuer, "", "strict", <<>>)

Repo    == [name |-> "repo", form |-> "github"]
Account == [name |-> "account", form |-> "kubernetes"]
Person  == [name |-> "person", form |-> "none"]

Token(iss, sub, signer, scopes, groups) ==
    [iss |-> iss, sub |-> sub, signer |-> signer, audience |-> TRUE, fresh |-> TRUE,
     scopes |-> scopes, claims |-> [c \in {"groups"} |-> groups]]

Ci      == Token(GitHubActionsIssuerURL, Repo, GitHubActionsIssuerURL, {"complytime:admin"}, {})
Pod     == Token(Cluster, Account, Cluster, {}, {})
Twin    == Token(Cluster, Repo, Cluster, {}, {})
Forged  == Token(GitHubActionsIssuerURL, Repo, Cluster, {}, {})
Admin   == Token(Idp, Person, Idp, {"complytime:admin", "openid"}, {})
Member  == Token(Idp, Person, Idp, {}, {[name |-> "complytime-admin", lower |-> FALSE]})
Auditor == Token(Idp, Person, Idp, {"complytime:audit"}, {})

Json(target, meta, type, conforms) ==
    [size |-> "fits", dsse |-> FALSE, json |-> TRUE, canonical |-> TRUE, target |-> target,
     subjectId |-> "", meta |-> meta, type |-> type, conforms |-> conforms]

Good     == Json("s1", "Policy", Missing, {"Policy"})
Plain    == Json("", Missing, Missing, {})
Envelope == [Plain EXCEPT !.dsse = TRUE]

Bodies ==
    {Good, [Good EXCEPT !.canonical = FALSE], [Good EXCEPT !.size = "broken off"],
     Envelope, [Envelope EXCEPT !.size = "over"],
     Json("s2", Missing, Missing, {}), Json("", "unknown", "Policy", {}),
     Json("", "", "Policy", {}), Json("", "Policy", "Other", {"Policy"})}

Call(service, method, path, deeper, subject, token, body, entries, scanner) ==
    [service |-> service, method |-> method, path |-> path, deeper |-> deeper, subject |-> subject,
     token |-> token, body |-> body, entries |-> entries, scanner |-> scanner]

Ingest(subject, token, body) ==
    Call("gateway", "POST", "/api/ingest", FALSE, subject, token, body, {}, "none")
Register(subject, token, entries, scanner) ==
    Call("gateway", "POST", "/admin/subjects", FALSE, subject, token, Plain, entries, scanner)
Modify(subject, token, entries) ==
    Call("gateway", "PUT", "/admin/subjects", TRUE, subject, token, Plain, entries, "none")
Get(service, path, deeper, token) ==
    Call(service, "GET", path, deeper, "", token, Plain, {}, "none")

TrustCi     == {Identity(GitHubActionsIssuerURL, Repo)}
TrustPod    == {Identity(Cluster, Account)}
TrustPerson == {Identity(Idp, Person)}
TrustSelf   == {Identity(GitHubActionsIssuerURL, [name |-> "github", form |-> "none"])}

Registering ==
    {Register("s1", t, TrustCi, "none") : t \in {Member, Auditor}}
    \cup {Register("s1", Admin, TrustSelf, "public"), Register("s/1", Admin, TrustCi, "none")}

Modifying ==
    {Modify("s1", Admin, e) : e \in {{}, TrustCi \cup TrustPod, TrustPerson}}
    \cup {Get("locker", "/ledgers", TRUE, Auditor)}

Publishing ==
    {Ingest("s1", t, Good) : t \in {Pod, Twin, Forged, [Ci EXCEPT !.iss = Slash(@)]}}
    \cup {Ingest("s1", Ci, b) : b \in Bodies}
    \cup {Ingest(s, Ci, Plain) : s \in {"", "s/1"}}

AllAsks == "r1" :> Registering @@ "r2" :> Modifying @@ "r3" :> Publishing
=============================================================================
