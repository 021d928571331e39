---------------------------- MODULE TokenReplay ----------------------------
(***************************************************************************)
(* Tokens of static JWK issuers are good for one request                   *)
(* (internal/authn/publisher/staticjwk.go, internal/trust/store.go).  The  *)
(* gateway and the locker check a token's times against their own clocks   *)
(* and then claim its jti in a bucket they share.  The bucket forgets a    *)
(* claim after its TTL: by then no clock may find the token still valid.   *)
(*                                                                         *)
(* Time is the clock of the NATS server, which ages the bucket.  A token   *)
(* is [iss, jti, sub, iat, exp, key]; key is the key that signed it.       *)
(***************************************************************************)
EXTENDS Integers, FiniteSets

CONSTANTS
    Services,       \* services that share the buckets
    Tokens,         \* tokens that are presented
    Requests,       \* identifiers of requests
    JWKs,           \* records a registration can store: [key, notAfter]
    Skew,           \* 30 s: jwt.WithAcceptableSkew
    MaxLifetime,    \* 10 min: longest exp - iat
    TTL,            \* 15 min: of the bucket jti-replay
    Drift,          \* assumed: how far the services' clocks are ahead
    Delay,          \* assumed: longest time from the check of exp to the claim
    MaxClock        \* bound on the clock

\* The buffer of JTIReplayKVConfig: 15 min cover 10 min and the skew on both
\* sides, and leave 4 min for drift and delay.
ASSUME BufferAssumption ==
    /\ Skew \in Nat /\ MaxLifetime \in Nat /\ TTL \in Nat /\ Drift \in Nat /\ Delay \in Nat
    /\ MaxLifetime + 2 * Skew + Drift + Delay <= TTL
    /\ \A t \in Tokens : t.iat \in Int /\ t.exp \in Int
    /\ \A k \in JWKs : k.notAfter \in Int
    /\ MaxClock \in Nat

VARIABLES
    clock,      \* time of the NATS server
    ahead,      \* per service: how far its clock is ahead
    jwks,       \* bucket static-jwks: issuer -> record
    jtis,       \* bucket jti-replay: jti -> when it was claimed
    req         \* per request: the token, and how far it has come

vars == <<clock, ahead, jwks, jtis, req>>

IssuerIDs == {t.iss : t \in Tokens}

Idle == [pc |-> "idle"]

Init ==
    /\ clock = 0
    /\ ahead \in [Services -> 0 .. Drift]
    /\ jwks \in [IssuerIDs -> JWKs \cup {Idle}]
    /\ jtis = <<>>
    /\ req = [r \in Requests |-> Idle]

At(r, pc) == req[r].pc = pc

\* time.Now on the service that has the request.
Now(r) == clock + ahead[req[r].service]

Reject(r) == req' = [req EXCEPT ![r] = [@ EXCEPT !.pc = "rejected"]]

-----------------------------------------------------------------------------
Arrive(r, s, t) ==
    /\ At(r, "idle")
    /\ req' = [req EXCEPT ![r] = [pc |-> "lookup", service |-> s, token |-> t, rec |-> Idle,
                                  read |-> 0, claimed |-> 0]]
    /\ UNCHANGED <<clock, ahead, jwks, jtis>>

\* GetJWK: no record, an expired one and a failed lookup all end in rejection.
GetJWK(r) ==
    /\ At(r, "lookup")
    /\ LET rec == jwks[req[r].token.iss]
       IN  \/ /\ rec # Idle
              /\ Now(r) <= rec.notAfter
              /\ req' = [req EXCEPT ![r] = [@ EXCEPT !.pc = "validate", !.rec = rec]]
           \/ Reject(r)
    /\ UNCHANGED <<clock, ahead, jwks, jtis>>

\* jwt.Parse: iat and exp within the accepted skew.
InTime(t, now) == t.iat - Skew <= now /\ now < t.exp + Skew

\* Faulty variant: a token needs no jti.
AcceptableUnnamed(r) ==
    LET t == req[r].token
    IN  /\ Now(r) <= req[r].rec.notAfter
        /\ t.key = req[r].rec.key
        /\ InTime(t, Now(r))
        /\ t.exp - t.iat <= MaxLifetime

\* StaticJWKIssuer.Authenticate up to the claim.
Acceptable(r) ==
    LET t == req[r].token
    IN  /\ Now(r) <= req[r].rec.notAfter
        /\ t.key = req[r].rec.key
        /\ InTime(t, Now(r))
        /\ t.exp - t.iat <= MaxLifetime
        /\ t.jti # ""

Authenticate(r) ==
    /\ At(r, "validate")
    /\ IF Acceptable(r)
       THEN req' = [req EXCEPT ![r] = [@ EXCEPT !.pc = "claim", !.read = clock]]
       ELSE Reject(r)
    /\ UNCHANGED <<clock, ahead, jwks, jtis>>

Create(j) == [k \in DOMAIN jtis \cup {j} |-> IF k = j THEN clock ELSE jtis[k]]

\* Faulty variant: Put in place of Create.
ClaimJTIPut(r) ==
    /\ At(r, "claim")
    /\ LET t == req[r].token
       IN  /\ clock <= req[r].read + Delay
           /\ jtis' = Create(t.jti)
           /\ req' = [req EXCEPT ![r] = [@ EXCEPT !.pc = "accepted", !.claimed = clock]]
    /\ UNCHANGED <<clock, ahead, jwks>>

\* ClaimJTI, and the check of sub that comes after it.  A claim that fails may
\* be stored nevertheless.
ClaimJTI(r) ==
    /\ At(r, "claim")
    /\ LET t == req[r].token
       IN  \/ /\ t.jti \notin DOMAIN jtis
              /\ clock <= req[r].read + Delay
              /\ jtis' = Create(t.jti)
              /\ req' = [req EXCEPT ![r] = [@ EXCEPT !.pc = IF t.sub = "" THEN "rejected" ELSE "accepted",
                                                     !.claimed = clock]]
           \/ t.jti \notin DOMAIN jtis /\ jtis' = Create(t.jti) /\ Reject(r)
           \/ Reject(r) /\ UNCHANGED jtis
    /\ UNCHANGED <<clock, ahead, jwks>>

\* TrustStore.StoreJWK: a registration stores a key or replaces it.
StoreJWK(i, rec) ==
    /\ jwks[i] # rec
    /\ jwks' = [jwks EXCEPT ![i] = rec]
    /\ UNCHANGED <<clock, ahead, jtis, req>>

-----------------------------------------------------------------------------
\* Faulty variant: a TTL of the maximal lifetime.
AgedLifetime(j) == clock >= jtis[j] + MaxLifetime

\* JTIReplayKVConfig
Aged(j) == clock >= jtis[j] + TTL

\* The bucket drops a claim some time after its TTL.
Expire(j) ==
    /\ Aged(j)
    /\ jtis' = [k \in DOMAIN jtis \ {j} |-> jtis[k]]
    /\ UNCHANGED <<clock, ahead, jwks, req>>

Tick ==
    /\ clock < MaxClock
    /\ clock' = clock + 1
    /\ UNCHANGED <<ahead, jwks, jtis, req>>

Next ==
    \/ \E r \in Requests, s \in Services, t \in Tokens : Arrive(r, s, t)
    \/ \E r \in Requests : GetJWK(r) \/ Authenticate(r) \/ ClaimJTI(r)
    \/ \E i \in IssuerIDs, rec \in JWKs : StoreJWK(i, rec)
    \/ \E j \in DOMAIN jtis : Expire(j)
    \/ Tick

Spec == Init /\ [][Next]_vars

-----------------------------------------------------------------------------
Stages == {"lookup", "validate", "claim", "accepted", "rejected"}

Handled == [pc : Stages, service : Services, token : Tokens, rec : JWKs \cup {Idle},
            read : 0 .. clock, claimed : 0 .. clock]

\* Claims were made at some time up to now, and requests are at a step.
TypeOK ==
    /\ clock \in 0 .. MaxClock
    /\ ahead \in [Services -> 0 .. Drift]
    /\ jwks \in [IssuerIDs -> JWKs \cup {Idle}]
    /\ DOMAIN jtis \subseteq {t.jti : t \in Tokens} \ {""}
    /\ \A j \in DOMAIN jtis : jtis[j] \in 0 .. clock
    /\ req \in [Requests -> {Idle} \cup Handled]

\* No token is accepted twice, by one service or by two, however the requests
\* interleave with each other and with the forgetting of the claims.
OneUse ==
    \A r, q \in Requests :
        At(r, "accepted") /\ At(q, "accepted") /\ req[r].token = req[q].token => r = q

\* As long as some service's clock finds an accepted token in time, the bucket
\* holds its jti: TTL outlasts the token.
UsedIsHeld ==
    \A r \in Requests, s \in Services :
        At(r, "accepted") /\ InTime(req[r].token, clock + ahead[s]) => req[r].token.jti \in DOMAIN jtis
=============================================================================
