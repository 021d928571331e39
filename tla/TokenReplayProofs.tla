------------------------- MODULE TokenReplayProofs -------------------------
(***************************************************************************)
(* OneUse, for any number of services, tokens and requests and for all     *)
(* times that satisfy BufferAssumption.  Claimed is the strengthening: an  *)
(* accepted request was claimed when its token had just become valid at    *)
(* the earliest, and the bucket holds the claim or has held it for TTL.    *)
(***************************************************************************)
EXTENDS TokenReplay, TLAPS

\* A leaf that names no prover is tried with SMT, then with Zenon.
USE SMTT(30), ZenonT(30)

Checked(r) ==
    LET t == req[r].token
    IN  /\ t.exp - t.iat <= MaxLifetime
        /\ t.iat - Skew - Drift <= req[r].read
        /\ req[r].read < t.exp + Skew
        /\ t.jti # ""

Held(r) ==
    \/ /\ req[r].token.jti \in DOMAIN jtis
       /\ jtis[req[r].token.jti] = req[r].claimed
    \/ clock >= req[r].claimed + TTL

\* What OneUse needs besides types.
Claimed ==
    \A r \in Requests :
        /\ At(r, "claim") => Checked(r)
        /\ At(r, "accepted") => /\ Checked(r)
                                /\ req[r].read <= req[r].claimed
                                /\ Held(r)

IInv == TypeOK /\ Claimed /\ OneUse
-----------------------------------------------------------------------------
LEMMA InitInv == Init => IInv
  <1> SUFFICES ASSUME Init PROVE IInv
      OBVIOUS
  <1>1. TypeOK
      BY BufferAssumption DEF Init, TypeOK, Idle
  <1>2. \A r \in Requests : At(r, "idle")
      BY DEF Init, At, Idle
  <1> QED
      BY <1>1, <1>2 DEF IInv, Claimed, OneUse, At

LEMMA ClockNat == IInv => clock \in Nat /\ 0 \in 0 .. clock /\ clock \in 0 .. clock
  <1>1. IInv => clock \in 0 .. MaxClock
      BY Zenon DEF IInv, TypeOK
  <1>2. clock \in 0 .. MaxClock => clock \in Nat
      OBVIOUS
  <1>3. clock \in Nat => 0 \in 0 .. clock /\ clock \in 0 .. clock
      OBVIOUS
  <1> QED
      BY <1>1, <1>2, <1>3

\* A request that moves without being accepted leaves the others alone.
LEMMA MoveInv ==
    ASSUME IInv, NEW r \in Requests, NEW q, q \in Handled,
           q.pc # "accepted", req' = [req EXCEPT ![r] = q],
           q.pc = "claim" => Checked(r)',
           UNCHANGED <<clock, ahead, jwks, jtis>>
    PROVE  IInv'
  <1>1. TypeOK'
    <2>1. Handled' = Handled
        BY DEF Handled
    <2> QED
        BY <2>1, Zenon DEF IInv, TypeOK
  <1>2. req'[r] = q /\ \A p \in Requests \ {r} : req'[p] = req[p]
      BY Zenon DEF IInv, TypeOK
  <1>3. Claimed'
    <2> SUFFICES ASSUME NEW p \in Requests
                 PROVE  /\ At(p, "claim")' => Checked(p)'
                        /\ At(p, "accepted")' => /\ Checked(p)'
                                                 /\ req'[p].read <= req'[p].claimed
                                                 /\ Held(p)'
        BY DEF Claimed
    <2>1. CASE p = r
        BY <2>1, <1>2 DEF At
    <2>2. CASE p # r
        BY <2>2, <1>2, Zenon DEF At, IInv, Claimed, Checked, Held
    <2> QED
        BY <2>1, <2>2
  <1>4. OneUse'
      BY <1>2 DEF IInv, OneUse, At
  <1> QED
      BY <1>1, <1>3, <1>4 DEF IInv

LEMMA ArriveInv ==
    ASSUME IInv, NEW r \in Requests, NEW s \in Services, NEW t \in Tokens, Arrive(r, s, t)
    PROVE  IInv'
  <1> DEFINE q == [pc |-> "lookup", service |-> s, token |-> t, rec |-> Idle,
                   read |-> 0, claimed |-> 0]
  <1>1. q \in Handled
    <2>1. 0 \in 0 .. clock
        BY ClockNat
    <2> QED
        BY <2>1 DEF Handled, Stages
  <1>2. q.pc = "lookup" /\ req' = [req EXCEPT ![r] = q] /\ UNCHANGED <<clock, ahead, jwks, jtis>>
      BY DEF Arrive
  <1> HIDE DEF q
  <1> QED
      BY <1>1, <1>2, MoveInv, Zenon
LEMMA RejectInv ==
    ASSUME IInv, NEW r \in Requests, req[r] \in Handled, Reject(r),
           UNCHANGED <<clock, ahead, jwks, jtis>>
    PROVE  IInv'
  <1> DEFINE q == [req[r] EXCEPT !.pc = "rejected"]
  <1>1. q \in Handled /\ q.pc = "rejected"
      BY DEF Handled, Stages
  <1>2. req' = [req EXCEPT ![r] = q]
      BY DEF Reject
  <1> HIDE DEF q
  <1> QED
      BY <1>1, <1>2, MoveInv, Zenon

LEMMA NotIdle ==
    ASSUME IInv, NEW r \in Requests, NEW pc \in Stages, At(r, pc)
    PROVE  req[r] \in Handled
  <1>1. req[r] \in {Idle} \cup Handled
      BY Zenon DEF IInv, TypeOK
  <1>2. Idle.pc = "idle" /\ pc # "idle"
      BY DEF Idle, Stages
  <1> QED
      BY <1>1, <1>2 DEF At

LEMMA GetJWKInv ==
    ASSUME IInv, NEW r \in Requests, GetJWK(r)
    PROVE  IInv'
  <1>1. req[r] \in Handled
      BY NotIdle DEF GetJWK, Stages
  <1>2. UNCHANGED <<clock, ahead, jwks, jtis>>
      BY DEF GetJWK
  <1> DEFINE rec == jwks[req[r].token.iss]
             q == [req[r] EXCEPT !.pc = "validate", !.rec = rec]
  <1>3. CASE Reject(r)
      BY <1>1, <1>2, <1>3, RejectInv
  <1>4. CASE req' = [req EXCEPT ![r] = q]
    <2>1. rec \in JWKs \cup {Idle}
      <3>1. req[r].token \in Tokens
          BY <1>1 DEF Handled
      <3>2. req[r].token.iss \in IssuerIDs
          BY <3>1 DEF IssuerIDs
      <3> QED
          BY <3>2, Zenon DEF IInv, TypeOK
    <2> HIDE DEF rec
    <2>2. q \in Handled /\ q.pc = "validate"
        BY <1>1, <2>1, Zenon DEF Handled, Stages
    <2> HIDE DEF q
    <2> QED
        BY <1>2, <1>4, <2>2, MoveInv, Zenon
  <1> QED
      BY <1>3, <1>4 DEF GetJWK

\* What a service's clock says, in the server's time.
LEMMA ServerTime ==
    ASSUME NEW iat \in Int, NEW exp \in Int, NEW now \in Nat, NEW a \in 0 .. Drift,
           iat - Skew <= now + a, now + a < exp + Skew
    PROVE  iat - Skew - Drift <= now /\ now < exp + Skew
  <1>1. Skew \in Nat /\ Drift \in Nat
      BY BufferAssumption
  <1> QED
      BY <1>1

LEMMA AuthenticateInv ==
    ASSUME IInv, NEW r \in Requests, Authenticate(r)
    PROVE  IInv'
  <1>1. req[r] \in Handled
      BY NotIdle DEF Authenticate, Stages
  <1>2. UNCHANGED <<clock, ahead, jwks, jtis>>
      BY DEF Authenticate
  <1> DEFINE q == [req[r] EXCEPT !.pc = "claim", !.read = clock]
  <1>3. CASE Reject(r)
      BY <1>1, <1>2, <1>3, RejectInv
  <1>4. CASE Acceptable(r) /\ req' = [req EXCEPT ![r] = q]
    <2>1. clock \in Nat /\ clock \in 0 .. clock
        BY ClockNat
    <2>2. q \in Handled /\ q.pc = "claim" /\ q.read = clock /\ q.token = req[r].token
        BY <1>1, <2>1, Zenon DEF Handled, Stages
    <2> HIDE DEF q
    <2>3. req'[r] = q
        BY <1>4, Zenon DEF IInv, TypeOK
    <2>4. Checked(r)'
      <3>1. ahead[req[r].service] \in 0 .. Drift
          BY <1>1, Zenon DEF Handled, IInv, TypeOK
      <3>2. req[r].token \in Tokens
          BY <1>1 DEF Handled
      <3> DEFINE t == req[r].token
                 a == ahead[req[r].service]
      <3>3. /\ t.iat \in Int /\ t.exp \in Int /\ Skew \in Nat /\ Drift \in Nat
            /\ t.exp - t.iat <= MaxLifetime /\ t.jti # ""
            /\ t.iat - Skew <= clock + a /\ clock + a < t.exp + Skew
          BY <1>4, <3>2, BufferAssumption, Zenon DEF Acceptable, InTime, Now
      <3>4. t.iat - Skew - Drift <= clock /\ clock < t.exp + Skew
          BY <2>1, <3>1, <3>3, ServerTime, Zenon
      <3> QED
          BY <2>2, <2>3, <3>3, <3>4, Zenon DEF Checked
    <2> QED
        BY <1>2, <1>4, <2>2, <2>4, MoveInv, Zenon
  <1> QED
      BY <1>3, <1>4 DEF Authenticate

\* The heart of the argument: what was claimed TTL ago has expired, whatever
\* the service's clock says.
LEMMA TooLate ==
    ASSUME NEW iat \in Int, NEW exp \in Int, exp - iat <= MaxLifetime,
           NEW claimed \in Int, iat - Skew - Drift <= claimed,
           NEW read \in Int, read < exp + Skew,
           NEW now \in Int, now <= read + Delay
    PROVE  now < claimed + TTL
  <1>1. /\ Skew \in Int /\ MaxLifetime \in Int /\ TTL \in Int /\ Drift \in Int /\ Delay \in Int
        /\ MaxLifetime + 2 * Skew + Drift + Delay <= TTL
      BY BufferAssumption
  <1> QED
      BY <1>1

LEMMA CreateInv ==
    ASSUME IInv, NEW r \in Requests, At(r, "claim"), NEW q \in Handled,
           req' = [req EXCEPT ![r] = q],
           q.token = req[r].token, q.read = req[r].read,
           q.token.jti \notin DOMAIN jtis, jtis' = Create(q.token.jti),
           \/ q.pc = "rejected"
           \/ q.pc = "accepted" /\ q.claimed = clock /\ clock <= q.read + Delay,
           UNCHANGED <<clock, ahead, jwks>>
    PROVE  IInv'
  <1>1. req'[r] = q /\ \A p \in Requests \ {r} : req'[p] = req[p]
      BY Zenon DEF IInv, TypeOK
  <1>2. clock \in Nat /\ clock \in 0 .. clock
      BY ClockNat
  <1>3. q.token \in Tokens /\ q.read \in 0 .. clock /\ q.claimed \in 0 .. clock
      BY DEF Handled
  <1>4. Checked(r)
      BY DEF IInv, Claimed
  <1>5. Checked(r)'
      BY <1>1, <1>4, Zenon DEF Checked
  <1>6. /\ DOMAIN jtis' = DOMAIN jtis \cup {q.token.jti}
        /\ jtis'[q.token.jti] = clock
        /\ \A j \in DOMAIN jtis : jtis'[j] = jtis[j]
      BY DEF Create
  <1>7. TypeOK'
    <2>1. Handled' = Handled
        BY DEF Handled
    <2>2. q.token.jti \in {t.jti : t \in Tokens} \ {""}
        BY <1>3, <1>4, Zenon DEF Checked
    <2> QED
        BY <1>2, <1>6, <2>1, <2>2, Zenon DEF IInv, TypeOK
  <1>8. \A p \in Requests \ {r} : At(p, "accepted") /\ Held(p) => Held(p)'
      BY <1>1, <1>6 DEF Held
  <1>9. Claimed'
    <2> SUFFICES ASSUME NEW p \in Requests
                 PROVE  /\ At(p, "claim")' => Checked(p)'
                        /\ At(p, "accepted")' => /\ Checked(p)'
                                                 /\ req'[p].read <= req'[p].claimed
                                                 /\ Held(p)'
        BY DEF Claimed
    <2>1. CASE p = r
        BY <2>1, <1>1, <1>2, <1>3, <1>5, <1>6 DEF At, Held
    <2>2. CASE p # r
        BY <2>2, <1>1, <1>8, Zenon DEF At, IInv, Claimed, Checked
    <2> QED
        BY <2>1, <2>2
  <1>10. OneUse'
    <2>1. ASSUME NEW p \in Requests \ {r}, At(p, "accepted"), req[p].token = q.token,
                 q.pc = "accepted"
          PROVE  FALSE
      <3>1. Checked(p) /\ req[p].read <= req[p].claimed /\ clock >= req[p].claimed + TTL
          BY <2>1 DEF IInv, Claimed, Held
      <3>2. req[p] \in Handled
          BY <2>1, NotIdle DEF Stages
      <3>3. req[p].read \in Int /\ req[p].claimed \in Int
          BY <1>2, <3>2 DEF Handled
      <3>4. q.token.iat \in Int /\ q.token.exp \in Int /\ Skew \in Int /\ Drift \in Int
          BY <1>3, BufferAssumption
      <3>5. q.token.iat - Skew - Drift <= req[p].read /\ q.token.exp - q.token.iat <= MaxLifetime
          BY <2>1, <3>1, Zenon DEF Checked
      <3>6. q.token.iat - Skew - Drift <= req[p].claimed
          BY <3>1, <3>3, <3>4, <3>5
      <3>7. q.read \in Int /\ q.read < q.token.exp + Skew /\ clock <= q.read + Delay
        <4>1. q.read \in Int
            BY <1>2, <1>3
        <4>2. q.read < q.token.exp + Skew
            BY <1>4, Zenon DEF Checked
        <4>3. clock <= q.read + Delay
            BY <2>1
        <4> QED
            BY <4>1, <4>2, <4>3
      <3>8. clock \in Int
          BY <1>2
      <3>9. clock < req[p].claimed + TTL
          BY ONLY <3>3, <3>4, <3>5, <3>6, <3>7, <3>8, TooLate
      <3>10. TTL \in Int
          BY BufferAssumption
      <3> QED
          BY ONLY <3>1, <3>3, <3>8, <3>9, <3>10
    <2> QED
        BY <1>1, <2>1 DEF IInv, OneUse, At
  <1> QED
      BY <1>7, <1>9, <1>10 DEF IInv

LEMMA ClaimJTIInv ==
    ASSUME IInv, NEW r \in Requests, ClaimJTI(r)
    PROVE  IInv'
  <1>1. At(r, "claim") /\ UNCHANGED <<clock, ahead, jwks>>
      BY DEF ClaimJTI
  <1>2. req[r] \in Handled
      BY <1>1, NotIdle DEF Stages
  <1> DEFINE t == req[r].token
             q(pc) == [req[r] EXCEPT !.pc = pc, !.claimed = clock]
             rejected == [req[r] EXCEPT !.pc = "rejected"]
  <1>3. \A pc \in Stages : /\ q(pc) \in Handled /\ q(pc).pc = pc /\ q(pc).claimed = clock
                            /\ q(pc).token = t /\ q(pc).read = req[r].read
    <2>1. clock \in 0 .. clock
        BY ClockNat
    <2> QED
        BY <1>2, <2>1, Zenon DEF Handled
  <1>4. rejected \in Handled /\ rejected.pc = "rejected" /\ rejected.token = t
            /\ rejected.read = req[r].read
      BY <1>2 DEF Handled, Stages
  <1>5. CASE /\ t.jti \notin DOMAIN jtis /\ clock <= req[r].read + Delay
             /\ jtis' = Create(t.jti) /\ t.sub # ""
             /\ req' = [req EXCEPT ![r] = q("accepted")]
    <2> DEFINE p == q("accepted")
    <2>1. p \in Handled /\ p.pc = "accepted" /\ p.claimed = clock /\ p.token = t /\ p.read = req[r].read
        BY <1>3 DEF Stages
    <2>2. req' = [req EXCEPT ![r] = p]
        BY <1>5, Zenon
    <2> HIDE DEF p
    <2> QED
        BY <1>1, <1>5, <2>1, <2>2, CreateInv, Zenon
  <1>6. CASE /\ t.jti \notin DOMAIN jtis /\ jtis' = Create(t.jti)
             /\ req' = [req EXCEPT ![r] = q("rejected")]
    <2> DEFINE p == q("rejected")
    <2>1. p \in Handled /\ p.pc = "rejected" /\ p.token = t /\ p.read = req[r].read
        BY <1>3 DEF Stages
    <2>2. req' = [req EXCEPT ![r] = p]
        BY <1>6
    <2> HIDE DEF p
    <2> QED
        BY <1>1, <1>6, <2>1, <2>2, CreateInv, Zenon
  <1>7. CASE t.jti \notin DOMAIN jtis /\ jtis' = Create(t.jti) /\ Reject(r)
    <2>1. req' = [req EXCEPT ![r] = rejected]
        BY <1>7 DEF Reject
    <2> HIDE DEF rejected
    <2> QED
        BY <1>1, <1>4, <1>7, <2>1, CreateInv, Zenon
  <1>8. CASE Reject(r) /\ UNCHANGED jtis
      BY <1>1, <1>2, <1>8, RejectInv
  <1> QED
      BY <1>5, <1>6, <1>7, <1>8, Zenon DEF ClaimJTI

LEMMA StoreJWKInv ==
    ASSUME IInv, NEW i \in IssuerIDs, NEW rec \in JWKs, StoreJWK(i, rec)
    PROVE  IInv'
  <1>1. UNCHANGED <<clock, ahead, jtis, req>> /\ jwks' \in [IssuerIDs -> JWKs \cup {Idle}]
      BY Zenon DEF StoreJWK, IInv, TypeOK
  <1>2. Handled' = Handled
      BY <1>1 DEF Handled
  <1>3. TypeOK'
      BY <1>1, <1>2, Zenon DEF IInv, TypeOK
  <1>4. Claimed' /\ OneUse'
      BY <1>1, Zenon DEF IInv, Claimed, OneUse, At, Checked, Held
  <1> QED
      BY <1>3, <1>4 DEF IInv

\* Only a claim that is TTL old is dropped.
LEMMA ExpireInv ==
    ASSUME IInv, NEW j \in DOMAIN jtis, Expire(j)
    PROVE  IInv'
  <1>1. /\ UNCHANGED <<clock, ahead, jwks, req>>
        /\ DOMAIN jtis' = DOMAIN jtis \ {j}
        /\ \A k \in DOMAIN jtis \ {j} : jtis'[k] = jtis[k]
        /\ clock >= jtis[j] + TTL
      BY DEF Expire, Aged
  <1>2. Handled' = Handled
      BY <1>1 DEF Handled
  <1>3. TypeOK'
      BY <1>1, <1>2, Zenon DEF IInv, TypeOK
  <1>4. \A r \in Requests : Held(r) => Held(r)'
      BY <1>1 DEF Held
  <1>5. Claimed'
      BY <1>1, <1>4, Zenon DEF IInv, Claimed, At, Checked
  <1>6. OneUse'
      BY <1>1 DEF IInv, OneUse, At
  <1> QED
      BY <1>3, <1>5, <1>6 DEF IInv

LEMMA TickInv ==
    ASSUME IInv, Tick
    PROVE  IInv'
  <1>1. clock \in Nat /\ clock' = clock + 1 /\ clock < MaxClock /\ UNCHANGED <<ahead, jwks, jtis, req>>
      BY ClockNat DEF Tick
  <1>2. 0 .. clock \subseteq 0 .. clock' /\ clock' \in 0 .. MaxClock
      BY <1>1, BufferAssumption
  <1>3. Handled \subseteq Handled'
      BY <1>2 DEF Handled
  <1>4. TypeOK'
      BY <1>1, <1>2, <1>3, Zenon DEF IInv, TypeOK
  <1>5. ASSUME NEW r \in Requests, At(r, "accepted"), Held(r)
        PROVE  Held(r)'
    <2>1. req[r].claimed \in Int
        BY <1>1, <1>5, NotIdle DEF Handled, Stages
    <2>2. clock >= req[r].claimed + TTL => clock' >= req[r].claimed + TTL
        BY <1>1, <2>1, BufferAssumption
    <2> QED
        BY <1>1, <1>5, <2>2 DEF Held
  <1>6. Claimed'
      BY <1>1, <1>5, Zenon DEF IInv, Claimed, At, Checked
  <1>7. OneUse'
      BY <1>1 DEF IInv, OneUse, At
  <1> QED
      BY <1>4, <1>6, <1>7 DEF IInv

LEMMA NextInv == IInv /\ [Next]_vars => IInv'
  <1> SUFFICES ASSUME IInv, [Next]_vars PROVE IInv'
      OBVIOUS
  <1>1. CASE UNCHANGED vars
    <2>1. UNCHANGED <<clock, ahead, jwks, jtis, req>>
        BY <1>1 DEF vars
    <2>2. Handled' = Handled
        BY <2>1 DEF Handled
    <2>3. TypeOK'
        BY <2>1, <2>2, Zenon DEF IInv, TypeOK
    <2>4. Claimed' /\ OneUse'
        BY <2>1, Zenon DEF IInv, Claimed, OneUse, At, Checked, Held
    <2> QED
        BY <2>3, <2>4 DEF IInv
  <1> QED
      BY <1>1, ArriveInv, GetJWKInv, AuthenticateInv, ClaimJTIInv, StoreJWKInv, ExpireInv, TickInv
      DEF Next

LEMMA Inductive == Spec => []IInv
  BY InitInv, NextInv, PTL DEF Spec

\* The claims in the bucket and the requests are of their types.
THEOREM TypeCorrect == Spec => []TypeOK
  <1>1. IInv => TypeOK
      BY DEF IInv
  <1> QED
      BY <1>1, Inductive, PTL

\* No token of a static JWK issuer is accepted twice, for any number of
\* services and requests, whenever the TTL of jti-replay exceeds the longest
\* lifetime, the skew on both sides, the drift and the delay.
THEOREM TokenUsedOnce == Spec => []OneUse
  <1>1. IInv => OneUse
      BY DEF IInv
  <1> QED
      BY <1>1, Inductive, PTL

LEMMA HeldInv == IInv => UsedIsHeld
  <1> SUFFICES ASSUME IInv, NEW r \in Requests, NEW s \in Services, At(r, "accepted"),
                      InTime(req[r].token, clock + ahead[s])
               PROVE  req[r].token.jti \in DOMAIN jtis
      BY DEF UsedIsHeld
  <1> DEFINE t == req[r].token
  <1>1. clock \in Nat /\ clock \in Int
      BY ClockNat
  <1>2. req[r] \in Handled
      BY NotIdle DEF Stages
  <1>3. t \in Tokens /\ req[r].read \in Int /\ req[r].claimed \in Int
      BY <1>1, <1>2 DEF Handled
  <1>4. t.iat \in Int /\ t.exp \in Int /\ Skew \in Int /\ Drift \in Int /\ Delay \in Nat /\ TTL \in Int
      BY <1>3, BufferAssumption
  <1>5. Checked(r) /\ req[r].read <= req[r].claimed /\ Held(r)
      BY DEF IInv, Claimed
  <1>6. t.exp - t.iat <= MaxLifetime /\ t.iat - Skew - Drift <= req[r].read
      BY <1>5, Zenon DEF Checked
  <1>7. t.iat - Skew - Drift <= req[r].claimed
      BY ONLY <1>3, <1>4, <1>5, <1>6
  <1>8. ahead[s] \in 0 .. Drift /\ t.iat - Skew <= clock + ahead[s] /\ clock + ahead[s] < t.exp + Skew
      BY Zenon DEF IInv, TypeOK, InTime
  <1>9. clock < t.exp + Skew
      BY ONLY <1>1, <1>4, <1>8, ServerTime
  <1>10. clock <= clock + Delay
      BY ONLY <1>1, <1>4
  <1>11. clock < req[r].claimed + TTL
      BY ONLY <1>1, <1>3, <1>4, <1>6, <1>7, <1>9, <1>10, TooLate, Zenon
  <1>12. ~(clock >= req[r].claimed + TTL)
      BY ONLY <1>1, <1>3, <1>4, <1>11
  <1> QED
      BY <1>5, <1>12 DEF Held

\* The bucket holds the jti of an accepted token as long as any service's clock
\* finds the token in time.
THEOREM ClaimOutlastsToken == Spec => []UsedIsHeld
  BY HeldInv, Inductive, PTL
=============================================================================
