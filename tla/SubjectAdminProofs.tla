------------------------- MODULE SubjectAdminProofs -------------------------
(***************************************************************************)
(* What racing registrations and trust changes leave in the buckets and    *)
(* the ledger, for any number of requests and, unless a theorem says       *)
(* otherwise, under every fault.  A handler's step is justified by what    *)
(* its earlier steps wrote: the strengthening says so for each pc, and for *)
(* each answer of the locker on its way.                                   *)
(***************************************************************************)
EXTENDS SubjectAdmin, FiniteSetTheorems, TLAPS

\* A leaf that names no prover is tried with SMT, then with Zenon.
USE SMTT(30), ZenonT(30)

Pcs == {"none", "asking", "read", "write", "registry", "jwk", "seal", "sealing", "done", "failed"}

Flags == BOOLEAN

RequestType == [pc : Pcs, list : Lists \cup {NoList}, rev : Nat, key : Flags]
ReceiptType == [kind : {"registration", "trust"}, list : Lists \cup {NoList}]
Entries     == [list : Lists \cup {NoList}, rev : Nat]
Asks        == [Requests -> {"none", "sent", "sealing", "ok", "error", "dropped"}]

TypeInv ==
    /\ request \in [Requests -> RequestType]
    /\ ask \in Asks
    /\ trust \in Entries
    /\ receipts \in Seq(ReceiptType)

\* The registration is sealed in a ledger on disk.
Founded == onDisk /\ RegistrationReceipt \in Sealed

\* What has been done for a request at a step of its handler.
Done(r) ==
    /\ r \in Registrations /\ request[r].pc \in {"read", "write", "registry", "jwk"} => Founded
    /\ r \in Registrations /\ ask[r] = "ok" => Founded
    /\ r \in Registrations /\ ask[r] = "sealing" => onDisk
    /\ r \in Modifications => request[r].pc # "asking"
    /\ r \in Modifications /\ request[r].pc \in {"read", "write", "seal"} => registered
    /\ request[r].pc \in {"registry", "jwk"} => trust.rev > 0
    /\ request[r].pc = "jwk" => registered

Order == RegisteredInOrder /\ \A r \in Requests : Done(r)

Wrote == {r \in Requests : request[r].pc \in {"registry", "jwk", "seal", "sealing", "done"}}

\* Whoever wrote did so at a revision that is past.
Past == \A r \in Wrote : request[r].rev < trust.rev

Revisions == NoLostUpdate /\ Past

-----------------------------------------------------------------------------
\* A handler's records are typed: made, moved on, and with a revision read.
LEMMA Made ==
    ASSUME NEW pc \in Pcs, NEW list \in Lists \cup {NoList}, NEW key \in BOOLEAN
    PROVE  [pc |-> pc, list |-> list, rev |-> 0, key |-> key] \in RequestType
<1>1. key \in Flags
  BY DEF Flags
<1> QED BY <1>1 DEF RequestType

LEMMA Moved ==
    ASSUME NEW q \in RequestType, NEW pc \in Pcs
    PROVE  [q EXCEPT !.pc = pc] \in RequestType
BY DEF RequestType

LEMMA MovedRead ==
    ASSUME NEW q \in RequestType, NEW pc \in Pcs, NEW n \in Nat
    PROVE  [q EXCEPT !.pc = pc, !.rev = n] \in RequestType
BY Zenon DEF RequestType

LEMMA GoToTyped ==
    ASSUME TypeInv, NEW r \in Requests, NEW pc \in Pcs, GoTo(r, pc)
    PROVE  request' \in [Requests -> RequestType]
BY Moved DEF TypeInv, GoTo

LEMMA GoToMoves ==
    ASSUME TypeInv, NEW r \in Requests, NEW pc, GoTo(r, pc), NEW q \in Requests
    PROVE  /\ request'[q].pc = IF q = r THEN pc ELSE request[q].pc
           /\ request'[q].rev = request[q].rev
BY DEF TypeInv, RequestType, GoTo

\* A locker's answer keeps the type of the calls.
LEMMA RespondTyped ==
    ASSUME TypeInv, NEW r \in Requests, NEW a \in {"ok", "error"}, Respond(r, a)
    PROVE  ask' \in Asks
BY DEF TypeInv, Respond, Asks

\* Nothing has been asked, written or sealed at the start.
LEMMA TypeInit == Init => TypeInv
<1>1. NotMade \in RequestType
  BY Made, Zenon DEF NotMade, Pcs
<1>2. ASSUME Init PROVE request \in [Requests -> RequestType]
  BY <1>1, <1>2 DEF Init
<1>3. ASSUME Init PROVE ask \in Asks
  BY <1>3 DEF Init, Asks
<1>4. ASSUME Init PROVE trust \in Entries /\ receipts \in Seq(ReceiptType)
  BY <1>4 DEF Init, Entries
<1> QED BY <1>2, <1>3, <1>4 DEF TypeInv

\* Every step of the handlers and the locker keeps the types.
LEMMA TypeStep == TypeInv /\ [Next]_vars => TypeInv'
<1> SUFFICES ASSUME TypeInv, [Next]_vars PROVE TypeInv'
  OBVIOUS
<1> USE DEF TypeInv, store, calls, locker
<1>1. ASSUME NEW r \in Registrations, NEW list \in Lists, NEW key \in BOOLEAN,
             RegisterSubject(r, list, key)
      PROVE  TypeInv'
  <2>1. \A pc \in {"asking", "failed"} :
            [pc |-> pc, list |-> list, rev |-> 0, key |-> key] \in RequestType
    BY Made DEF Pcs
  <2>2. request' \in [Requests -> RequestType]
    BY <1>1, <2>1 DEF RegisterSubject, Ask
  <2>3. ask' \in Asks
    BY <1>1 DEF RegisterSubject, Ask, Asks
  <2> QED BY <1>1, <2>2, <2>3 DEF RegisterSubject
<1>2. ASSUME NEW r \in Modifications, NEW list \in Lists, ModifyTrust(r, list)
      PROVE  TypeInv'
  <2>1. \A pc \in {"read", "failed"} :
            [pc |-> pc, list |-> list, rev |-> 0, key |-> FALSE] \in RequestType
    BY Made, Zenon DEF Pcs
  <2>2. request' \in [Requests -> RequestType]
    BY <1>2, <2>1, Zenon DEF ModifyTrust
  <2> QED BY <1>2, <2>2 DEF ModifyTrust
<1>3. ASSUME NEW r \in Requests, Gateway(r)
      PROVE  TypeInv'
  <2>1. CASE RegisterReply(r) \/ RegisterTimeout(r) \/ WriteConflict(r) \/ StoreFails(r) \/ SealAnswered(r)
    <3>1. \E pc \in Pcs : GoTo(r, pc)
      BY <2>1 DEF RegisterReply, RegisterTimeout, WriteConflict, StoreFails, SealAnswered, Pcs
    <3> QED BY <2>1, <3>1, GoToTyped
            DEF RegisterReply, RegisterTimeout, WriteConflict, StoreFails, SealAnswered
  <2>2. CASE ReadTrust(r)
    <3>1. request' \in [Requests -> RequestType]
      BY <2>2, MovedRead, Zenon DEF ReadTrust, Pcs, Entries
    <3> QED BY <2>2, <3>1, SMTT(30) DEF ReadTrust
  <2>3. CASE WriteTrust(r)
    <3>1. \E pc \in Pcs : GoTo(r, pc)
      BY <2>3 DEF WriteTrust, AfterWrite, Pcs
    <3>2. trust' \in Entries
      BY <2>3 DEF WriteTrust, Entries, RequestType
    <3> QED BY <2>3, <3>1, <3>2, GoToTyped DEF WriteTrust
  <2>4. CASE PutRegistry(r) \/ StoreJWK(r)
    <3>1. \E pc \in Pcs : GoTo(r, pc)
      BY <2>4 DEF PutRegistry, StoreJWK, Pcs
    <3> QED BY <2>4, <3>1, GoToTyped DEF PutRegistry, StoreJWK
  <2>5. CASE AskSeal(r)
    <3>1. \E pc \in Pcs : GoTo(r, pc)
      BY <2>5 DEF AskSeal, Ask, Pcs
    <3>2. ask' \in Asks
      BY <2>5 DEF AskSeal, Ask, Asks
    <3> QED BY <2>5, <3>1, <3>2, GoToTyped DEF AskSeal
  <2> QED BY <1>3, <2>1, <2>2, <2>3, <2>4, <2>5 DEF Gateway
<1>4. ASSUME NEW r \in Requests, Locker(r)
      PROVE  TypeInv'
  <2>1. CASE LedgerExists(r)
    BY <2>1, RespondTyped DEF LedgerExists
  <2>2. CASE CreateLedger(r)
    <3>1. ask' \in Asks
      BY <2>2, RespondTyped, Zenon DEF CreateLedger, Asks
    <3> QED BY <2>2, <3>1 DEF CreateLedger
  <2>3. CASE SealRegistration(r)
    <3>1. RegistrationReceipt \in ReceiptType
      BY DEF RegistrationReceipt, ReceiptType
    <3> QED BY <2>3, <3>1, RespondTyped DEF SealRegistration
  <2>4. CASE HandleSealTrust(r)
    <3>1. TrustReceipt(request[r].list) \in ReceiptType
      BY DEF TrustReceipt, ReceiptType, RequestType
    <3> QED BY <2>4, <3>1, RespondTyped DEF HandleSealTrust
  <2> QED BY <1>4, <2>1, <2>2, <2>3, <2>4 DEF Locker
<1>5. CASE GatewayCrash
  <2>1. \A r \in Requests : [request[r] EXCEPT !.pc = "failed"] \in RequestType
    BY Moved, Zenon DEF Pcs
  <2>2. \A r \in Requests : [request[r] EXCEPT !.pc = request[r].pc] \in RequestType
    BY Moved DEF RequestType
  <2>3. request' \in [Requests -> RequestType]
    BY <1>5, <2>1, <2>2 DEF GatewayCrash
  <2> QED BY <1>5, <2>3 DEF GatewayCrash
<1>6. CASE Crash
  BY <1>6 DEF Crash, Asks
<1>7. CASE Restart
  BY <1>7 DEF Restart
<1>8. CASE UNCHANGED vars
  BY <1>8 DEF vars
<1> QED BY <1>1, <1>2, <1>3, <1>4, <1>5, <1>6, <1>7, <1>8 DEF Next

\* Requests, buckets, calls and receipts keep their types.
THEOREM AdminTyped == Spec => []TypeInv
BY TypeInit, TypeStep, PTL DEF Spec

-----------------------------------------------------------------------------
\* Sealing adds one receipt.
LEMMA SealedAppend ==
    ASSUME TypeInv, NEW x \in ReceiptType, receipts' = Append(receipts, x)
    PROVE  Sealed' = Sealed \cup {x}
BY DEF TypeInv, Sealed

\* The locker's steps never take the ledger or a receipt away.
LEMMA FoundedStays ==
    ASSUME TypeInv, [Next]_vars
    PROVE  (onDisk => onDisk') /\ (Founded => Founded')
<1> USE DEF store, calls, locker, Founded, Sealed
<1>1. ASSUME NEW r \in Requests, Locker(r)
      PROVE  (onDisk => onDisk') /\ (Founded => Founded')
  <2>1. CASE LedgerExists(r)
    BY <2>1 DEF LedgerExists
  <2>2. CASE CreateLedger(r)
    <3>1. onDisk' = onDisk \/ onDisk' = TRUE
      BY <2>2, Zenon DEF CreateLedger
    <3>2. Sealed' = Sealed
      BY <2>2 DEF CreateLedger
    <3>3. onDisk => onDisk'
      BY <3>1, Zenon
    <3> QED BY <3>2, <3>3, Zenon DEF Founded
  <2>3. CASE SealRegistration(r)
    BY <2>3, SealedAppend DEF SealRegistration, RegistrationReceipt, ReceiptType
  <2>4. CASE HandleSealTrust(r)
    <3>1. TrustReceipt(request[r].list) \in ReceiptType
      BY DEF TrustReceipt, ReceiptType, TypeInv, RequestType
    <3> QED BY <2>4, <3>1, SealedAppend DEF HandleSealTrust
  <2> QED BY <1>1, <2>1, <2>2, <2>3, <2>4 DEF Locker
<1>2. ASSUME NEW r \in Requests, Gateway(r)
      PROVE  UNCHANGED <<onDisk, receipts>>
  BY <1>2 DEF Gateway, RegisterReply, RegisterTimeout, ReadTrust, WriteTrust, WriteConflict, PutRegistry,
              StoreJWK, StoreFails, AskSeal, SealAnswered
<1> QED BY <1>1, <1>2 DEF Next, RegisterSubject, ModifyTrust, GatewayCrash, Crash, Restart, vars

-----------------------------------------------------------------------------
\* Nothing has been done for any request at the start.
LEMMA OrderInit == Init => Order
BY DEF Init, Order, RegisteredInOrder, Done, NotMade

\* Each step of a handler leaves what the next one needs.
LEMMA OrderStep == TypeInv /\ Order /\ [Next]_vars => Order'
<1> SUFFICES ASSUME TypeInv, Order, [Next]_vars PROVE Order'
  OBVIOUS
<1>0. (onDisk => onDisk') /\ (Founded => Founded')
  BY FoundedStays
<1>a. trust.rev \in Nat /\ \A q \in Requests : request[q].rev \in Nat
  BY DEF TypeInv, Entries, RequestType
<1> DEFINE Same == UNCHANGED <<trust, registered, jwk>>
<1>b. ASSUME Same PROVE RegisteredInOrder'
  BY <1>0, <1>b DEF Order, RegisteredInOrder, Founded
<1>1. ASSUME NEW r \in Registrations, NEW list \in Lists, NEW key \in BOOLEAN,
             RegisterSubject(r, list, key)
      PROVE  Order'
  <2>1. ASSUME NEW q \in Requests PROVE Done(q)'
    BY <1>0, <1>1, <2>1, AdminAssumption DEF RegisterSubject, Ask, Order, Done, TypeInv, Asks, store, calls
  <2> QED BY <1>1, <1>b, <2>1 DEF RegisterSubject, Order, store
<1>2. ASSUME NEW r \in Modifications, NEW list \in Lists, ModifyTrust(r, list)
      PROVE  Order'
  <2>1. ASSUME NEW q \in Requests PROVE Done(q)'
    BY <1>0, <1>2, <2>1, AdminAssumption DEF ModifyTrust, Order, Done, TypeInv, store, calls
  <2> QED BY <1>2, <1>b, <2>1 DEF ModifyTrust, Order, store
<1>3. ASSUME NEW r \in Requests, Gateway(r)
      PROVE  Order'
  <2>1. CASE RegisterReply(r)
    <3>1. ASSUME NEW q \in Requests PROVE Done(q)'
      BY <1>0, <2>1, <3>1, Zenon DEF RegisterReply, GoTo, Order, Done, TypeInv, RequestType, store, calls
    <3> QED BY <2>1, <1>b, <3>1 DEF RegisterReply, Order, store
  <2>2. CASE RegisterTimeout(r) \/ WriteConflict(r) \/ StoreFails(r) \/ SealAnswered(r)
    <3>0. /\ GoTo(r, "failed") \/ GoTo(r, "done")
          /\ UNCHANGED <<calls, store, locker>>
      BY <2>2 DEF RegisterTimeout, WriteConflict, StoreFails, SealAnswered
    <3>1. ASSUME NEW q \in Requests PROVE Done(q)'
      BY <1>0, <3>0, <3>1 DEF GoTo, Order, Done, TypeInv, RequestType, store, calls
    <3> QED BY <2>2, <1>b, <3>1 DEF RegisterTimeout, WriteConflict, StoreFails, SealAnswered, Order, store
  <2>3. CASE ReadTrust(r)
    <3>1. ASSUME NEW q \in Requests PROVE Done(q)'
      BY <1>0, <2>3, <3>1 DEF ReadTrust, Order, Done, TypeInv, RequestType, store, calls
    <3> QED BY <2>3, <1>b, <3>1 DEF ReadTrust, Order, store
  <2>4. CASE WriteTrust(r)
    <3>1. trust'.rev = trust.rev + 1
      BY <2>4 DEF WriteTrust
    <3>2. Founded
      BY <2>4 DEF WriteTrust, Order, Done, RegisteredInOrder, Founded, Requests
    <3>3. RegisteredInOrder'
      BY <1>0, <1>a, <2>4, <3>1, <3>2 DEF WriteTrust, Order, RegisteredInOrder, Founded
    <3>4. ASSUME NEW q \in Requests PROVE Done(q)'
      <4>1. \/ request'[q].pc = request[q].pc
            \/ q = r /\ request'[q].pc \in {AfterWrite(r), "failed"}
        BY <2>4, GoToMoves DEF WriteTrust
      <4>2. q = r => request[q].pc = "write"
        BY <2>4 DEF WriteTrust
      <4>3. trust'.rev > 0
        BY <1>a, <3>1
      <4>4. registered' = registered /\ ask' = ask
        BY <2>4 DEF WriteTrust, calls
      <4> QED BY <1>0, <4>1, <4>2, <4>3, <4>4, AdminAssumption DEF AfterWrite, Order, Done
    <3> QED BY <3>3, <3>4 DEF Order
  <2>5. CASE PutRegistry(r)
    <3>1. RegisteredInOrder'
      BY <1>0, <2>5 DEF PutRegistry, Order, Done, RegisteredInOrder, Founded
    <3>2. ASSUME NEW q \in Requests PROVE Done(q)'
      BY <1>0, <2>5, <3>2 DEF PutRegistry, GoTo, Order, Done, TypeInv, RequestType, calls
    <3> QED BY <3>1, <3>2 DEF Order
  <2>6. CASE StoreJWK(r)
    <3>1. RegisteredInOrder'
      BY <1>0, <2>6 DEF StoreJWK, Order, Done, RegisteredInOrder, Founded
    <3>2. ASSUME NEW q \in Requests PROVE Done(q)'
      BY <1>0, <2>6, <3>2 DEF StoreJWK, GoTo, Order, Done, TypeInv, RequestType, calls
    <3> QED BY <3>1, <3>2 DEF Order
  <2>7. CASE AskSeal(r)
    <3>1. ASSUME NEW q \in Requests PROVE Done(q)'
      <4>1. \/ request'[q].pc = request[q].pc
            \/ q = r /\ request'[q].pc \in {"sealing", "done"}
        BY <2>7, GoToMoves DEF AskSeal, Ask
      <4>2. ask'[q] = ask[q] \/ ask'[q] = "sent"
        BY <2>7 DEF AskSeal, Ask, TypeInv, Asks, calls
      <4>3. registered' = registered /\ trust' = trust
        BY <2>7 DEF AskSeal, store
      <4> QED BY <1>0, <4>1, <4>2, <4>3 DEF Order, Done
    <3> QED BY <2>7, <1>b, <3>1 DEF AskSeal, Order, store
  <2> QED BY <1>3, <2>1, <2>2, <2>3, <2>4, <2>5, <2>6, <2>7 DEF Gateway
<1>4. ASSUME NEW r \in Requests, Locker(r)
      PROVE  Order'
  <2>1. CASE LedgerExists(r)
    <3>1. ASSUME NEW q \in Requests PROVE Done(q)'
      BY <1>0, <2>1, <3>1 DEF LedgerExists, Respond, Order, Done, TypeInv, Asks, store
    <3> QED BY <2>1, <1>b, <3>1 DEF LedgerExists, Order, store
  <2>2. CASE CreateLedger(r)
    <3>1. ASSUME NEW q \in Requests PROVE Done(q)'
      BY <1>0, <2>2, <3>1, Zenon DEF CreateLedger, Respond, Order, Done, TypeInv, Asks, store
    <3> QED BY <2>2, <1>b, <3>1 DEF CreateLedger, Order, store
  <2>3. CASE SealRegistration(r)
    <3>1. RegistrationReceipt \in ReceiptType
      BY DEF RegistrationReceipt, ReceiptType
    <3>2. receipts' = Append(receipts, RegistrationReceipt) => Founded'
      BY <2>3, <3>1, SealedAppend, Zenon DEF SealRegistration, Order, Done, Founded
    <3>3. ASSUME NEW q \in Requests PROVE Done(q)'
      BY <1>0, <2>3, <3>2, <3>3 DEF SealRegistration, Respond, Order, Done, TypeInv, Asks, store
    <3> QED BY <2>3, <1>b, <3>3 DEF SealRegistration, Order, store
  <2>4. CASE HandleSealTrust(r)
    <3>1. ASSUME NEW q \in Requests PROVE Done(q)'
      BY <1>0, <2>4, <3>1, AdminAssumption DEF HandleSealTrust, Respond, Order, Done, TypeInv, Asks, store
    <3> QED BY <2>4, <1>b, <3>1 DEF HandleSealTrust, Order, store
  <2> QED BY <1>4, <2>1, <2>2, <2>3, <2>4 DEF Locker
<1>5. CASE GatewayCrash
  <2>1. ASSUME NEW q \in Requests PROVE Done(q)'
    BY <1>0, <1>5, <2>1 DEF GatewayCrash, Ended, Order, Done, TypeInv, RequestType, Pcs, store, calls
  <2> QED BY <1>5, <1>b, <2>1 DEF GatewayCrash, Order, store
<1>6. CASE Crash
  <2>1. ASSUME NEW q \in Requests PROVE Done(q)'
    BY <1>0, <1>6, <2>1 DEF Crash, Order, Done, store
  <2> QED BY <1>6, <1>b, <2>1 DEF Crash, Order, store
<1>7. CASE Restart
  <2>1. ASSUME NEW q \in Requests PROVE Done(q)'
    BY <1>0, <1>7, <2>1 DEF Restart, Order, Done, store, calls
  <2> QED BY <1>7, <1>b, <2>1 DEF Restart, Order, store
<1>8. CASE UNCHANGED vars
  <2>1. ASSUME NEW q \in Requests PROVE Done(q)'
    BY <1>0, <1>8, <2>1 DEF vars, Order, Done, store, calls
  <2> QED BY <1>8, <1>b, <2>1 DEF vars, Order, store
<1> QED BY <1>1, <1>2, <1>3, <1>4, <1>5, <1>6, <1>7, <1>8 DEF Next

\* RegisterSubject and ModifyTrust never let the buckets run ahead of the
\* ledger, for any number of requests and under every fault.
THEOREM RegistrationOrder == Spec => []RegisteredInOrder
<1>1. Init => TypeInv /\ Order
  BY TypeInit, OrderInit
<1>2. TypeInv /\ Order /\ [Next]_vars => (TypeInv /\ Order)'
  BY TypeStep, OrderStep
<1>3. TypeInv /\ Order => RegisteredInOrder
  BY DEF Order
<1> QED BY <1>1, <1>2, <1>3, PTL DEF Spec

-----------------------------------------------------------------------------
\* Nobody has written at the start.
LEMMA RevisionsInit == Init => Revisions
BY DEF Init, Revisions, NoLostUpdate, Past, Wrote, NotMade

\* Steps that move no request past the write, and leave the bucket alone.
LEMMA RevisionsKept ==
    ASSUME Revisions, trust' = trust,
           \A q \in Requests : q \in Wrote' => q \in Wrote /\ request'[q].rev = request[q].rev
    PROVE  Revisions'
BY DEF Revisions, NoLostUpdate, Past, Wrote

\* A write happens at the current revision, past which nobody has written.
LEMMA RevisionsStep == TypeInv /\ Revisions /\ [Next]_vars => Revisions'
<1> SUFFICES ASSUME TypeInv, Revisions, [Next]_vars PROVE Revisions'
  OBVIOUS
<1>a. trust.rev \in Nat /\ \A q \in Requests : request[q].rev \in Nat
  BY DEF TypeInv, Entries, RequestType
<1>1. ASSUME NEW r \in Registrations, NEW list \in Lists, NEW key \in BOOLEAN,
             RegisterSubject(r, list, key)
      PROVE  Revisions'
  <2>1. \A q \in Requests : \/ request'[q] = request[q]
                            \/ request'[q].pc \in {"asking", "failed"}
    BY <1>1 DEF RegisterSubject, Ask, TypeInv
  <2> QED BY <1>1, <2>1, RevisionsKept DEF RegisterSubject, store, Wrote
<1>2. ASSUME NEW r \in Modifications, NEW list \in Lists, ModifyTrust(r, list)
      PROVE  Revisions'
  <2>1. \A q \in Requests : \/ request'[q] = request[q]
                            \/ request'[q].pc \in {"read", "failed"}
    BY <1>2 DEF ModifyTrust, TypeInv
  <2> QED BY <1>2, <2>1, RevisionsKept DEF ModifyTrust, store, Wrote
<1>3. ASSUME NEW r \in Requests, Gateway(r)
      PROVE  Revisions'
  <2>1. CASE RegisterReply(r) \/ RegisterTimeout(r) \/ WriteConflict(r) \/ StoreFails(r)
    <3>1. GoTo(r, "failed") \/ GoTo(r, "read")
      BY <2>1 DEF RegisterReply, RegisterTimeout, WriteConflict, StoreFails
    <3>2. trust' = trust
      BY <2>1 DEF RegisterReply, RegisterTimeout, WriteConflict, StoreFails, store
    <3> QED BY <3>1, <3>2, GoToMoves, RevisionsKept DEF Wrote
  <2>2. CASE ReadTrust(r)
    <3>1. \A q \in Requests : request'[q] = request[q] \/ request'[q].pc = "write"
      BY <2>2 DEF ReadTrust, TypeInv, RequestType
    <3> QED BY <2>2, <3>1, RevisionsKept, Zenon DEF ReadTrust, store, Wrote
  <2>3. CASE WriteTrust(r)
    <3>1. request[r].rev = trust.rev /\ trust'.rev = trust.rev + 1
      BY <2>3 DEF WriteTrust, SameRevision
    <3>2. \A q \in Requests : /\ q \in Wrote' => q = r \/ q \in Wrote
                              /\ request'[q].rev = request[q].rev
      BY <2>3, GoToMoves DEF WriteTrust, Wrote
    <3>3. Past'
      BY <1>a, <3>1, <3>2 DEF Revisions, Past, Wrote
    <3>4. NoLostUpdate'
      BY <1>a, <3>1, <3>2 DEF Revisions, Past, NoLostUpdate, Wrote
    <3> QED BY <3>3, <3>4 DEF Revisions
  <2>4. CASE PutRegistry(r) \/ StoreJWK(r) \/ AskSeal(r) \/ SealAnswered(r)
    <3>1. r \in Wrote /\ \E pc \in Pcs : GoTo(r, pc)
      BY <2>4 DEF PutRegistry, StoreJWK, AskSeal, Ask, SealAnswered, Wrote, Pcs
    <3>2. trust' = trust
      BY <2>4 DEF PutRegistry, StoreJWK, AskSeal, SealAnswered, store
    <3> QED BY <3>1, <3>2, GoToMoves, RevisionsKept DEF Wrote
  <2> QED BY <1>3, <2>1, <2>2, <2>3, <2>4 DEF Gateway
<1>4. ASSUME NEW r \in Requests, Locker(r)
      PROVE  Revisions'
  BY <1>4, RevisionsKept, Zenon
  DEF Locker, LedgerExists, CreateLedger, SealRegistration, HandleSealTrust, store, Wrote
<1>5. CASE GatewayCrash
  <2>1. \A q \in Requests : /\ request'[q].rev = request[q].rev
                            /\ request'[q].pc \in {request[q].pc, "failed"}
    BY <1>5 DEF GatewayCrash, TypeInv, RequestType
  <2> QED BY <1>5, <2>1, RevisionsKept DEF GatewayCrash, store, Wrote
<1>6. CASE Crash \/ Restart \/ UNCHANGED vars
  BY <1>6, RevisionsKept DEF Crash, Restart, vars, store, Wrote
<1> QED BY <1>1, <1>2, <1>3, <1>4, <1>5, <1>6 DEF Next

\* SetPublisherTrust never silently overwrites a concurrent change, for any
\* number of registrations and modifications and under every fault.
THEOREM NoUpdateIsLost == Spec => []NoLostUpdate
<1>1. Init => TypeInv /\ Revisions
  BY TypeInit, RevisionsInit
<1>2. TypeInv /\ Revisions /\ [Next]_vars => (TypeInv /\ Revisions)'
  BY TypeStep, RevisionsStep
<1>3. TypeInv /\ Revisions => NoLostUpdate
  BY DEF Revisions
<1> QED BY <1>1, <1>2, <1>3, PTL DEF Spec

-----------------------------------------------------------------------------
\* While no restart skips the ledger, the locker has a registered one open, and
\* only one registration is being sealed, in a ledger that has none.
Once ==
    /\ \A i, j \in 1 .. Len(receipts) :
          receipts[i] = RegistrationReceipt /\ receipts[j] = RegistrationReceipt => i = j
    /\ RegistrationReceipt \in Sealed => onDisk /\ (up => open)
    /\ \A q \in Registrations :
          ask[q] = "sealing" =>
              /\ up /\ open /\ onDisk
              /\ RegistrationReceipt \notin Sealed
              /\ \A o \in Registrations : ask[o] = "sealing" => o = q

\* Steps that seal nothing and begin no sealing.
LEMMA OnceKept ==
    ASSUME Once, UNCHANGED <<receipts, up, onDisk, open>>,
           \A q \in Registrations : ask'[q] = "sealing" => ask[q] = "sealing"
    PROVE  Once'
BY DEF Once, Sealed

\* CreateLedger refuses a ledger that is open, so no second registration is sealed.
LEMMA OnceStep ==
    ASSUME ~skipped', TypeInv, Once, [Next]_vars
    PROVE  Once'
<1>1. ASSUME NEW r \in Registrations, NEW list \in Lists, NEW key \in BOOLEAN,
             RegisterSubject(r, list, key)
      PROVE  Once'
  <2>1. \A q \in Registrations : ask'[q] = "sealing" => ask[q] = "sealing"
    BY <1>1 DEF RegisterSubject, Ask, calls, TypeInv, Asks, Requests
  <2> QED BY <1>1, <2>1, OnceKept DEF RegisterSubject, locker
<1>2. ASSUME NEW r \in Modifications, NEW list \in Lists, ModifyTrust(r, list)
      PROVE  Once'
  BY <1>2, OnceKept DEF ModifyTrust, calls, locker
<1>3. ASSUME NEW r \in Requests, Gateway(r)
      PROVE  Once'
  <2>1. UNCHANGED <<receipts, up, onDisk, open>>
    BY <1>3 DEF Gateway, RegisterReply, RegisterTimeout, ReadTrust, WriteTrust, WriteConflict,
                PutRegistry, StoreJWK, StoreFails, AskSeal, SealAnswered, locker
  <2>2. ask' = ask \/ ask' = [ask EXCEPT ![r] = "sent"]
    BY <1>3 DEF Gateway, RegisterReply, RegisterTimeout, ReadTrust, WriteTrust, WriteConflict,
                PutRegistry, StoreJWK, StoreFails, AskSeal, Ask, SealAnswered, calls
  <2>3. \A q \in Registrations : ask'[q] = "sealing" => ask[q] = "sealing"
    BY <2>2 DEF TypeInv, Asks, Requests
  <2> QED BY <2>1, <2>3, OnceKept
<1>4. ASSUME NEW r \in Requests, Locker(r)
      PROVE  Once'
  <2>1. CASE LedgerExists(r)
    <3>1. \A q \in Registrations : ask'[q] = "sealing" => ask[q] = "sealing"
      BY <2>1 DEF LedgerExists, Respond, TypeInv, Asks, Requests
    <3> QED BY <2>1, <3>1, OnceKept DEF LedgerExists, locker
  <2>2. CASE CreateLedger(r)
    <3>1. up' = up /\ up /\ ~open /\ receipts' = receipts /\ Sealed' = Sealed
      BY <2>2 DEF CreateLedger, Take, HasLedger, Sealed
    <3>2. RegistrationReceipt \notin Sealed
      BY <3>1 DEF Once
    <3>3. \/ open' = TRUE /\ onDisk' = TRUE
          \/ \A q \in Registrations : ask'[q] # "sealing"
      BY <2>2, Zenon DEF CreateLedger, Respond, TypeInv, Asks, Requests
    <3>4. \A q \in Registrations : ask'[q] = "sealing" => q = r
      BY <2>2, Zenon DEF CreateLedger, Respond, TypeInv, Asks, Requests
    <3> QED BY <3>1, <3>2, <3>3, <3>4 DEF Once
  <2>3. CASE SealRegistration(r)
    <3>1. r \in Registrations /\ ask[r] = "sealing" /\ UNCHANGED <<up, onDisk, open>>
      BY <2>3 DEF SealRegistration
    <3>2. up /\ open /\ onDisk /\ RegistrationReceipt \notin Sealed
      BY <3>1 DEF Once
    <3>3. \A q \in Registrations : ask'[q] # "sealing"
      BY <2>3, <3>1 DEF SealRegistration, Respond, Once, TypeInv, Asks, Requests
    <3>4. CASE receipts' = receipts
      BY <3>1, <3>3, <3>4, OnceKept
    <3>5. CASE receipts' = Append(receipts, RegistrationReceipt)
      <4>1. Len(receipts) \in Nat /\ Len(receipts') = Len(receipts) + 1
        BY <3>5 DEF TypeInv
      <4>2. \A i \in 1 .. Len(receipts) : receipts'[i] = receipts[i] /\ receipts[i] # RegistrationReceipt
        BY <3>2, <3>5 DEF TypeInv, Sealed
      <4>3. \A i \in 1 .. Len(receipts') : receipts'[i] = RegistrationReceipt => i = Len(receipts')
        BY <4>1, <4>2
      <4> QED BY <3>1, <3>2, <3>3, <4>3 DEF Once
    <3> QED BY <2>3, <3>4, <3>5 DEF SealRegistration
  <2>4. CASE HandleSealTrust(r)
    <3>1. \A q \in Registrations : ask'[q] = "sealing" => ask[q] = "sealing"
      BY <2>4 DEF HandleSealTrust, Respond, TypeInv, Asks, Requests
    <3>2. UNCHANGED <<up, onDisk, open>>
      BY <2>4 DEF HandleSealTrust
    <3>3. CASE receipts' = receipts
      BY <3>1, <3>2, <3>3, OnceKept
    <3>4. CASE receipts' = Append(receipts, TrustReceipt(request[r].list))
      <4>1. TrustReceipt(request[r].list) \in ReceiptType
        BY DEF TrustReceipt, ReceiptType, TypeInv, RequestType
      <4>2. TrustReceipt(request[r].list) # RegistrationReceipt
        BY DEF TrustReceipt, RegistrationReceipt
      <4>3. RegistrationReceipt \in Sealed' => RegistrationReceipt \in Sealed
        BY <3>4, <4>1, <4>2, SealedAppend
      <4>4. \A i \in 1 .. Len(receipts') :
                receipts'[i] = RegistrationReceipt =>
                    i \in 1 .. Len(receipts) /\ receipts[i] = RegistrationReceipt
        BY <3>4, <4>1, <4>2 DEF TypeInv
      <4> QED BY <3>1, <3>2, <4>3, <4>4 DEF Once
    <3> QED BY <2>4, <3>3, <3>4 DEF HandleSealTrust
  <2> QED BY <1>4, <2>1, <2>2, <2>3, <2>4 DEF Locker
<1>5. CASE GatewayCrash
  BY <1>5, OnceKept DEF GatewayCrash, calls, locker
<1>6. CASE Crash
  BY <1>6 DEF Crash, Once, Sealed, Requests
<1>7. CASE Restart
  BY <1>7 DEF Restart, Once, Sealed, calls
<1>8. CASE UNCHANGED vars
  BY <1>8, OnceKept DEF vars, calls, locker
<1> QED BY <1>1, <1>2, <1>3, <1>4, <1>5, <1>6, <1>7, <1>8 DEF Next

\* A ledger that was skipped remains one that was.
LEMMA SkippedStays ==
    ASSUME [Next]_vars, ~skipped'
    PROVE  ~skipped
<1> USE DEF locker
<1>1. ASSUME NEW r \in Requests, Gateway(r) PROVE skipped' = skipped
  BY <1>1 DEF Gateway, RegisterReply, RegisterTimeout, ReadTrust, WriteTrust, WriteConflict,
              PutRegistry, StoreJWK, StoreFails, AskSeal, SealAnswered
<1>2. ASSUME NEW r \in Requests, Locker(r) PROVE skipped' = skipped
  BY <1>2 DEF Locker, LedgerExists, CreateLedger, SealRegistration, HandleSealTrust
<1>3. CASE GatewayCrash \/ Crash \/ Restart \/ UNCHANGED vars
  BY <1>3 DEF GatewayCrash, Crash, Restart, vars
<1> QED BY <1>1, <1>2, <1>3 DEF Next, RegisterSubject, ModifyTrust

\* At most one position holds the registration.
LEMMA OnceIsOne == TypeInv /\ (~skipped => Once) => OneRegistration
<1> SUFFICES ASSUME TypeInv, Once PROVE OneRegistration
  BY DEF OneRegistration
<1> DEFINE P == {i \in 1 .. Len(receipts) : receipts[i] = RegistrationReceipt}
<1>1. CASE P = {}
  BY <1>1, FS_EmptySet DEF OneRegistration
<1>2. CASE P # {}
  <2>1. PICK i \in P : TRUE
    BY <1>2
  <2>2. P = {i}
    BY <2>1 DEF Once
  <2>3. Cardinality({i}) = 1
    BY FS_Singleton, Zenon
  <2>4. Cardinality(P) = 1
    BY <2>2, <2>3, Zenon
  <2>5. Cardinality(P) <= 1
    BY <2>4
  <2> QED BY <2>5 DEF OneRegistration
<1> QED BY <1>1, <1>2

\* However many registrations race, time out or are repeated, and whatever else
\* fails, the ledger holds one registration until OpenExistingLedgers skips it.
THEOREM RegisteredOnce == Spec => []OneRegistration
<1> DEFINE OnceInv == ~skipped => Once
<1>1. Init => TypeInv /\ OnceInv
  <2>1. Init => 1 .. Len(receipts) = {} /\ \A q \in Registrations : ask[q] = "none"
    BY DEF Init, Requests
  <2>2. Init => Once
    BY <2>1 DEF Once, Sealed
  <2> QED BY <2>2, TypeInit
<1>2. TypeInv /\ OnceInv /\ [Next]_vars => (TypeInv /\ OnceInv)'
  <2> SUFFICES ASSUME TypeInv, OnceInv, [Next]_vars PROVE TypeInv' /\ OnceInv'
    OBVIOUS
  <2>1. TypeInv'
    BY TypeStep
  <2>2. ASSUME ~skipped' PROVE Once'
    BY <2>2, SkippedStays, OnceStep
  <2> QED BY <2>1, <2>2
<1>3. TypeInv /\ OnceInv => OneRegistration
  BY OnceIsOne
<1> QED BY <1>1, <1>2, <1>3, PTL DEF Spec
=============================================================================
