---------------------------- MODULE SubjectAdmin ----------------------------
(***************************************************************************)
(* Registering one subject and changing its trusted publishers: the        *)
(* gateway's handlers (internal/gateway/admin.go), the key-value buckets   *)
(* they write (internal/trust/store.go) and the locker's subscriber        *)
(* (internal/locker/admin.go) that they call over NATS request-reply.      *)
(* Several requests run at once; replies may come too late or never, a     *)
(* step may fail, and both processes may die.                              *)
(***************************************************************************)
EXTENDS Naturals, Sequences, FiniteSets

CONSTANTS
    Registrations,    \* POST /admin/subjects requests that pass validation
    Modifications,    \* PUT /admin/subjects/{subjectId}/trust requests that do
    Lists,            \* lists of trusted publishers
    NoList,           \* no list
    Faults            \* kinds of fault that may happen

FaultKinds == {"kv", "seal", "create", "reply", "crash", "open", "gatewayCrash"}

ASSUME AdminAssumption ==
    /\ Registrations \cap Modifications = {}
    /\ NoList \notin Lists
    /\ Faults \subseteq FaultKinds

Requests == Registrations \cup Modifications

VARIABLES
    request,      \* gateway: each request's handler
    ask,          \* its NATS request: "none", "sent", "sealing", "ok", "error", "dropped"
    inbox,        \* requests the locker has not taken up, per subscription
    trust,        \* publisher-trust: the list and its revision, 0 when there is no key
    registered,   \* subjects-registry: is there a key?
    jwk,          \* static-jwks: has a scanner key been stored?
    up,           \* is the locker running?
    onDisk,       \* does the ledger's directory exist?
    open,         \* has the locker the ledger open?
    receipts,     \* what is sealed in the ledger
    skipped       \* has OpenExistingLedgers ever skipped the ledger?

store  == <<trust, registered, jwk>>
calls  == <<ask, inbox>>
locker == <<up, onDisk, open, receipts, skipped>>
vars   == <<request, calls, store, locker>>

NotMade == [pc |-> "none", list |-> NoList, rev |-> 0, key |-> FALSE]

\* The locker's two subscriptions, each with messages in the order they came.
NoMessages == [register |-> << >>, sealTrust |-> << >>]

Subscription(r) == IF r \in Registrations THEN "register" ELSE "sealTrust"

Ended == {"done", "failed"}

RegistrationReceipt == [kind |-> "registration", list |-> NoList]
TrustReceipt(list)  == [kind |-> "trust", list |-> list]

Sealed == {receipts[i] : i \in 1 .. Len(receipts)}

Init ==
    /\ request = [r \in Requests |-> NotMade]
    /\ ask = [r \in Requests |-> "none"]
    /\ inbox = NoMessages
    /\ trust = [list |-> NoList, rev |-> 0]
    /\ registered = FALSE
    /\ jwk = FALSE
    /\ up = TRUE
    /\ onDisk = FALSE
    /\ open = FALSE
    /\ receipts = << >>
    /\ skipped = FALSE

GoTo(r, pc) == request' = [request EXCEPT ![r].pc = pc]

-----------------------------------------------------------------------------
(* Gateway: RegisterSubject asks the locker first, then writes the buckets. *)

\* nc.RequestWithContext: without a subscriber it fails at once.
Ask(r, waiting, unanswered) ==
    IF up
    THEN /\ ask' = [ask EXCEPT ![r] = "sent"]
         /\ inbox' = [inbox EXCEPT ![Subscription(r)] = Append(@, r)]
         /\ waiting
    ELSE UNCHANGED calls /\ unanswered

RegisterSubject(r, list, key) ==
    LET made(pc) == request' = [request EXCEPT ![r] =
                                  [pc |-> pc, list |-> list, rev |-> 0, key |-> key]]
    IN  /\ request[r].pc = "none"
        /\ Ask(r, made("asking"), made("failed"))
        /\ UNCHANGED <<store, locker>>

RegisterReply(r) ==
    /\ request[r].pc = "asking"
    /\ \/ ask[r] = "ok" /\ GoTo(r, "read")
       \/ ask[r] = "error" /\ GoTo(r, "failed")
    /\ UNCHANGED <<calls, store, locker>>

\* Faulty variants: the missing reply is ignored, and there is no timeout.
RegisterTimeoutIgnored(r) ==
    /\ request[r].pc = "asking"
    /\ ask[r] \in {"sent", "sealing", "dropped"}
    /\ GoTo(r, "read")
    /\ UNCHANGED <<calls, store, locker>>

RegisterTimeoutNever(r) == FALSE

\* adminRequestTimeout passes without a reply.
RegisterTimeout(r) ==
    /\ request[r].pc = "asking"
    /\ ask[r] \in {"sent", "sealing", "dropped"}
    /\ GoTo(r, "failed")
    /\ UNCHANGED <<calls, store, locker>>

\* SetPublisherTrust reads the key's revision ...
ReadTrust(r) ==
    /\ request[r].pc = "read"
    /\ request' = [request EXCEPT ![r].pc = "write", ![r].rev = trust.rev]
    /\ UNCHANGED <<calls, store, locker>>

\* The key is still at the revision that was read; faulty variant: not checked.
SameRevisionUnchecked(r) == TRUE

SameRevision(r) == trust.rev = request[r].rev

AfterWrite(r) == IF r \in Registrations THEN "registry" ELSE "seal"

\* ... and creates or updates it at that revision; a reply that is lost looks
\* like a failure.
WriteTrust(r) ==
    /\ request[r].pc = "write"
    /\ SameRevision(r)
    /\ trust' = [list |-> request[r].list, rev |-> trust.rev + 1]
    /\ \/ GoTo(r, AfterWrite(r))
       \/ "kv" \in Faults /\ GoTo(r, "failed")
    /\ UNCHANGED <<calls, registered, jwk, locker>>

WriteConflict(r) ==
    /\ request[r].pc = "write"
    /\ ~SameRevision(r)
    /\ GoTo(r, "failed")
    /\ UNCHANGED <<calls, store, locker>>

PutRegistry(r) ==
    /\ request[r].pc = "registry"
    /\ registered' = TRUE
    /\ GoTo(r, IF request[r].key THEN "jwk" ELSE "done")
    /\ UNCHANGED <<calls, trust, jwk, locker>>

StoreJWK(r) ==
    /\ request[r].pc = "jwk"
    /\ jwk' = TRUE
    /\ GoTo(r, "done")
    /\ UNCHANGED <<calls, trust, registered, locker>>

\* A bucket cannot be read or written: 500.
StoreFails(r) ==
    /\ request[r].pc \in {"read", "write", "registry", "jwk"}
    /\ "kv" \in Faults
    /\ GoTo(r, "failed")
    /\ UNCHANGED <<calls, store, locker>>

-----------------------------------------------------------------------------
(* Gateway: ModifyTrust writes the bucket, then asks the locker to seal.    *)

ModifyTrust(r, list) ==
    /\ request[r].pc = "none"
    /\ request' = [request EXCEPT ![r] = [pc |-> IF registered THEN "read" ELSE "failed",
                                          list |-> list, rev |-> 0, key |-> FALSE]]
    /\ UNCHANGED <<calls, store, locker>>

AskSeal(r) ==
    /\ request[r].pc = "seal"
    /\ Ask(r, GoTo(r, "sealing"), GoTo(r, "done"))
    /\ UNCHANGED <<store, locker>>

\* Faulty variant: without a positive answer the request is sent again.
SealAnsweredRetry(r) ==
    /\ request[r].pc = "sealing"
    /\ GoTo(r, IF ask[r] = "ok" THEN "done" ELSE "seal")
    /\ UNCHANGED <<calls, store, locker>>

\* An answer of any kind, or none within adminRequestTimeout: 200.
SealAnswered(r) ==
    /\ request[r].pc = "sealing"
    /\ GoTo(r, "done")
    /\ UNCHANGED <<calls, store, locker>>

GatewayCrash ==
    /\ "gatewayCrash" \in Faults
    /\ \E r \in Requests : request[r].pc \notin Ended \cup {"none"}
    /\ request' = [r \in Requests |-> IF request[r].pc = "none" THEN request[r]
                                      ELSE [request[r] EXCEPT !.pc = IF @ \in Ended THEN @ ELSE "failed"]]
    /\ UNCHANGED <<calls, store, locker>>

-----------------------------------------------------------------------------
(* Locker: one goroutine per subscription, one message at a time.           *)

\* The locker's reply may be lost on its way.
Respond(r, answer) ==
    \/ ask' = [ask EXCEPT ![r] = answer]
    \/ "reply" \in Faults /\ ask' = [ask EXCEPT ![r] = "dropped"]

\* A subscription's goroutine takes its next message.
Take(r) ==
    /\ up
    /\ inbox[Subscription(r)] # << >>
    /\ r = Head(inbox[Subscription(r)])
    /\ inbox' = [inbox EXCEPT ![Subscription(r)] = Tail(@)]

\* CreateLedger looks in the map of open ledgers; faulty variant: it does not.
HasLedgerUnchecked == FALSE

HasLedger == open

\* handleRegister.
LedgerExists(r) ==
    /\ r \in Registrations
    /\ Take(r)
    /\ \A o \in Registrations : ask[o] # "sealing"
    /\ HasLedger
    /\ Respond(r, "error")
    /\ UNCHANGED <<request, store, locker>>

CreateLedger(r) ==
    /\ r \in Registrations
    /\ Take(r)
    /\ \A o \in Registrations : ask[o] # "sealing"
    /\ ~HasLedger
    /\ \/ open' = TRUE /\ onDisk' = TRUE /\ ask' = [ask EXCEPT ![r] = "sealing"]
       \/ /\ "create" \in Faults
          /\ onDisk' \in {onDisk, TRUE}
          /\ UNCHANGED open
          /\ Respond(r, "error")
    /\ UNCHANGED <<request, store, up, receipts, skipped>>

\* The registration receipt names the subject and the registrant, not the list.
SealRegistration(r) ==
    /\ up
    /\ r \in Registrations
    /\ ask[r] = "sealing"
    /\ \/ receipts' = Append(receipts, RegistrationReceipt) /\ Respond(r, "ok")
       \/ "seal" \in Faults /\ UNCHANGED receipts /\ Respond(r, "error")
    /\ UNCHANGED <<request, inbox, store, up, onDisk, open, skipped>>

HandleSealTrust(r) ==
    /\ r \in Modifications
    /\ Take(r)
    /\ \/ open /\ receipts' = Append(receipts, TrustReceipt(request[r].list)) /\ Respond(r, "ok")
       \/ ~open /\ UNCHANGED receipts /\ Respond(r, "error")
       \/ "seal" \in Faults /\ UNCHANGED receipts /\ Respond(r, "error")
    /\ UNCHANGED <<request, store, up, onDisk, open, skipped>>

\* The process dies; requests it had not answered are gone with it.
Crash ==
    /\ "crash" \in Faults
    /\ up
    /\ up' = FALSE
    /\ open' = FALSE
    /\ ask' = [r \in Requests |-> IF ask[r] \in {"sent", "sealing"} THEN "dropped" ELSE ask[r]]
    /\ inbox' = NoMessages
    /\ UNCHANGED <<request, store, onDisk, receipts, skipped>>

\* OpenExistingLedgers opens what is on disk, and skips a ledger that fails.
Restart ==
    /\ ~up
    /\ up' = TRUE
    /\ \/ open' = onDisk /\ UNCHANGED skipped
       \/ "open" \in Faults /\ onDisk /\ UNCHANGED open /\ skipped' = TRUE
    /\ UNCHANGED <<request, calls, store, onDisk, receipts>>

-----------------------------------------------------------------------------
Gateway(r) ==
    \/ RegisterReply(r) \/ RegisterTimeout(r)
    \/ ReadTrust(r) \/ WriteTrust(r) \/ WriteConflict(r)
    \/ PutRegistry(r) \/ StoreJWK(r) \/ StoreFails(r)
    \/ AskSeal(r) \/ SealAnswered(r)

Locker(r) == LedgerExists(r) \/ CreateLedger(r) \/ SealRegistration(r) \/ HandleSealTrust(r)

Next ==
    \/ \E r \in Registrations, list \in Lists, key \in BOOLEAN : RegisterSubject(r, list, key)
    \/ \E r \in Modifications, list \in Lists : ModifyTrust(r, list)
    \/ \E r \in Requests : Gateway(r) \/ Locker(r)
    \/ GatewayCrash
    \/ Crash
    \/ Restart

Spec == Init /\ [][Next]_vars

\* Handlers of a running gateway are scheduled and their timers fire.  The
\* locker owes the gateway nothing.
FairSpec == Spec /\ \A r \in Requests : WF_vars(Gateway(r))

-----------------------------------------------------------------------------
(* Properties.                                                              *)

\* The buckets never run ahead of the ledger, wherever a registration stops: a
\* scanner key belongs to a registered subject, which has a trust list, and a
\* subject with a trust list has a ledger on disk with its registration sealed
\* in it.
RegisteredInOrder ==
    /\ jwk => registered
    /\ registered => trust.rev > 0
    /\ trust.rev > 0 => onDisk /\ RegistrationReceipt \in Sealed

\* Requests that got past SetPublisherTrust wrote at different revisions: of
\* two concurrent changes one fails, none is silently overwritten.
NoLostUpdate ==
    LET wrote == {r \in Requests : request[r].pc \in {"registry", "jwk", "seal", "sealing", "done"}}
    IN  \A r \in wrote : \A o \in wrote \ {r} : request[r].rev # request[o].rev

\* A ledger that no restart has skipped has one registration, however many
\* requests race, time out or are repeated.
OneRegistration ==
    ~skipped => Cardinality({i \in 1 .. Len(receipts) : receipts[i] = RegistrationReceipt}) <= 1

\* The ledger never tells of more trust changes than were made: each sealed
\* one was written to the bucket before, after the list of the registration.
SealedWasWritten ==
    Cardinality({i \in 1 .. Len(receipts) : receipts[i].kind = "trust"}) <=
        IF trust.rev = 0 THEN 0 ELSE trust.rev - 1

\* Every request is answered, whatever the locker does.
RequestsEnd ==
    \A r \in Requests : request[r].pc # "none" ~> request[r].pc \in Ended
=============================================================================
