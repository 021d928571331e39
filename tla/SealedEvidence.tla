--------------------------- MODULE SealedEvidence ---------------------------
(***************************************************************************)
(* What the ingest path promises a publisher: evidence that was submitted  *)
(* for a subject is sealed at most once, in the ledger of that subject,    *)
(* behind what is there already, and nothing else is sealed as evidence.   *)
(***************************************************************************)
EXTENDS Naturals, Sequences

CONSTANTS
    Subjects,
    Evidence,        \* evidence receipts: records with a field subject
    AdminReceipts    \* receipts of registrations and trust changes

VARIABLES
    submitted,       \* evidence the queue has ever held
    ledgers          \* the receipts sealed for each subject, in order

vars == <<submitted, ledgers>>

Entries(s) == {ledgers[s][i] : i \in 1 .. Len(ledgers[s])}

Init ==
    /\ submitted = {}
    /\ \A s \in Subjects : Entries(s) \cap Evidence = {}

Submit ==
    /\ \E r \in Evidence : submitted' = submitted \cup {r}
    /\ UNCHANGED ledgers

SealEvidence ==
    /\ \E r \in submitted :
          /\ r \notin Entries(r.subject)
          /\ ledgers' = [ledgers EXCEPT ![r.subject] = Append(@, r)]
    /\ UNCHANGED submitted

SealAdmin ==
    /\ \E r \in AdminReceipts : ledgers' = [ledgers EXCEPT ![r.subject] = Append(@, r)]
    /\ UNCHANGED submitted

Next == Submit \/ SealEvidence \/ SealAdmin

Spec == Init /\ [][Next]_vars
=============================================================================
