------------------------------- MODULE Ledger -------------------------------
(***************************************************************************)
(* One ledger of the locker (internal/locker/ledger.go): a Tessera         *)
(* transparency log on disk, the in-memory digest index beside it, and the *)
(* goroutines that seal, fetch and verify concurrently.  The process may   *)
(* die at any step and the ledger is then opened again from its files.     *)
(***************************************************************************)
EXTENDS Integers, Sequences, FiniteSets

CONSTANTS
    Callers,            \* goroutines using the ledger (worker, admin, HTTP)
    Receipts,           \* receipt bytes
    Digests,            \* hex SHA-256 digests
    SHA256Hex,          \* the digest of each receipt
    NoReceipt,          \* "no bytes", in the fields of a call that has none
    EntryBundleWidth,   \* entries per bundle file (Tessera: 256)
    AsyncIntegration,   \* may the integrated size lag behind sequencing?
    MaxEntries,         \* bound: log length
    MaxFailures         \* bound: process deaths and failed openings

ASSUME LedgerAssumption ==
    /\ SHA256Hex \in [Receipts -> Digests]
    /\ \A r1, r2 \in Receipts : SHA256Hex[r1] = SHA256Hex[r2] => r1 = r2
    /\ NoReceipt \notin Receipts
    /\ EntryBundleWidth \in Nat \ {0}
    /\ AsyncIntegration \in BOOLEAN
    /\ MaxEntries \in Nat
    /\ MaxFailures \in Nat

VARIABLES
    \* On disk.
    keyFile,      \* signer.key: NoKey, or the key it holds
    log,          \* entries sequenced by Tessera
    integrated,   \* size of the integrated Merkle tree
    \* In memory.
    state,        \* "closed", "generated" (key not yet on disk), "rebuilding", "open"
    signer,       \* the checkpoint signing key in use
    digestIndex,  \* digest -> log index, NotFound where the map has no entry
    rebuild,      \* rebuildDigestIndex: next index to fetch, size it read
    call,         \* what each goroutine is doing
    \* Bookkeeping for the bounds and the properties.
    failures,     \* process deaths and failed openings so far
    keys,         \* keys generated so far
    signers,      \* keys that have signed checkpoints of this log
    gap           \* did this opening index fewer entries than the log has?

disk   == <<keyFile, log, integrated>>
memory == <<state, signer, digestIndex, rebuild>>
ghost  == <<failures, keys, signers, gap>>
vars   == <<disk, memory, call, ghost>>

NoKey    == 0
NotFound == -1

EmptyIndex == [d \in Digests |-> NotFound]
Idle == [pc |-> "idle", receipt |-> NoReceipt, index |-> 0, size |-> 0]

Init ==
    /\ keyFile = NoKey
    /\ log = << >>
    /\ integrated = 0
    /\ state = "closed"
    /\ signer = NoKey
    /\ digestIndex = EmptyIndex
    /\ rebuild = [next |-> 0, size |-> 0]
    /\ call = [c \in Callers |-> Idle]
    /\ failures = 0
    /\ keys = 0
    /\ signers = {}
    /\ gap = FALSE

-----------------------------------------------------------------------------
(* Reading an entry out of the bundle files.                               *)

\* How much of a bundle exists: 0 stands for a full one.
PartialTileSize(bundleIndex, size) ==
    IF bundleIndex < size \div EntryBundleWidth THEN 0 ELSE size % EntryBundleWidth

ReadEntryBundle(bundleIndex, p) ==
    LET start == bundleIndex * EntryBundleWidth
        width == IF p = 0 THEN EntryBundleWidth ELSE p
    IN  SubSeq(log, start + 1, start + width)

\* The bundle that holds an index, at the integrated size that was read.
BundleOf(index, size) ==
    LET bundleIndex == index \div EntryBundleWidth
    IN  ReadEntryBundle(bundleIndex, PartialTileSize(bundleIndex, size))

LocalIndex(index) == index % EntryBundleWidth

-----------------------------------------------------------------------------
(* NewLedger: load or generate the key, start the appender, index the log. *)

\* Faulty variant: the rebuild trusts the sequenced size.
StartAppenderSequenced(key) ==
    /\ integrated' \in integrated .. Len(log)
    /\ rebuild' = [next |-> 0, size |-> Len(log)]
    /\ digestIndex' = EmptyIndex
    /\ signer' = key
    /\ signers' = signers \cup {key}
    /\ state' = "rebuilding"

\* Faulty variant: reopening begins with an empty tree.
StartAppenderAfresh(key) ==
    /\ integrated' = 0
    /\ rebuild' = [next |-> 0, size |-> 0]
    /\ digestIndex' = EmptyIndex
    /\ signer' = key
    /\ signers' = signers \cup {key}
    /\ state' = "rebuilding"

\* tessera.NewAppender resumes the log; pending entries may be integrated by
\* the time rebuildDigestIndex asks for the integrated size.
StartAppender(key) ==
    /\ integrated' \in integrated .. Len(log)
    /\ rebuild' = [next |-> 0, size |-> integrated']
    /\ digestIndex' = EmptyIndex
    /\ signer' = key
    /\ signers' = signers \cup {key}
    /\ state' = "rebuilding"

LoadKey ==
    /\ state = "closed"
    /\ keyFile # NoKey
    /\ StartAppender(keyFile)
    /\ UNCHANGED <<keyFile, log, call, failures, keys, gap>>

GenerateKey ==
    /\ state = "closed"
    /\ keyFile = NoKey
    /\ keys' = keys + 1
    /\ signer' = keys + 1
    /\ state' = "generated"
    /\ UNCHANGED <<disk, digestIndex, rebuild, call, failures, signers, gap>>

\* Faulty variant: the key is used without having been saved.
PersistKeyForgotten ==
    /\ state = "generated"
    /\ StartAppender(signer)
    /\ UNCHANGED <<keyFile, log, call, failures, keys, gap>>

\* The rename of the temporary file: the key is on disk entirely or not at all.
PersistKey ==
    /\ state = "generated"
    /\ keyFile' = signer
    /\ StartAppender(signer)
    /\ UNCHANGED <<log, call, failures, keys, gap>>

\* A step of generateAndPersist, or NewAppender after it, returns an error.
OpenFails ==
    /\ state = "generated"
    /\ failures < MaxFailures
    /\ failures' = failures + 1
    /\ keyFile' \in {keyFile, signer}
    /\ signer' = NoKey
    /\ state' = "closed"
    /\ UNCHANGED <<log, integrated, digestIndex, rebuild, call, keys, signers, gap>>

RebuildEntry ==
    /\ state = "rebuilding"
    /\ rebuild.next < rebuild.size
    /\ LET bundle == BundleOf(rebuild.next, integrated)
           data   == bundle[LocalIndex(rebuild.next) + 1]
       IN  digestIndex' = [digestIndex EXCEPT ![SHA256Hex[data]] = rebuild.next]
    /\ rebuild' = [rebuild EXCEPT !.next = @ + 1]
    /\ UNCHANGED <<disk, state, signer, call, ghost>>

\* The ledger goes into service, whatever the index holds by now.
EnterService ==
    /\ state' = "open"
    /\ gap' = (rebuild.next < Len(log))
    /\ UNCHANGED <<disk, signer, digestIndex, rebuild, call, failures, keys, signers>>

RebuildDone ==
    /\ state = "rebuilding"
    /\ rebuild.next = rebuild.size
    /\ EnterService

\* A read error or the startup deadline ends the rebuild; NewLedger only warns.
RebuildFails ==
    /\ state = "rebuilding"
    /\ rebuild.next < rebuild.size
    /\ EnterService

-----------------------------------------------------------------------------
(* Seal.                                                                    *)

Ready(c) == state = "open" /\ call[c].pc = "idle"

\* The index the future gives Seal, counting from 0; faulty variant: from 1.
NextIndexFromOne == Len(log) + 1

NextIndex == Len(log)

\* The appender's future resolves: the entry is sequenced at the next index.
SealAdd(c, r) ==
    /\ Ready(c)
    /\ Len(log) < MaxEntries
    /\ log' = Append(log, r)
    /\ integrated' = IF AsyncIntegration THEN integrated ELSE Len(log')
    /\ call' = [call EXCEPT ![c] = [Idle EXCEPT !.pc = "index", !.receipt = r, !.index = NextIndex]]
    /\ UNCHANGED <<keyFile, memory, ghost>>

SealError(c, r) ==
    /\ Ready(c)
    /\ call' = [call EXCEPT ![c] = [Idle EXCEPT !.pc = "error", !.receipt = r]]
    /\ UNCHANGED <<disk, memory, ghost>>

\* The index entry Seal writes; faulty variants: the log's last index at the
\* time of the write, and no entry at all.
IndexEntryLatest(c) == [digestIndex EXCEPT ![SHA256Hex[call[c].receipt]] = Len(log) - 1]

IndexEntryMissing(c) == digestIndex

IndexEntry(c) == [digestIndex EXCEPT ![SHA256Hex[call[c].receipt]] = call[c].index]

\* Under l.mu the digest is entered in the index; then Seal returns.
SealIndex(c) ==
    /\ call[c].pc = "index"
    /\ digestIndex' = IndexEntry(c)
    /\ call' = [call EXCEPT ![c].pc = "sealed"]
    /\ UNCHANGED <<disk, state, signer, rebuild, ghost>>

-----------------------------------------------------------------------------
(* Fetch and VerifyDigest, and the handlers of the read API around them.    *)

\* GetLedger waits for the mutex that CreateLedger and OpenExistingLedgers hold
\* while they open a ledger: it finds one that is in service, or finds none, not
\* yet created or skipped for an error.  Then the handler checks its parameter.
Serve(c, bad, started) ==
    /\ state \in {"closed", "open"}
    /\ call[c].pc = "idle"
    /\ call' = [call EXCEPT ![c] = CASE state = "closed" -> [Idle EXCEPT !.pc = "noLedger"]
                                      [] state = "open" /\ bad -> [Idle EXCEPT !.pc = "badRequest"]
                                      [] OTHER -> started]
    /\ UNCHANGED <<disk, memory, ghost>>

FetchStart(i) == [Idle EXCEPT !.pc = "wait", !.index = i]

FetchReceipt(c, i) == Serve(c, i < 0, FetchStart(i))

\* The status of the answer.
Status(pc) ==
    CASE pc \in {"fetched", "found", "absent"} -> 200
      [] pc = "badRequest" -> 400
      [] pc \in {"noLedger", "outOfRange"} -> 404
      [] pc = "error" -> 500

\* Faulty variant: an entry counts as integrated one too early.
IsIntegratedEarly(i) == integrated >= i

IsIntegrated(i) == integrated > i

\* waitForIntegration: the poll sees the entry integrated ...
FetchIntegrated(c) ==
    /\ call[c].pc = "wait"
    /\ IsIntegrated(call[c].index)
    /\ call' = [call EXCEPT ![c].pc = "size"]
    /\ UNCHANGED <<disk, memory, ghost>>

\* ... or 30 seconds pass, or the caller's context ends.
FetchTimeout(c) ==
    /\ call[c].pc = "wait"
    /\ call' = [call EXCEPT ![c].pc = "error"]
    /\ UNCHANGED <<disk, memory, ghost>>

FetchSize(c) ==
    /\ call[c].pc = "size"
    /\ call' = [call EXCEPT ![c].size = integrated,
                            ![c].pc = IF call[c].index >= integrated
                                      THEN "outOfRange" ELSE "read"]
    /\ UNCHANGED <<disk, memory, ghost>>

\* The entry of a bundle that Fetch returns; faulty variant: always the first.
EntryInFirst(bundle, local) == bundle[1]

EntryIn(bundle, local) == bundle[local + 1]

FetchRead(c) ==
    /\ call[c].pc = "read"
    /\ LET bundle == BundleOf(call[c].index, call[c].size)
           local  == LocalIndex(call[c].index)
       IN  call' = IF local >= Len(bundle)
                   THEN [call EXCEPT ![c].pc = "outOfRange"]
                   ELSE [call EXCEPT ![c].pc = "fetched", ![c].receipt = EntryIn(bundle, local)]
    /\ UNCHANGED <<disk, memory, ghost>>

\* Reading the integrated size, or reading or parsing the bundle, fails.
FetchReadError(c) ==
    /\ call[c].pc \in {"size", "read"}
    /\ call' = [call EXCEPT ![c].pc = "error"]
    /\ UNCHANGED <<disk, memory, ghost>>

VerifyDigest(r) ==
    LET idx == digestIndex[SHA256Hex[r]]
    IN  IF idx = NotFound THEN [Idle EXCEPT !.pc = "absent", !.receipt = r]
                          ELSE [Idle EXCEPT !.pc = "found", !.receipt = r, !.index = idx]

\* NoReceipt stands for a request without a digest.
VerifyReceipt(c, r) == Serve(c, r = NoReceipt, VerifyDigest(r))

Return(c) ==
    /\ call[c].pc \in {"sealed", "fetched", "outOfRange", "error", "found", "absent",
                      "noLedger", "badRequest"}
    /\ call' = [call EXCEPT ![c] = Idle]
    /\ UNCHANGED <<disk, memory, ghost>>

-----------------------------------------------------------------------------
(* Tessera's integration, and the death of the process.                     *)

Integrate ==
    /\ state \in {"rebuilding", "open"}
    /\ integrated' \in (integrated + 1) .. Len(log)
    /\ UNCHANGED <<keyFile, log, memory, call, ghost>>

\* Also what Close leaves behind: the files stay, the memory goes.
Crash ==
    /\ state # "closed"
    /\ failures < MaxFailures
    /\ failures' = failures + 1
    /\ state' = "closed"
    /\ signer' = NoKey
    /\ digestIndex' = EmptyIndex
    /\ rebuild' = [next |-> 0, size |-> 0]
    /\ call' = [c \in Callers |-> Idle]
    /\ gap' = FALSE
    /\ UNCHANGED <<disk, keys, signers>>

Open == LoadKey \/ GenerateKey \/ PersistKey \/ OpenFails
         \/ RebuildEntry \/ RebuildDone \/ RebuildFails

Use(c) ==
    \/ \E r \in Receipts : SealAdd(c, r) \/ SealError(c, r)
    \/ \E r \in Receipts \cup {NoReceipt} : VerifyReceipt(c, r)
    \/ \E i \in -1 .. MaxEntries : FetchReceipt(c, i)
    \/ SealIndex(c)
    \/ FetchIntegrated(c) \/ FetchTimeout(c) \/ FetchSize(c)
    \/ FetchRead(c) \/ FetchReadError(c)
    \/ Return(c)

Next == Open \/ Integrate \/ Crash \/ \E c \in Callers : Use(c)

Spec == Init /\ [][Next]_vars

-----------------------------------------------------------------------------
(* Properties.                                                              *)

Calls == [pc : {"idle", "index", "sealed", "wait", "size", "read", "fetched",
                "outOfRange", "error", "found", "absent", "noLedger", "badRequest"},
          receipt : Receipts \cup {NoReceipt},
          index : Nat,
          size : Nat]

\* Every variable has its type.  The integrated tree, the rebuild and a fetch
\* that has read the tree size never run ahead of what is on disk.
TypeOK ==
    /\ keyFile \in Nat
    /\ log \in Seq(Receipts)
    /\ integrated \in 0 .. Len(log)
    /\ state \in {"closed", "generated", "rebuilding", "open"}
    /\ signer \in Nat
    /\ digestIndex \in [Digests -> Int]
    /\ rebuild \in [next : Nat, size : Nat]
    /\ rebuild.next <= rebuild.size
    /\ rebuild.size <= integrated
    /\ call \in [Callers -> Calls]
    /\ failures \in Nat
    /\ keys \in Nat
    /\ signers \subseteq Nat
    /\ gap \in BOOLEAN

\* Does the log hold this digest at this index?
Holds(i, d) == i \in 0 .. Len(log) - 1 /\ SHA256Hex[log[i + 1]] = d

\* An entry of the digest index points at a log entry with that digest, however
\* seals, crashes and rebuilds interleave (Seal, rebuildDigestIndex): this is
\* what lets the worker treat a hit as "already sealed".
IndexSound ==
    \A d \in Digests : digestIndex[d] # NotFound => Holds(digestIndex[d], d)

\* Calls between the future of Seal resolving and the index write under l.mu.
Sealing == {c \in Callers : call[c].pc = "index"}

\* Once the ledger is open every log entry is in the index, except entries
\* whose Seal has not written the index yet, and provided this opening's
\* rebuildDigestIndex reached the end of the log.
IndexComplete ==
    (state = "open" /\ ~gap) =>
        \A i \in 1 .. Len(log) :
            \/ digestIndex[SHA256Hex[log[i]]] # NotFound
            \/ \E c \in Sealing : call[c].index = i - 1

\* The index Seal returns is where the receipt is, and no two calls are given
\* the same one.
SealExact ==
    \A c \in Callers : call[c].pc \in {"index", "sealed"} =>
        /\ call[c].index < Len(log)
        /\ log[call[c].index + 1] = call[c].receipt
        /\ \A o \in Callers \ {c} :
              call[o].pc \in {"index", "sealed"} => call[o].index # call[c].index

\* Fetch returns the entry at the index asked for, although the tree may have
\* grown between waitForIntegration, the size that picks the partial bundle
\* and the read; a digest that is found is found where it is.
ReadExact ==
    \A c \in Callers :
        /\ call[c].pc = "fetched" =>
              call[c].index < Len(log) /\ log[call[c].index + 1] = call[c].receipt
        /\ call[c].pc = "found" => Holds(call[c].index, SHA256Hex[call[c].receipt])

\* A fetch that got past waitForIntegration never ends with ErrIndexOutOfRange:
\* neither the size check nor the check on the bundle can fail afterwards.
IntegratedIsReadable == \A c \in Callers : call[c].pc # "outOfRange"

\* All checkpoints of a log are signed with the key on disk, although the key
\* may be generated several times by openings that die before the rename.
OneSigner == signers \subseteq {keyFile} /\ (state \in {"rebuilding", "open"} => signer = keyFile)

\* The ledger is write-once storage for its receipts.
WORM == INSTANCE AppendOnlyLog WITH Entries <- Receipts, entries <- log, visible <- integrated

ImplementsWORM == WORM!Spec

\* GET /ledgers/{subjectId}/entry/{index} answers a request for a receipt
\* past the end of the log with 404, as api/locker/openapi.yaml:104 documents:
\* Fetch is expected to end with ErrIndexOutOfRange there.
BeyondEndIsNotFound ==
    [][\A c \in Callers :
         (call[c].pc = "wait" /\ call[c].index >= Len(log) /\ call'[c].pc # "wait" /\ state' = state) =>
            Status(call'[c].pc) = 404]_vars
=============================================================================
