---------------------------- MODULE LedgerProofs ----------------------------
(***************************************************************************)
(* The ledger's promises for every bundle width, any receipts, goroutines  *)
(* and failures, with and without asynchronous integration.  A call is     *)
(* right about the log in whatever state it is (Right); the log only       *)
(* grows, so it stays right until it returns.                              *)
(***************************************************************************)
EXTENDS Ledger, TLAPS

\* A leaf that names no prover is tried with SMT, then with Zenon.
USE SMTT(30), ZenonT(30)

\* What a goroutine may rely on at each step of Seal, Fetch and VerifyDigest.
Right(k) ==
    /\ k.pc \in {"index", "sealed", "fetched"} => k.index < Len(log) /\ log[k.index + 1] = k.receipt
    /\ k.pc = "size" => k.index < integrated
    /\ k.pc = "read" => k.index < k.size /\ k.size <= integrated
    /\ k.pc = "found" => Holds(k.index, SHA256Hex[k.receipt])
    /\ k.pc # "outOfRange"

CallsRight == \A c \in Callers : Right(call[c])

InSeal(c) == call[c].pc \in {"index", "sealed"}

Distinct == \A c, o \in Callers : InSeal(c) /\ InSeal(o) /\ c # o => call[o].index # call[c].index

\* A key that is not on disk has signed nothing.
KeyInv ==
    /\ OneSigner
    /\ keyFile = NoKey => signers = {}
    /\ state = "generated" => keyFile = NoKey /\ signer > 0

\* The rebuild has indexed what it has read.
Covers ==
    state = "rebuilding" => \A i \in 1 .. rebuild.next : digestIndex[SHA256Hex[log[i]]] # NotFound

IInv == TypeOK /\ IndexSound /\ CallsRight /\ Distinct /\ KeyInv /\ Covers /\ IndexComplete

-----------------------------------------------------------------------------
(* Bundles.                                                                 *)

LEMMA DivMod ==
    ASSUME NEW W \in Nat \ {0}, NEW i \in Nat
    PROVE  /\ i \div W \in Nat /\ i % W \in Nat /\ i % W < W
           /\ i = W * (i \div W) + (i % W)
<1>1. i \div W \in Nat
  BY SMT
<1>2. i % W \in Nat /\ i % W < W
  BY SMT
<1>3. i = W * (i \div W) + (i % W)
  BY SMT
<1> QED BY <1>1, <1>2, <1>3

\* A smaller index is in no later bundle.
LEMMA DivMonotone ==
    ASSUME NEW W \in Nat \ {0}, NEW q \in Nat, NEW Q \in Nat, NEW k \in Nat, NEW K \in Nat,
           K < W, W * q + k < W * Q + K
    PROVE  q <= Q
<1> SUFFICES ASSUME q >= Q + 1 PROVE FALSE
  OBVIOUS
<1>1. W * q >= W * (Q + 1)
  BY SMT
<1>2. W * (Q + 1) = W * Q + W
  BY SMT
<1>3. W * q \in Nat /\ W * Q \in Nat
  BY SMT
<1> QED BY <1>1, <1>2, <1>3, SMT

\* An index below the tree size is in the bundle that PartialTileSize picks for
\* that size, full or partial, and at its local index.
LEMMA BundleHolds ==
    ASSUME log \in Seq(Receipts), NEW i \in Nat, NEW size \in Nat, i < size, size <= Len(log)
    PROVE  /\ LocalIndex(i) \in Nat /\ Len(BundleOf(i, size)) \in Nat
           /\ LocalIndex(i) < Len(BundleOf(i, size))
           /\ BundleOf(i, size)[LocalIndex(i) + 1] = log[i + 1]
<1> DEFINE W == EntryBundleWidth
           q == i \div W
           k == i % W
           Q == size \div W
           K == size % W
           p == PartialTileSize(q, size)
           width == IF p = 0 THEN W ELSE p
<1>1. W \in Nat \ {0}
  BY LedgerAssumption
<1>2. q \in Nat /\ k \in Nat /\ k < W /\ i = W * q + k
  BY <1>1, DivMod
<1>3. Q \in Nat /\ K \in Nat /\ K < W /\ size = W * Q + K
  BY <1>1, DivMod
<1>4. q <= Q
  BY <1>1, <1>2, <1>3, DivMonotone
<1>5. p = IF q < Q THEN 0 ELSE K
  BY DEF PartialTileSize
<1>6. W * q \in Nat
  BY <1>1, <1>2, SMT
<1> HIDE DEF W, q, k, Q, K, p
<1>7. width \in Nat /\ k < width
  <2>1. CASE q < Q
    BY <1>1, <1>2, <1>5, <2>1
  <2>2. CASE q = Q
    <3>1. k < K
      BY <1>2, <1>3, <1>6, <2>2
    <3> QED BY <1>1, <1>2, <1>3, <1>5, <2>2, <3>1
  <2> QED BY <1>2, <1>3, <1>4, <2>1, <2>2
<1>8. BundleOf(i, size) = SubSeq(log, q * W + 1, q * W + width)
  BY DEF BundleOf, ReadEntryBundle, W, q, p
<1>9. q * W = W * q
  BY <1>1, <1>2, SMT
<1> DEFINE start == W * q
<1> HIDE DEF start, width
<1>10. start \in Nat /\ i = start + k /\ BundleOf(i, size) = SubSeq(log, start + 1, start + width)
  BY <1>2, <1>6, <1>8, <1>9 DEF start
<1>11. LocalIndex(i) = k
  BY DEF LocalIndex, k, W
<1>12. SubSeq(log, start + 1, start + width) = [j \in 1 .. width |-> log[j + start]]
  BY <1>7, <1>10
<1>13. Len(BundleOf(i, size)) = width
  BY <1>7, <1>10, <1>12
<1>14. BundleOf(i, size)[k + 1] = log[i + 1]
  BY <1>2, <1>7, <1>10, <1>12
<1> QED BY <1>2, <1>7, <1>11, <1>13, <1>14

-----------------------------------------------------------------------------
(* The log only grows.                                                      *)

LEMMA Appended ==
    ASSUME log \in Seq(Receipts), NEW r \in Receipts, log' = Append(log, r)
    PROVE  /\ log' \in Seq(Receipts) /\ Len(log) \in Nat /\ Len(log') = Len(log) + 1
           /\ \A i \in 1 .. Len(log) : log'[i] = log[i]
           /\ log'[Len(log) + 1] = r
OBVIOUS

Grows ==
    /\ Len(log) <= Len(log')
    /\ \A i \in 1 .. Len(log) : log'[i] = log[i]
    /\ integrated <= integrated'

LEMMA RightGrows ==
    ASSUME TypeOK, Len(log') \in Nat, integrated' \in Nat, Grows, NEW k \in Calls, Right(k)
    PROVE  Right(k)'
<1>1. k.index \in Nat /\ k.size \in Nat /\ integrated \in Nat /\ Len(log) \in Nat
  BY DEF TypeOK, Calls
<1> QED BY <1>1, SMTT(30) DEF Right, Holds, Grows

\* Integration only adds.
LEMMA IntegratedGrows ==
    ASSUME TypeOK, log' = log, integrated' \in integrated .. Len(log)
    PROVE  Grows /\ Len(log') \in Nat /\ integrated' \in Nat
BY DEF TypeOK, Grows

-----------------------------------------------------------------------------
(* Steps of a goroutine that move nothing but its own call.                 *)

\* The call moves on to k, which is no step of Seal.
Moves(c, k) ==
    /\ call[c].pc # "index"
    /\ k \in Calls /\ k.pc \notin {"index", "sealed"}
    /\ call' = [call EXCEPT ![c] = k]
    /\ UNCHANGED <<disk, memory, ghost>>

IdleCall(pc, r, i) == [pc |-> pc, receipt |-> r, index |-> i, size |-> 0]

LEMMA IdleCalls ==
    ASSUME NEW pc, NEW r, NEW i
    PROVE  /\ [Idle EXCEPT !.pc = pc] = IdleCall(pc, NoReceipt, 0)
           /\ [Idle EXCEPT !.pc = pc, !.receipt = r] = IdleCall(pc, r, 0)
           /\ [Idle EXCEPT !.pc = pc, !.index = i] = IdleCall(pc, NoReceipt, i)
           /\ Idle = IdleCall("idle", NoReceipt, 0)
<1>1. [Idle EXCEPT !.pc = pc] = IdleCall(pc, NoReceipt, 0)
  BY DEF Idle, IdleCall
<1>2. [Idle EXCEPT !.pc = pc, !.receipt = r] = IdleCall(pc, r, 0)
  <2>1. [Idle EXCEPT !.pc = pc, !.receipt = r] = [[Idle EXCEPT !.pc = pc] EXCEPT !.receipt = r]
    OBVIOUS
  <2>2. [IdleCall(pc, NoReceipt, 0) EXCEPT !.receipt = r] = IdleCall(pc, r, 0)
    BY DEF IdleCall
  <2> QED BY <1>1, <2>1, <2>2, Zenon
<1>3. [Idle EXCEPT !.pc = pc, !.index = i] = IdleCall(pc, NoReceipt, i)
  <2>1. [Idle EXCEPT !.pc = pc, !.index = i] = [[Idle EXCEPT !.pc = pc] EXCEPT !.index = i]
    OBVIOUS
  <2>2. [IdleCall(pc, NoReceipt, 0) EXCEPT !.index = i] = IdleCall(pc, NoReceipt, i)
    BY DEF IdleCall
  <2> QED BY <1>1, <2>1, <2>2, Zenon
<1>4. Idle = IdleCall("idle", NoReceipt, 0)
  BY DEF Idle, IdleCall
<1> QED BY <1>1, <1>2, <1>3, <1>4

LEMMA IdleAt ==
    ASSUME NEW pc, NEW r, NEW i
    PROVE  [Idle EXCEPT !.pc = pc, !.receipt = r, !.index = i] = IdleCall(pc, r, i)
<1>1. [Idle EXCEPT !.pc = pc, !.receipt = r, !.index = i] =
          [[Idle EXCEPT !.pc = pc, !.receipt = r] EXCEPT !.index = i]
  OBVIOUS
<1>2. [IdleCall(pc, r, 0) EXCEPT !.index = i] = IdleCall(pc, r, i)
  BY DEF IdleCall
<1>3. [Idle EXCEPT !.pc = pc, !.receipt = r] = IdleCall(pc, r, 0)
  BY IdleCalls, Zenon
<1> QED BY <1>1, <1>2, <1>3, Zenon

LEMMA ServeMoves ==
    ASSUME TypeOK, NEW c \in Callers, NEW bad, NEW started \in Calls,
           ~bad => Right(started) /\ started.pc \notin {"index", "sealed"},
           Serve(c, bad, started)
    PROVE  \E k : Moves(c, k) /\ Right(k)
<1> DEFINE n == IdleCall("noLedger", NoReceipt, 0)
           b == IdleCall("badRequest", NoReceipt, 0)
<1>1. n \in Calls /\ b \in Calls /\ n.pc = "noLedger" /\ b.pc = "badRequest" /\ Right(n) /\ Right(b)
  BY SMTT(30) DEF Calls, IdleCall, Right
<1>2. \/ call' = [call EXCEPT ![c] = n]
      \/ call' = [call EXCEPT ![c] = b]
      \/ ~bad /\ call' = [call EXCEPT ![c] = started]
  BY IdleCalls, Zenon DEF Serve
<1>3. call[c].pc # "index" /\ UNCHANGED <<disk, memory, ghost>>
  BY DEF Serve
<1> QED BY <1>1, <1>2, <1>3 DEF Moves

LEMMA Sizes == TypeOK => Len(log) \in Nat /\ integrated \in Nat /\ integrated <= Len(log)
BY DEF TypeOK

\* Everything but the two steps of Seal that write.
PlainStep(c) ==
    \/ \E r \in Receipts : SealError(c, r)
    \/ \E r \in Receipts \cup {NoReceipt} : VerifyReceipt(c, r)
    \/ \E i \in -1 .. MaxEntries : FetchReceipt(c, i)
    \/ FetchIntegrated(c) \/ FetchTimeout(c) \/ FetchSize(c)
    \/ FetchRead(c) \/ FetchReadError(c)
    \/ Return(c)

LEMMA PlainMoves ==
    ASSUME TypeOK, IndexSound, CallsRight, NEW c \in Callers, PlainStep(c)
    PROVE  \E k : Moves(c, k) /\ Right(k)
<1>a. call[c] \in Calls /\ Right(call[c])
  BY DEF TypeOK, CallsRight
<1>b. call[c].index \in Nat /\ call[c].size \in Nat /\ call[c].receipt \in Receipts \cup {NoReceipt}
  BY <1>a DEF Calls
<1>1. ASSUME NEW r \in Receipts, SealError(c, r) PROVE \E k : Moves(c, k) /\ Right(k)
  <2> DEFINE k == IdleCall("error", r, 0)
  <2>1. k \in Calls /\ k.pc = "error" /\ Right(k)
    BY DEF IdleCall, Calls, Right
  <2>2. call' = [call EXCEPT ![c] = k] /\ call[c].pc # "index" /\ UNCHANGED <<disk, memory, ghost>>
    BY <1>1, IdleCalls, Zenon DEF SealError, Ready
  <2> QED BY <2>1, <2>2, Zenon DEF Moves
<1>2. ASSUME NEW r \in Receipts \cup {NoReceipt}, VerifyReceipt(c, r)
      PROVE  \E k : Moves(c, k) /\ Right(k)
  <2>1. CASE r = NoReceipt
    <3> DEFINE n == IdleCall("noLedger", NoReceipt, 0)
               b == IdleCall("badRequest", NoReceipt, 0)
    <3>1. n \in Calls /\ b \in Calls /\ n.pc = "noLedger" /\ b.pc = "badRequest" /\ Right(n) /\ Right(b)
      BY SMTT(30) DEF Calls, IdleCall, Right
    <3>2. call' = [call EXCEPT ![c] = n] \/ call' = [call EXCEPT ![c] = b]
      BY <1>2, <2>1, IdleCalls, Zenon DEF VerifyReceipt, Serve
    <3>3. call[c].pc # "index" /\ UNCHANGED <<disk, memory, ghost>>
      BY <1>2 DEF VerifyReceipt, Serve
    <3> QED BY <3>1, <3>2, <3>3 DEF Moves
  <2>2. CASE r \in Receipts
    <3>1. SHA256Hex[r] \in Digests
      BY <2>2, LedgerAssumption
    <3> DEFINE d == digestIndex[SHA256Hex[r]]
    <3>2. d # NotFound => d \in Nat /\ Holds(d, SHA256Hex[r])
      <4>1. d # NotFound => Holds(d, SHA256Hex[r])
        BY <3>1 DEF IndexSound
      <4>2. Holds(d, SHA256Hex[r]) => d \in Nat
        BY Sizes DEF Holds
      <4> QED BY <4>1, <4>2
    <3>3. VerifyDigest(r) = IF d = NotFound THEN IdleCall("absent", r, 0) ELSE IdleCall("found", r, d)
      <4>1. [Idle EXCEPT !.pc = "absent", !.receipt = r] = IdleCall("absent", r, 0)
        BY IdleCalls, Zenon
      <4>2. [Idle EXCEPT !.pc = "found", !.receipt = r, !.index = d] = IdleCall("found", r, d)
        BY IdleAt, Zenon
      <4>3. CASE d = NotFound
        BY <4>1, <4>3 DEF VerifyDigest
      <4>4. CASE d # NotFound
        BY <4>2, <4>4 DEF VerifyDigest
      <4> QED BY <4>3, <4>4, SMTT(30)
    <3>4. /\ VerifyDigest(r) \in Calls /\ Right(VerifyDigest(r))
          /\ VerifyDigest(r).pc \notin {"index", "sealed"}
      BY <2>2, <3>2, <3>3 DEF IdleCall, Calls, Right
    <3> QED BY <1>2, <3>4, ServeMoves DEF VerifyReceipt
  <2> QED BY <2>1, <2>2
<1>3. ASSUME NEW i \in -1 .. MaxEntries, FetchReceipt(c, i) PROVE \E k : Moves(c, k) /\ Right(k)
  <2>1. CASE i < 0
    <3> DEFINE n == IdleCall("noLedger", NoReceipt, 0)
               b == IdleCall("badRequest", NoReceipt, 0)
    <3>1. n \in Calls /\ b \in Calls /\ n.pc = "noLedger" /\ b.pc = "badRequest" /\ Right(n) /\ Right(b)
      BY SMTT(30) DEF Calls, IdleCall, Right
    <3>2. call' = [call EXCEPT ![c] = n] \/ call' = [call EXCEPT ![c] = b]
      BY <1>3, <2>1, IdleCalls, Zenon DEF FetchReceipt, Serve
    <3>3. call[c].pc # "index" /\ UNCHANGED <<disk, memory, ghost>>
      BY <1>3 DEF FetchReceipt, Serve
    <3> QED BY <3>1, <3>2, <3>3 DEF Moves
  <2>2. CASE ~(i < 0)
    <3>1. i \in Nat
      BY <2>2, LedgerAssumption, SMTT(30)
    <3>2. FetchStart(i) = IdleCall("wait", NoReceipt, i)
      BY IdleCalls, Zenon DEF FetchStart
    <3>3. FetchStart(i) \in Calls /\ Right(FetchStart(i)) /\ FetchStart(i).pc \notin {"index", "sealed"}
      BY <3>1, <3>2 DEF IdleCall, Calls, Right
    <3> QED BY <1>3, <3>3, ServeMoves DEF FetchReceipt
  <2> QED BY <2>1, <2>2
<1>4. CASE FetchIntegrated(c)
  <2> DEFINE k == [call[c] EXCEPT !.pc = "size"]
  <2>1. k \in Calls /\ k.pc = "size" /\ k.index = call[c].index
    BY <1>a DEF Calls
  <2>2. Right(k)
    BY <1>4, <2>1 DEF FetchIntegrated, IsIntegrated, Right
  <2>3. call' = [call EXCEPT ![c] = k] /\ call[c].pc # "index" /\ UNCHANGED <<disk, memory, ghost>>
    BY <1>4 DEF FetchIntegrated
  <2> HIDE DEF k
  <2> QED BY <2>1, <2>2, <2>3, Zenon DEF Moves
<1>5. CASE FetchTimeout(c) \/ FetchReadError(c)
  <2> DEFINE k == [call[c] EXCEPT !.pc = "error"]
  <2>1. k \in Calls /\ k.pc = "error"
    BY <1>a DEF Calls
  <2>2. Right(k)
    BY <2>1 DEF Right
  <2>3. call' = [call EXCEPT ![c] = k] /\ call[c].pc # "index" /\ UNCHANGED <<disk, memory, ghost>>
    BY <1>5 DEF FetchTimeout, FetchReadError
  <2> HIDE DEF k
  <2> QED BY <2>1, <2>2, <2>3, Zenon DEF Moves
<1>6. CASE FetchSize(c)
  <2> DEFINE k == [call[c] EXCEPT !.size = integrated, !.pc = "read"]
  <2>1. call[c].index < integrated
    BY <1>6, <1>a DEF FetchSize, Right
  <2>2. k \in Calls /\ k.pc = "read" /\ k.index = call[c].index /\ k.size = integrated
    BY <1>a, Sizes, Zenon DEF Calls
  <2>3. Right(k)
    BY <2>1, <2>2, Sizes DEF Right
  <2>4. call' = [call EXCEPT ![c] = k] /\ call[c].pc # "index" /\ UNCHANGED <<disk, memory, ghost>>
    <3>1. call' = [call EXCEPT ![c].size = integrated, ![c].pc = "read"]
      <4>1. ~(call[c].index >= integrated)
        BY <1>b, <2>1, Sizes
      <4> QED BY <1>6, <4>1, Zenon DEF FetchSize
    <3>2. [call EXCEPT ![c].size = integrated, ![c].pc = "read"] =
              [[call EXCEPT ![c].size = integrated] EXCEPT ![c].pc = "read"]
      OBVIOUS
    <3>3. k = [[call[c] EXCEPT !.size = integrated] EXCEPT !.pc = "read"]
      OBVIOUS
    <3>4. [[call EXCEPT ![c].size = integrated] EXCEPT ![c].pc = "read"] =
              [call EXCEPT ![c] = [[call[c] EXCEPT !.size = integrated] EXCEPT !.pc = "read"]]
      BY Zenon DEF TypeOK
    <3>5. call' = [call EXCEPT ![c] = k]
      BY <3>1, <3>2, <3>3, <3>4, Zenon
    <3> QED BY <1>6, <3>5, Zenon DEF FetchSize
  <2> HIDE DEF k
  <2> QED BY <2>2, <2>3, <2>4, Zenon DEF Moves
<1>7. CASE FetchRead(c)
  <2> DEFINE i == call[c].index
             k == [call[c] EXCEPT !.pc = "fetched", !.receipt = log[i + 1]]
  <2>1. i < call[c].size /\ call[c].size <= integrated
    BY <1>7, <1>a DEF FetchRead, Right
  <2>2. i < Len(log) /\ call[c].size <= Len(log) /\ log[i + 1] \in Receipts
    BY <1>b, <2>1, Sizes DEF TypeOK
  <2>3. /\ ~(LocalIndex(i) >= Len(BundleOf(i, call[c].size)))
        /\ BundleOf(i, call[c].size)[LocalIndex(i) + 1] = log[i + 1]
    <3>1. log \in Seq(Receipts)
      BY DEF TypeOK
    <3> QED BY <1>b, <2>1, <2>2, <3>1, BundleHolds
  <2>4. k \in Calls /\ k.pc = "fetched" /\ k.index = i /\ k.receipt = log[i + 1]
    BY <1>a, <2>2, Zenon DEF Calls
  <2>5. Right(k)
    BY <2>2, <2>4 DEF Right
  <2>6. call' = [call EXCEPT ![c] = k]
    BY <1>7, <2>3, Zenon DEF FetchRead, EntryIn
  <2>7. call[c].pc # "index" /\ UNCHANGED <<disk, memory, ghost>>
    BY <1>7 DEF FetchRead
  <2> HIDE DEF k
  <2> QED BY <2>4, <2>5, <2>6, <2>7, Zenon DEF Moves
<1>8. CASE Return(c)
  <2>1. Idle \in Calls /\ Idle.pc = "idle" /\ Right(Idle)
    BY DEF Idle, Calls, Right
  <2> QED BY <1>8, <2>1, Zenon DEF Return, Moves
<1> QED BY <1>1, <1>2, <1>3, <1>4, <1>5, <1>6, <1>7, <1>8 DEF PlainStep

-----------------------------------------------------------------------------
(* The invariant, action by action.                                         *)

LEMMA InitInv == Init => IInv
<1> SUFFICES ASSUME Init PROVE IInv
  OBVIOUS
<1>1. Idle \in Calls /\ Idle.pc = "idle"
  BY DEF Idle, Calls
<1>2. EmptyIndex \in [Digests -> Int] /\ \A d \in Digests : EmptyIndex[d] = NotFound
  BY DEF EmptyIndex, NotFound
<1>3. TypeOK
  <2>1. rebuild \in [next : Nat, size : Nat] /\ rebuild.next = 0 /\ rebuild.size = 0
    BY DEF Init
  <2>2. call \in [Callers -> Calls]
    BY <1>1 DEF Init
  <2>3. gap \in BOOLEAN
    BY Zenon DEF Init
  <2>4. log \in Seq(Receipts) /\ integrated \in 0 .. Len(log)
    BY DEF Init
  <2> QED BY <1>2, <2>1, <2>2, <2>3, <2>4 DEF Init, TypeOK, NoKey
<1>4. CallsRight /\ Distinct
  BY <1>1 DEF Init, CallsRight, Right, Distinct, InSeal
<1>5. IndexSound
  BY <1>2 DEF Init, IndexSound
<1>6. KeyInv /\ Covers /\ IndexComplete
  BY DEF Init, KeyInv, OneSigner, Covers, IndexComplete
<1> QED BY <1>3, <1>4, <1>5, <1>6 DEF IInv

\* Calls that stay as they are stay right while the log grows.
LEMMA CallsStay ==
    ASSUME TypeOK, CallsRight, Distinct, call' = call,
           Len(log') \in Nat, integrated' \in Nat, Grows
    PROVE  CallsRight' /\ Distinct'
<1>1. ASSUME NEW c \in Callers, NEW k, k = call[c] PROVE Right(k)'
  <2>1. k \in Calls /\ Right(k)
    BY <1>1 DEF TypeOK, CallsRight
  <2> QED BY <2>1, RightGrows
<1>2. CallsRight'
  BY <1>1 DEF CallsRight
<1>3. Distinct'
  BY DEF Distinct, InSeal
<1> QED BY <1>2, <1>3

LEMMA MovesInv ==
    ASSUME IInv, NEW c \in Callers, NEW k, Moves(c, k), Right(k)
    PROVE  IInv'
<1> USE DEF disk, memory, ghost
<1>1. /\ UNCHANGED <<disk, memory, ghost>>
      /\ call' = [call EXCEPT ![c] = k] /\ k \in Calls /\ k.pc \notin {"index", "sealed"}
      /\ call[c].pc # "index"
  BY DEF Moves
<1>2. TypeOK /\ call \in [Callers -> Calls]
  BY DEF IInv, TypeOK
<1>3. TypeOK'
  BY <1>1, <1>2 DEF TypeOK
<1>4. \A o \in Callers : call'[o] = IF o = c THEN k ELSE call[o]
  BY <1>1, <1>2
<1>5. CallsRight'
  <2>1. ASSUME NEW o \in Callers, NEW x, x = call'[o] PROVE Right(x)'
    <3>1. Right(x)
      BY <1>4, <2>1 DEF IInv, CallsRight
    <3> QED BY <1>1, <3>1 DEF Right, Holds
  <2> QED BY <2>1 DEF CallsRight
<1>6. Distinct'
  BY <1>1, <1>4 DEF IInv, Distinct, InSeal
<1>7. Sealing' = Sealing
  BY <1>1, <1>4 DEF Sealing
<1>8. \A o \in Sealing : call'[o].index = call[o].index
  BY <1>1, <1>4 DEF Sealing
<1>9. IndexComplete'
  BY <1>1, <1>7, <1>8 DEF IInv, IndexComplete
<1>10. IndexSound' /\ KeyInv' /\ Covers'
  BY <1>1 DEF IInv, IndexSound, Holds, KeyInv, OneSigner, Covers
<1> QED BY <1>3, <1>5, <1>6, <1>9, <1>10 DEF IInv

LEMMA SealAddInv ==
    ASSUME IInv, NEW c \in Callers, NEW r \in Receipts, SealAdd(c, r)
    PROVE  IInv'
<1> USE DEF memory, ghost
<1> DEFINE k == IdleCall("index", r, Len(log))
<1>1. TypeOK /\ log \in Seq(Receipts) /\ call \in [Callers -> Calls]
  BY DEF IInv, TypeOK
<1>2. /\ log' \in Seq(Receipts) /\ Len(log) \in Nat /\ Len(log') = Len(log) + 1
      /\ \A i \in 1 .. Len(log) : log'[i] = log[i]
      /\ log'[Len(log) + 1] = r
  BY <1>1, Appended DEF SealAdd
<1>3. integrated' \in 0 .. Len(log') /\ integrated <= integrated'
  BY <1>1, <1>2, Sizes DEF SealAdd
<1>4. Grows
  BY <1>2, <1>3 DEF Grows
<1>5. k \in Calls /\ k.pc = "index" /\ k.index = Len(log) /\ k.receipt = r
  BY <1>2 DEF IdleCall, Calls
<1>6. /\ state = "open" /\ call[c].pc = "idle" /\ call' = [call EXCEPT ![c] = k]
      /\ UNCHANGED <<keyFile, state, signer, digestIndex, rebuild, failures, keys, signers, gap>>
  <2>1. [Idle EXCEPT !.pc = "index", !.receipt = r, !.index = Len(log)] = k
    BY IdleAt, Zenon
  <2> QED BY <2>1, Zenon DEF SealAdd, Ready, NextIndex
<1> HIDE DEF k
<1>7. \A o \in Callers : call'[o] = IF o = c THEN k ELSE call[o]
  BY <1>1, <1>6
<1>8. TypeOK'
  <2>1. rebuild.size <= integrated'
    BY <1>1, <1>3, Sizes DEF TypeOK
  <2> QED BY <1>1, <1>2, <1>3, <1>5, <1>6, <2>1 DEF TypeOK
<1>9. CallsRight'
  <2>1. ASSUME NEW o \in Callers, NEW x, x = call'[o] PROVE Right(x)'
    <3>1. CASE o = c
      BY <1>2, <1>5, <1>7, <2>1, <3>1 DEF Right
    <3>2. CASE o # c
      <4>1. x \in Calls /\ Right(x)
        BY <1>1, <1>7, <2>1, <3>2 DEF IInv, CallsRight
      <4> QED BY <1>1, <1>2, <1>3, <1>4, <4>1, RightGrows
    <3> QED BY <3>1, <3>2
  <2> QED BY <2>1 DEF CallsRight
<1>10. Distinct'
  <2>1. \A o \in Callers : InSeal(o) => call[o].index < Len(log)
    BY DEF IInv, CallsRight, Right, InSeal
  <2>2. \A o \in Callers : call[o].index \in Nat
    BY <1>1 DEF Calls
  <2> QED BY <1>2, <1>5, <1>6, <1>7, <2>1, <2>2 DEF IInv, Distinct, InSeal
<1>11. IndexSound'
  BY <1>2, <1>6 DEF IInv, IndexSound, Holds
<1>12. IndexComplete'
  <2>1. SUFFICES ASSUME ~gap, NEW i \in 1 .. Len(log')
                 PROVE  \/ digestIndex[SHA256Hex[log'[i]]] # NotFound
                        \/ \E o \in Sealing' : call'[o].index = i - 1
    BY <1>6 DEF IndexComplete
  <2>2. CASE i = Len(log) + 1
    <3>1. c \in Sealing' /\ call'[c].index = i - 1
      BY <1>2, <1>5, <1>7, <2>2 DEF Sealing
    <3> QED BY <3>1
  <2>3. CASE i \in 1 .. Len(log)
    <3>1. \/ digestIndex[SHA256Hex[log[i]]] # NotFound
          \/ \E o \in Sealing : call[o].index = i - 1
      BY <1>6, <2>1, <2>3 DEF IInv, IndexComplete
    <3>2. \A o \in Sealing : o \in Sealing' /\ call'[o].index = call[o].index
      BY <1>6, <1>7 DEF Sealing
    <3> QED BY <1>2, <2>3, <3>1, <3>2
  <2> QED BY <1>2, <2>1, <2>2, <2>3
<1>13. KeyInv' /\ Covers'
  BY <1>6 DEF IInv, KeyInv, OneSigner, Covers
<1> QED BY <1>8, <1>9, <1>10, <1>11, <1>12, <1>13 DEF IInv

LEMMA SealIndexInv ==
    ASSUME IInv, NEW c \in Callers, SealIndex(c)
    PROVE  IInv'
<1> USE DEF disk, ghost
<1> DEFINE k == [call[c] EXCEPT !.pc = "sealed"]
           h == SHA256Hex[call[c].receipt]
<1>1. TypeOK /\ call \in [Callers -> Calls] /\ call[c] \in Calls /\ digestIndex \in [Digests -> Int]
  BY DEF IInv, TypeOK
<1>2. /\ call[c].pc = "index" /\ call[c].index \in Nat /\ call[c].index < Len(log)
      /\ log[call[c].index + 1] = call[c].receipt
  BY <1>1 DEF SealIndex, IInv, CallsRight, Right, Calls
<1>3. h \in Digests
  <2>1. call[c].receipt \in Receipts
    BY <1>1, <1>2, Sizes DEF TypeOK
  <2> QED BY <2>1, LedgerAssumption
<1>4. /\ UNCHANGED <<keyFile, log, integrated, state, signer, rebuild, failures, keys, signers, gap>>
      /\ digestIndex' = [digestIndex EXCEPT ![h] = call[c].index]
      /\ call' = [call EXCEPT ![c] = k]
  BY <1>1 DEF SealIndex, IndexEntry
<1>5. k \in Calls /\ k.pc = "sealed" /\ k.index = call[c].index /\ k.receipt = call[c].receipt
  BY <1>1 DEF Calls
<1> HIDE DEF k, h
<1>6. \A o \in Callers : call'[o] = IF o = c THEN k ELSE call[o]
  BY <1>1, <1>4
<1>7. \A d \in Digests : digestIndex'[d] = IF d = h THEN call[c].index ELSE digestIndex[d]
  BY <1>1, <1>4
<1>8. call[c].index # NotFound
  BY <1>2 DEF NotFound
<1>9. TypeOK'
  <2>1. call[c].index \in Int
    BY <1>2
  <2>2. digestIndex' \in [Digests -> Int]
    BY <1>1, <1>4, <2>1, Zenon
  <2> QED BY <1>1, <1>4, <1>5, <2>2 DEF TypeOK
<1>10. CallsRight'
  <2>1. ASSUME NEW o \in Callers, NEW x, x = call'[o] PROVE Right(x)'
    <3>1. CASE o = c
      BY <1>2, <1>4, <1>5, <1>6, <2>1, <3>1 DEF Right
    <3>2. CASE o # c
      BY <1>4, <1>6, <2>1, <3>2 DEF IInv, CallsRight, Right, Holds
    <3> QED BY <3>1, <3>2
  <2> QED BY <2>1 DEF CallsRight
<1>11. Distinct'
  BY <1>2, <1>5, <1>6 DEF IInv, Distinct, InSeal
<1>12. IndexSound'
  <2>1. Holds(call[c].index, h)
    BY <1>1, <1>2, Sizes DEF Holds, h
  <2> QED BY <1>4, <1>7, <2>1 DEF IInv, IndexSound, Holds
<1>13. \A d \in Digests : digestIndex[d] # NotFound => digestIndex'[d] # NotFound
  BY <1>7, <1>8
<1>14. \A i \in 1 .. Len(log) : SHA256Hex[log[i]] \in Digests
  BY <1>1, LedgerAssumption DEF TypeOK
<1>15. Covers'
  <2>1. rebuild.next \in Nat /\ rebuild.next <= Len(log)
    BY <1>1, Sizes DEF TypeOK
  <2> QED BY <1>1, <1>4, <1>13, <1>14, <2>1, Sizes DEF IInv, Covers
<1>16. IndexComplete'
  <2>1. SUFFICES ASSUME state = "open", ~gap, NEW i \in 1 .. Len(log)
                 PROVE  \/ digestIndex'[SHA256Hex[log[i]]] # NotFound
                        \/ \E o \in Sealing' : call'[o].index = i - 1
    BY <1>4 DEF IndexComplete
  <2>2. \/ digestIndex[SHA256Hex[log[i]]] # NotFound
        \/ \E o \in Sealing : call[o].index = i - 1
    BY <2>1 DEF IInv, IndexComplete
  <2>3. ASSUME NEW o \in Sealing, call[o].index = i - 1
        PROVE  \/ digestIndex'[SHA256Hex[log[i]]] # NotFound
               \/ \E q \in Sealing' : call'[q].index = i - 1
    <3>1. CASE o = c
      BY <1>1, <1>2, <1>3, <1>7, <1>8, <2>3, <3>1, Sizes DEF h
    <3>2. CASE o # c
      BY <1>6, <2>3, <3>2 DEF Sealing
    <3> QED BY <3>1, <3>2
  <2> QED BY <1>13, <1>14, <2>2, <2>3
<1>17. KeyInv'
  BY <1>4 DEF IInv, KeyInv, OneSigner
<1> QED BY <1>9, <1>10, <1>11, <1>12, <1>15, <1>16, <1>17 DEF IInv

\* The appender starts on a key that has signed all checkpoints so far.
LEMMA StartInv ==
    ASSUME IInv, NEW key, key \in Nat \ {NoKey}, keyFile' = key, signers \subseteq {key},
           StartAppender(key), UNCHANGED <<log, call, failures, keys, gap>>
    PROVE  IInv'
<1>1. TypeOK /\ EmptyIndex \in [Digests -> Int] /\ \A d \in Digests : EmptyIndex[d] = NotFound
  BY DEF IInv, EmptyIndex, NotFound
<1>2. /\ integrated' \in integrated .. Len(log) /\ rebuild' = [next |-> 0, size |-> integrated']
      /\ digestIndex' = EmptyIndex /\ signer' = key /\ signers' = signers \cup {key}
      /\ state' = "rebuilding"
  BY DEF StartAppender
<1>3. Grows /\ Len(log') \in Nat /\ integrated' \in Nat
  BY <1>1, <1>2, IntegratedGrows
<1>4. CallsRight' /\ Distinct'
  BY <1>3, CallsStay DEF IInv
<1>5. TypeOK'
  <2>1. integrated' \in 0 .. Len(log)
    BY <1>1, <1>2, Sizes
  <2>2. rebuild' \in [next : Nat, size : Nat] /\ rebuild'.next = 0 /\ rebuild'.size = integrated'
    BY <1>2, <1>3
  <2> QED BY <1>1, <1>2, <1>3, <2>1, <2>2 DEF TypeOK
<1>6. IndexSound' /\ Covers' /\ IndexComplete'
  BY <1>1, <1>2 DEF IndexSound, Covers, IndexComplete
<1>7. KeyInv'
  BY <1>2 DEF KeyInv, OneSigner
<1> QED BY <1>4, <1>5, <1>6, <1>7 DEF IInv

LEMMA RebuildEntryInv ==
    ASSUME IInv, RebuildEntry
    PROVE  IInv'
<1> USE DEF disk, ghost
<1> DEFINE n == rebuild.next
           h == SHA256Hex[log[n + 1]]
<1>1. /\ TypeOK /\ n \in Nat /\ rebuild.size \in Nat /\ n < rebuild.size /\ rebuild.size <= integrated
      /\ digestIndex \in [Digests -> Int] /\ log \in Seq(Receipts)
  BY DEF IInv, TypeOK, RebuildEntry
<1>2. integrated \in Nat /\ n < integrated /\ integrated <= Len(log) /\ Len(log) \in Nat
  BY <1>1, Sizes
<1>3. BundleOf(n, integrated)[LocalIndex(n) + 1] = log[n + 1]
  BY <1>1, <1>2, BundleHolds
<1>4. log[n + 1] \in Receipts /\ h \in Digests
  BY <1>1, <1>2, LedgerAssumption
<1>5. /\ digestIndex' = [digestIndex EXCEPT ![h] = n]
      /\ rebuild' = [rebuild EXCEPT !.next = n + 1]
      /\ UNCHANGED <<keyFile, log, integrated, state, signer, call, failures, keys, signers, gap>>
      /\ state = "rebuilding"
  BY <1>3 DEF RebuildEntry
<1>6. rebuild' \in [next : Nat, size : Nat] /\ rebuild'.next = n + 1 /\ rebuild'.size = rebuild.size
  BY <1>1, <1>5 DEF TypeOK
<1> HIDE DEF h
<1>7. \A d \in Digests : digestIndex'[d] = IF d = h THEN n ELSE digestIndex[d]
  BY <1>1, <1>5
<1>8. n # NotFound
  BY <1>1 DEF NotFound
<1>9. TypeOK'
  <2>1. n \in Int
    BY <1>1
  <2>2. digestIndex' \in [Digests -> Int]
    BY <1>1, <1>5, <2>1, Zenon
  <2>3. rebuild'.next <= rebuild'.size /\ rebuild'.size <= integrated
    BY <1>1, <1>6
  <2> QED BY <1>1, <1>5, <1>6, <2>2, <2>3 DEF TypeOK
<1>10. IndexSound'
  <2>1. Holds(n, h)
    BY <1>1, <1>2 DEF Holds, h
  <2> QED BY <1>5, <1>7, <2>1 DEF IInv, IndexSound, Holds
<1>11. Covers'
  <2>1. ASSUME NEW i \in 1 .. n + 1 PROVE digestIndex'[SHA256Hex[log[i]]] # NotFound
    <3>1. SHA256Hex[log[i]] \in Digests
      BY <1>1, <1>2, LedgerAssumption
    <3>2. CASE i = n + 1
      BY <1>7, <1>8, <3>1, <3>2 DEF h
    <3>3. CASE i \in 1 .. n
      <4>1. digestIndex[SHA256Hex[log[i]]] # NotFound
        BY <1>5, <3>3 DEF IInv, Covers
      <4> QED BY <1>7, <1>8, <3>1, <4>1
    <3> QED BY <1>1, <3>2, <3>3
  <2> QED BY <1>5, <1>6, <2>1 DEF Covers
<1>12. CallsRight' /\ Distinct'
  BY <1>2, <1>5, CallsStay DEF IInv, Grows
<1>13. KeyInv' /\ IndexComplete'
  BY <1>5 DEF IInv, KeyInv, OneSigner, IndexComplete
<1> QED BY <1>9, <1>10, <1>11, <1>12, <1>13 DEF IInv

\* What the rebuild has not reached is a gap.
LEMMA EnterServiceInv ==
    ASSUME IInv, state = "rebuilding", EnterService
    PROVE  IInv'
<1> USE DEF disk
<1>1. TypeOK /\ Len(log) \in Nat /\ rebuild.next \in Nat
  BY Sizes DEF IInv, TypeOK
<1>2. /\ state' = "open" /\ gap' = (rebuild.next < Len(log))
      /\ UNCHANGED <<keyFile, log, integrated, signer, digestIndex, rebuild, call, failures, keys, signers>>
  BY DEF EnterService
<1>3. TypeOK'
  <2>1. gap' \in BOOLEAN
    BY <1>2
  <2> QED BY <1>1, <1>2, <2>1 DEF TypeOK
<1>4. IndexComplete'
  <2>1. SUFFICES ASSUME ~(rebuild.next < Len(log)), NEW i \in 1 .. Len(log)
                 PROVE  digestIndex[SHA256Hex[log[i]]] # NotFound
    BY <1>2, Zenon DEF IndexComplete
  <2>2. i \in 1 .. rebuild.next
    BY <1>1, <2>1
  <2> QED BY <2>2 DEF IInv, Covers
<1>5. CallsRight' /\ Distinct'
  BY <1>1, <1>2, Sizes, CallsStay DEF IInv, Grows
<1>6. IndexSound' /\ KeyInv' /\ Covers'
  BY <1>2 DEF IInv, IndexSound, Holds, KeyInv, OneSigner, Covers
<1> QED BY <1>3, <1>4, <1>5, <1>6 DEF IInv

LEMMA OpenInv ==
    ASSUME IInv, Open
    PROVE  IInv'
<1> USE DEF disk
<1>a. TypeOK /\ Len(log) \in Nat /\ integrated \in Nat
  BY Sizes DEF IInv
<1>1. CASE LoadKey
  <2>1. keyFile \in Nat \ {NoKey} /\ keyFile' = keyFile /\ signers \subseteq {keyFile}
    BY <1>1 DEF LoadKey, IInv, TypeOK, KeyInv, OneSigner
  <2>2. StartAppender(keyFile) /\ UNCHANGED <<log, call, failures, keys, gap>>
    BY <1>1 DEF LoadKey
  <2> QED BY <2>1, <2>2, StartInv
<1>2. CASE GenerateKey
  <2>1. /\ keys' = keys + 1 /\ signer' = keys + 1 /\ state' = "generated" /\ keyFile = NoKey
        /\ UNCHANGED <<keyFile, log, integrated, digestIndex, rebuild, call, failures, signers, gap>>
    BY <1>2 DEF GenerateKey
  <2>2. TypeOK' /\ signer' > 0
    BY <1>a, <2>1 DEF TypeOK
  <2>3. CallsRight' /\ Distinct'
    BY <1>a, <2>1, CallsStay DEF IInv, Grows
  <2>4. IndexSound' /\ KeyInv' /\ Covers' /\ IndexComplete'
    BY <2>1, <2>2 DEF IInv, IndexSound, Holds, KeyInv, OneSigner, Covers, IndexComplete
  <2> QED BY <2>2, <2>3, <2>4 DEF IInv
<1>3. CASE PersistKey
  <2>1. signer \in Nat \ {NoKey} /\ keyFile' = signer /\ signers \subseteq {signer}
    BY <1>3 DEF PersistKey, IInv, TypeOK, KeyInv, NoKey
  <2>2. StartAppender(signer) /\ UNCHANGED <<log, call, failures, keys, gap>>
    BY <1>3 DEF PersistKey
  <2> QED BY <2>1, <2>2, StartInv
<1>4. CASE OpenFails
  <2>1. /\ keyFile' \in {keyFile, signer} /\ signer' = NoKey /\ state' = "closed" /\ state = "generated"
        /\ failures' = failures + 1
        /\ UNCHANGED <<log, integrated, digestIndex, rebuild, call, keys, signers, gap>>
    BY <1>4 DEF OpenFails
  <2>2. TypeOK'
    BY <1>a, <2>1 DEF TypeOK, NoKey
  <2>3. CallsRight' /\ Distinct'
    BY <1>a, <2>1, CallsStay DEF IInv, Grows
  <2>4. IndexSound' /\ KeyInv' /\ Covers' /\ IndexComplete'
    BY <2>1 DEF IInv, IndexSound, Holds, KeyInv, OneSigner, Covers, IndexComplete
  <2> QED BY <2>2, <2>3, <2>4 DEF IInv
<1>5. CASE RebuildEntry
  BY <1>5, RebuildEntryInv
<1>6. CASE RebuildDone \/ RebuildFails
  BY <1>6, EnterServiceInv DEF RebuildDone, RebuildFails
<1> QED BY <1>1, <1>2, <1>3, <1>4, <1>5, <1>6 DEF Open

LEMMA IntegrateInv ==
    ASSUME IInv, Integrate
    PROVE  IInv'
<1> USE DEF memory, ghost
<1>1. TypeOK /\ Len(log) \in Nat /\ integrated \in Nat /\ integrated <= Len(log)
  BY Sizes DEF IInv
<1>2. /\ integrated' \in (integrated + 1) .. Len(log)
      /\ UNCHANGED <<keyFile, log, state, signer, digestIndex, rebuild, call, failures, keys, signers, gap>>
  BY DEF Integrate
<1>3. integrated' \in 0 .. Len(log) /\ integrated <= integrated'
  BY <1>1, <1>2
<1>4. TypeOK'
  <2>1. rebuild.size <= integrated'
    BY <1>1, <1>3 DEF TypeOK
  <2> QED BY <1>1, <1>2, <1>3, <2>1 DEF TypeOK
<1>5. CallsRight' /\ Distinct'
  BY <1>1, <1>2, <1>3, CallsStay DEF IInv, Grows
<1>6. IndexSound' /\ KeyInv' /\ Covers' /\ IndexComplete'
  BY <1>2 DEF IInv, IndexSound, Holds, KeyInv, OneSigner, Covers, IndexComplete, Sealing
<1> QED BY <1>4, <1>5, <1>6 DEF IInv

LEMMA CrashInv ==
    ASSUME IInv, Crash
    PROVE  IInv'
<1> USE DEF disk
<1>1. /\ state' = "closed" /\ signer' = NoKey /\ digestIndex' = EmptyIndex /\ failures' = failures + 1
      /\ rebuild' = [next |-> 0, size |-> 0] /\ call' = [c \in Callers |-> Idle] /\ gap' = FALSE
      /\ UNCHANGED <<keyFile, log, integrated, keys, signers>>
  BY DEF Crash
<1>2. Idle \in Calls /\ Idle.pc = "idle"
  BY DEF Idle, Calls
<1>3. EmptyIndex \in [Digests -> Int] /\ \A d \in Digests : EmptyIndex[d] = NotFound
  BY DEF EmptyIndex, NotFound
<1>4. TypeOK'
  <2>1. rebuild' \in [next : Nat, size : Nat] /\ rebuild'.next = 0 /\ rebuild'.size = 0
    BY <1>1
  <2>2. call' \in [Callers -> Calls]
    BY <1>1, <1>2
  <2>3. gap' \in BOOLEAN
    BY <1>1, Zenon
  <2>4. TypeOK /\ integrated \in Nat
    BY Sizes DEF IInv
  <2> QED BY <1>1, <1>3, <2>1, <2>2, <2>3, <2>4 DEF TypeOK, NoKey
<1>5. CallsRight' /\ Distinct'
  BY <1>1, <1>2 DEF CallsRight, Right, Distinct, InSeal
<1>6. IndexSound' /\ KeyInv' /\ Covers' /\ IndexComplete'
  BY <1>1, <1>3 DEF IInv, IndexSound, KeyInv, OneSigner, Covers, IndexComplete
<1> QED BY <1>4, <1>5, <1>6 DEF IInv

LEMMA StutterInv ==
    ASSUME IInv, UNCHANGED vars
    PROVE  IInv'
<1>1. UNCHANGED <<keyFile, log, integrated, state, signer, digestIndex, rebuild, call, failures, keys, signers, gap>>
  BY DEF vars, disk, memory, ghost
<1>2. CallsRight' /\ Distinct'
  BY <1>1 DEF IInv, CallsRight, Right, Holds, Distinct, InSeal
<1>3. TypeOK'
  BY <1>1 DEF IInv, TypeOK
<1>4. IndexSound' /\ KeyInv' /\ Covers' /\ IndexComplete'
  BY <1>1 DEF IInv, IndexSound, Holds, KeyInv, OneSigner, Covers, IndexComplete, Sealing
<1> QED BY <1>2, <1>3, <1>4 DEF IInv

LEMMA NextInv == IInv /\ [Next]_vars => IInv'
<1> SUFFICES ASSUME IInv, [Next]_vars PROVE IInv'
  OBVIOUS
<1>1. ASSUME NEW c \in Callers, Use(c) PROVE IInv'
  <2>1. CASE PlainStep(c)
    <3>1. PICK k : Moves(c, k) /\ Right(k)
      BY <2>1, PlainMoves DEF IInv
    <3> QED BY <3>1, MovesInv
  <2>2. CASE \E r \in Receipts : SealAdd(c, r)
    BY <2>2, SealAddInv
  <2>3. CASE SealIndex(c)
    BY <2>3, SealIndexInv
  <2> QED BY <1>1, <2>1, <2>2, <2>3 DEF Use, PlainStep
<1> QED BY <1>1, OpenInv, IntegrateInv, CrashInv, StutterInv DEF Next

LEMMA InvAlways == Spec => []IInv
BY InitInv, NextInv, PTL DEF Spec

-----------------------------------------------------------------------------
(* Theorems.                                                                *)

\* Files, memory and calls of a ledger keep their types, and nothing runs ahead
\* of what is on disk.
THEOREM TypeCorrect == Spec => []TypeOK
BY InvAlways, PTL DEF IInv

\* A digest that VerifyDigest finds is in the log at that index, however Seal,
\* crashes and rebuildDigestIndex interleave.
THEOREM HitsAreSealed == Spec => []IndexSound
BY InvAlways, PTL DEF IInv

\* After a rebuild that reached the end of the log no sealed digest is missed,
\* except one whose Seal has not returned.
THEOREM NothingMissed == Spec => []IndexComplete
BY InvAlways, PTL DEF IInv

\* Seal returns the index of its receipt, and no two callers get the same.
THEOREM SealedWhereItSays == Spec => []SealExact
<1>1. IInv => SealExact
  BY DEF IInv, CallsRight, Right, Distinct, InSeal, SealExact
<1> QED BY <1>1, InvAlways, PTL

\* Fetch returns the entry asked for, for every bundle width and however the
\* tree grows between its three looks at it.
THEOREM FetchedIsAskedFor == Spec => []ReadExact
<1>1. IInv => ReadExact
  BY DEF IInv, CallsRight, Right, ReadExact
<1> QED BY <1>1, InvAlways, PTL

\* Once waitForIntegration has seen an entry, Fetch never ends with
\* ErrIndexOutOfRange.
THEOREM NeverOutOfRange == Spec => []IntegratedIsReadable
<1>1. IInv => IntegratedIsReadable
  BY DEF IInv, CallsRight, Right, IntegratedIsReadable
<1> QED BY <1>1, InvAlways, PTL

\* Every checkpoint is signed with the key on disk, however often generating
\* and saving the key is interrupted.
THEOREM SignedByKeyOnDisk == Spec => []OneSigner
<1>1. IInv => OneSigner
  BY DEF IInv, KeyInv
<1> QED BY <1>1, InvAlways, PTL

LEMMA WORMStep == IInv /\ [Next]_vars => [WORM!Next]_(WORM!vars)
<1> SUFFICES ASSUME IInv, [Next]_vars PROVE WORM!Next \/ UNCHANGED <<log, integrated>>
  BY DEF WORM!vars
<1> USE DEF vars, disk, memory, ghost
<1>a. TypeOK /\ Len(log) \in Nat /\ integrated \in Nat
  BY Sizes DEF IInv
<1>b. ASSUME log' = log, integrated' \in integrated .. Len(log)
      PROVE  WORM!Next \/ UNCHANGED <<log, integrated>>
  <2>1. integrated' = integrated \/ integrated' \in (integrated + 1) .. Len(log)
    BY <1>a, <1>b
  <2> QED BY <1>b, <2>1 DEF WORM!Next, WORM!Reveal
<1>1. CASE Open
  BY <1>1, <1>b DEF Open, LoadKey, GenerateKey, PersistKey, OpenFails, StartAppender, RebuildEntry, RebuildDone,
                    RebuildFails, EnterService
<1>2. CASE Integrate
  BY <1>2 DEF Integrate, WORM!Next, WORM!Reveal
<1>3. CASE Crash
  BY <1>3 DEF Crash
<1>4. ASSUME NEW c \in Callers, Use(c) PROVE WORM!Next \/ UNCHANGED <<log, integrated>>
  <2>1. CASE PlainStep(c)
    <3>1. PICK k : Moves(c, k)
      BY <2>1, PlainMoves DEF IInv
    <3> QED BY <3>1 DEF Moves
  <2>2. ASSUME NEW r \in Receipts, SealAdd(c, r) PROVE WORM!Next
    BY <2>2 DEF SealAdd, WORM!Next, WORM!AppendEntry
  <2>3. CASE SealIndex(c)
    BY <2>3 DEF SealIndex
  <2> QED BY <1>4, <2>1, <2>2, <2>3 DEF Use, PlainStep
<1> QED BY <1>1, <1>2, <1>3, <1>4 DEF Next

\* The ledger is write-once: whatever Seal, integration, crashes and openings
\* do, readers see a growing prefix of a log that only grows.
THEOREM LedgerIsWORM == Spec => ImplementsWORM
<1>1. Init => WORM!Init
  BY DEF Init, WORM!Init
<1> QED BY <1>1, WORMStep, InvAlways, PTL DEF Spec, ImplementsWORM, WORM!Spec
=============================================================================
