------------------------- MODULE WalletConflictProofs -------------------------
(***************************************************************************)
(* Proofs about requests that get in each other's way: transfers that lock *)
(* wallets in a consistent order never wait in a circle, and requests that *)
(* could each be paid alone, sent while nothing fails, do not all end      *)
(* without a settlement.                                                   *)
(***************************************************************************)
EXTENDS WalletStatusProofs, WellFoundedInduction

USE DEF Jobs, Final, Statuses, Channels

-----------------------------------------------------------------------------
(* Circular waits.                                                         *)

(* Whatever fails, only transfers are at a second update.                  *)
LEMMA SecondUpdatesStay ==
    ASSUME IInv, SecondUpdates, [Next]_vars
    PROVE  SecondUpdates'
<1> USE DEF IInv, TypeOK, StoreTypeOK, SecondUpdates, KindOf, tables, keys,
            messages, Go, Handler, Leave, Answer
<1>1. CASE Aside \/ UNCHANGED vars
  BY <1>1
     DEF vars, Aside, StartRead, ReadStep, FindWallets, CacheWallets,
         ReadThrows, Read, ExpireRequest, ExpireWallets, CloseChannel, Finished
<1>2. ASSUME NEW j \in Calls,
             (\E r \in Requests : Call(j, r)) \/ CallStep(j) \/ CallThrows(j)
      PROVE  SecondUpdates'
  BY <1>2 DEF Call, CallStep, GetCache, FindRequest, SaveCache, Send, CallThrows
<1>3. CASE StartAgain
  BY <1>3 DEF StartAgain, HandlerSteps, TrySteps, CatchSteps, TxSteps
<1>4. ASSUME NEW j \in Jobs, Deliver(j) \/ HandlerStep(j) \/ Fault(j)
      PROVE  SecondUpdates'
  <2>1. CASE Deliver(j) \/ CheckCache(j) \/ DropCache(j) \/ Ack(j)
    BY <2>1 DEF Deliver, CheckCache, DropCache, Ack
  <2>2. CASE Prelog(j) \/ ValidateWallet(j) \/ ReadWallets(j)
    BY <2>2 DEF Prelog, LogRequest, AfterPrelog, ValidateWallet, ReadWallets
  <2>3. CASE UpdateFrom(j) \/ UpdateTo(j) \/ DeadlockAbort(j) \/ Commit(j)
    BY <2>3 DEF UpdateFrom, UpdateTo, DeadlockAbort, Commit
  <2>4. CASE CacheSuccess(j) \/ Invalidate(j) \/ Notify(j)
    BY <2>4 DEF CacheSuccess, Invalidate, Notify
  <2>5. CASE MarkFailed(j) \/ CacheFailed(j)
    BY <2>5 DEF MarkFailed, CacheFailed
  <2>6. CASE Republish(j)
    BY <2>6 DEF Republish
  <2>7. CASE AckThrows(j)
    BY <1>3, <2>7 DEF AckThrows
  <2>8. CASE Fault(j)
    BY <2>8 DEF Fault, HandlerThrows, CatchThrows, ReplyLost, LogRequest
  <2> QED
    BY <1>4, <2>1, <2>2, <2>3, <2>4, <2>5, <2>6, <2>7, <2>8 DEF HandlerStep
<1> QED
  BY <1>1, <1>2, <1>3, <1>4 DEF Next, Aside, Restart

(* So it is an invariant.                                                  *)
LEMMA SecondUpdatesAlways == Spec => []SecondUpdates
<1>1. Init => SecondUpdates
  BY DEF Init, StoreInit, SecondUpdates
<1>2. IInv /\ SecondUpdates /\ [Next]_vars => SecondUpdates'
  BY SecondUpdatesStay
<1> QED
  BY <1>1, <1>2, Invariance, PTL DEF Spec

(* Some member of a set of jobs has the least of the numbers f gives them. *)
LEMMA LeastJob ==
    ASSUME NEW S, S # {}, NEW f, \A j \in S : f[j] \in Nat
    PROVE  \E j \in S : \A k \in S : f[j] <= f[k]
<1> DEFINE N == {f[j] : j \in S}
<1>0. N \subseteq Nat /\ N # {}
  OBVIOUS
<1> HIDE DEF N
<1>1. PICK n \in N : \A m \in N : ~ (<<m, n>> \in OpToRel(<, Nat))
  BY <1>0, NatLessThanWellFounded, WFMin, Zenon
<1>2. \A m \in N : n <= m
  <2> SUFFICES ASSUME NEW m \in N, m < n PROVE FALSE
    BY <1>0
  <2>1. <<m, n>> \in Nat \X Nat /\ <<m, n>>[1] < <<m, n>>[2]
    BY <1>0
  <2>2. <<m, n>> \in {ss \in Nat \X Nat : ss[1] < ss[2]}
    BY <2>1
  <2>3. <<m, n>> \in OpToRel(<, Nat)
    BY <2>2, Zenon DEF OpToRel
  <2> QED
    BY <1>1, <2>3
<1> USE DEF N
<1> QED
  BY <1>1, <1>2

(* What the README promises, wallets locked in a consistent order, would   *)
(* keep handlers from waiting in a circle: when some rank of the wallets   *)
(* is climbed by every transfer to another wallet, none ever does.  (The   *)
(* handlers lock the sender first whatever its rank, and the run           *)
(* circular_wait shows the circle two opposite transfers close.)           *)
THEOREM OrderedNeverWait ==
    ASSUME NEW rank, Ordered(rank)
    PROVE  Spec => []NoCircularWait
<1>1. IInv /\ SecondUpdates => NoCircularWait
  <2> SUFFICES ASSUME IInv, SecondUpdates, NEW j \in Jobs, InWaitCycle(j)
               PROVE  FALSE
    BY DEF NoCircularWait
  <2>1. PICK S \in SUBSET Jobs :
          /\ j \in S
          /\ \A k \in S : /\ \E l \in S : WaitsFor(k, l)
                          /\ \E l \in S : WaitsFor(l, k)
    BY DEF InWaitCycle
  <2>2. \A k \in S : pc[k] = "updateTo"
    BY <2>1 DEF WaitsFor, Holds
  <2>3. \A k \in S : /\ From(k) \in Wallets /\ To(k) \in Wallets
                     /\ To(k) # From(k) => rank[From(k)] < rank[To(k)]
    BY <2>2 DEF IInv, Bodies, SnapshotsHold, SecondUpdates, KindOf, Ordered,
                Valid, ValidWallet, From, To
  <2> DEFINE f == [k \in S |-> rank[From(k)]]
  <2>4. PICK k \in S : \A l \in S : f[k] <= f[l]
    BY <2>1, <2>3, LeastJob DEF Ordered
  <2>5. PICK l \in S : WaitsFor(l, k)
    BY <2>1
  <2>6. To(l) = From(k) /\ l # k
    BY <2>2, <2>5 DEF WaitsFor, Holds
  <2>7. To(l) # From(l)
    BY <2>2, <2>3, <2>6 DEF IInv, LocksExclude, Holds
  <2> QED
    BY <2>3, <2>4, <2>6, <2>7 DEF Ordered
<1> QED
  BY <1>1, Invariance, SecondUpdatesAlways, PTL

-----------------------------------------------------------------------------
(* Conflicts.                                                              *)

(* The steps of handlers while nothing fails.                              *)
Works(j) ==
    \/ Deliver(j) \/ CheckCache(j) \/ DropCache(j) \/ Prelog(j)
    \/ ValidateWallet(j) \/ ReadWallets(j) \/ UpdateFrom(j) \/ UpdateTo(j)
    \/ DeadlockAbort(j) \/ Commit(j) \/ CacheSuccess(j) \/ Invalidate(j)
    \/ Notify(j) \/ MarkFailed(j) \/ CacheFailed(j) \/ Republish(j) \/ Ack(j)

(* Nothing dies, and no channel closes.                                    *)
LEMMA NextWorks ==
    ASSUME Faults = {}, ChannelsOpen, [Next]_vars
    PROVE  \/ UNCHANGED <<tables, channel, pc, job, snap, reply>>
           \/ \E j \in Calls : (\E r \in Requests : Call(j, r)) \/ CallStep(j)
           \/ \E j \in Jobs : Works(j)
<1> USE DEF vars, tables, keys, messages
<1>1. ~ Restart /\ \A j \in Jobs : ~ Fault(j) /\ ~ CallThrows(j) /\ ~ AckThrows(j)
  BY DEF Restart, Fault, HandlerThrows, TryFails, CatchThrows, ReplyLost,
         CallThrows, AckThrows, ChannelsOpen
<1>2. CASE Aside \/ UNCHANGED vars
  BY <1>2
     DEF Aside, StartRead, ReadStep, FindWallets, CacheWallets, ReadThrows,
         Read, ExpireRequest, ExpireWallets, CloseChannel, Finished
<1>3. ASSUME NEW j \in Jobs, Deliver(j) \/ HandlerStep(j)
      PROVE  Works(j)
  BY <1>1, <1>3 DEF HandlerStep, Works
<1> QED
  BY <1>1, <1>2, <1>3 DEF Next, Aside

(* The channels stay open.                                                 *)
LEMMA ChannelsStay ==
    ASSUME IInv, ChannelsOpen, Faults = {}, [Next]_vars
    PROVE  ChannelsOpen'
<1> USE DEF ChannelsOpen, tables, keys, messages
<1>1. ASSUME NEW j \in Calls, (\E r \in Requests : Call(j, r)) \/ CallStep(j)
      PROVE  UNCHANGED channel
  BY <1>1 DEF Call, CallStep, GetCache, FindRequest, SaveCache, Send
<1>2. ASSUME NEW j \in Jobs, Works(j)
      PROVE  UNCHANGED channel
  BY <1>2
     DEF Works, Deliver, CheckCache, DropCache, Prelog, ValidateWallet,
         ReadWallets, UpdateFrom, UpdateTo, DeadlockAbort, Commit,
         CacheSuccess, Invalidate, Notify, MarkFailed, CacheFailed,
         Republish, Ack
<1> QED
  BY <1>1, <1>2, NextWorks

(* A commit leaves rows behind.                                            *)
LEMMA ApplyWrites ==
    ASSUME NEW j, Apply(j)
    PROVE  ledger' # {}
<1>1. PICK fee : ledger' = ledger \cup Entries(job[j], fee)
  BY DEF Apply
<1>2. Entries(job[j], fee) # {}
  BY DEF Entries, Touched
<1> QED
  BY <1>1, <1>2

(* So, as long as there are none, nothing has moved.                       *)
LEMMA NothingMovesYet ==
    ASSUME IInv, NothingMoved, [Next]_vars
    PROVE  NothingMoved'
BY NextCommits, ApplyWrites DEF NothingMoved

(* A handler that has validated, read or updated goes on, if nothing has   *)
(* moved: it does not fail.                                                *)
LEMMA TransactionGoesOn ==
    ASSUME IInv, EachCanBePaid, SecondUpdates, NothingMoved, ledger = {},
           NEW j \in Jobs,
           ValidateWallet(j) \/ ReadWallets(j) \/ UpdateFrom(j) \/ UpdateTo(j)
    PROVE  pc'[j] \in BeforeCommit
<1> USE DEF IInv, TypeOK, StoreTypeOK, Go, Handler, BeforeCommit, TxSteps
<1>1. /\ job[j] \in Requests /\ Valid(job[j])
      /\ Debits(job[j]) => InitialBalance[From(j)] >= job[j].amount
      /\ From(j) \in Wallets /\ To(j) \in Wallets
  BY DEF ValidateWallet, ReadWallets, UpdateFrom, UpdateTo, Bodies,
         EachCanBePaid, Valid, ValidWallet, From, To
<1>2. CASE ValidateWallet(j)
  BY <1>1, <1>2 DEF ValidateWallet
<1>3. CASE ReadWallets(j)
  BY <1>1, <1>3 DEF ReadWallets, Accepts, NothingMoved
<1>4. ASSUME pc[j] \in {"updateFrom", "updateTo"}
      PROVE  /\ snap[j].from = version[From(j)]
             /\ snap[j].to = version[To(j)]
  <2>1. version[From(j)] = 0 /\ version[To(j)] = 0
    BY <1>1 DEF NothingMoved
  <2>2. snap[j].from \in Nat /\ snap[j].to \in Nat
    BY DEF Snapshots
  <2>3. snap[j].from <= version[From(j)] /\ snap[j].to <= version[To(j)]
    BY <1>4 DEF SnapshotsHold
  <2> QED
    BY <2>1, <2>2, <2>3
<1>5. CASE UpdateFrom(j)
  BY <1>4, <1>5 DEF UpdateFrom
<1>6. CASE UpdateTo(j)
  <2>1. To(j) # From(j)
    BY <1>1, <1>6 DEF UpdateTo, SecondUpdates, EachCanBePaid, To, From, KindOf
  <2> QED
    BY <1>4, <1>6, <2>1 DEF UpdateTo
<1> QED
  BY <1>2, <1>3, <1>5, <1>6

(* The victim of a circular wait leaves another handler in it.             *)
LEMMA DeadlockSpares ==
    ASSUME TypeOK, NEW j \in Jobs, DeadlockAbort(j)
    PROVE  \E k \in Jobs : pc'[k] \in BeforeCommit
<1>1. PICK S \in SUBSET Jobs :
        /\ j \in S
        /\ \A k \in S : \E l \in S : WaitsFor(k, l)
  BY DEF DeadlockAbort, InWaitCycle
<1>2. PICK k \in S : WaitsFor(j, k)
  BY <1>1
<1>3. k \in Jobs /\ k # j /\ pc[k] \in {"updateFrom", "updateTo"}
  BY <1>1, <1>2 DEF WaitsFor
<1>4. pc'[k] = pc[k]
  BY <1>3 DEF DeadlockAbort, Leave, Go, TypeOK, StoreTypeOK
<1> QED
  BY <1>3, <1>4 DEF BeforeCommit, TxSteps

(* Somebody keeps trying.                                                  *)
LEMMA SomebodyGoesOn ==
    ASSUME IInv, SecondUpdates, ConflictInv, EachCanBePaid, Faults = {},
           [Next]_vars
    PROVE  SomebodyTries'
<1> USE DEF IInv, TypeOK, StoreTypeOK, tables, keys, messages, Go, Handler,
            Leave, Answer, BeforeCommit, TxSteps
<1> DEFINE Stays ==
      /\ ledger' = ledger
      /\ \A t \in TxIds : request[t] = "none" => request'[t] = "none"
      /\ \A j \in Jobs : pc[j] \in BeforeCommit => pc'[j] \in BeforeCommit
<1>1. Stays => SomebodyTries'
  BY DEF ConflictInv, SomebodyTries
<1> HIDE DEF Stays
<1>2. ASSUME NEW j \in Calls, (\E r \in Requests : Call(j, r)) \/ CallStep(j)
      PROVE  Stays
  BY <1>2 DEF Call, CallStep, GetCache, FindRequest, SaveCache, Send, Stays
<1>3. ASSUME NEW j \in Jobs, Works(j)
      PROVE  SomebodyTries'
  <2>1. CASE Deliver(j) \/ CheckCache(j) \/ DropCache(j) \/ Ack(j)
    BY <1>1, <2>1 DEF Deliver, CheckCache, DropCache, Ack, Stays
  <2>2. CASE Prelog(j)
    <3>1. CASE LogRequest(j, AfterPrelog(j))
      <4>1. pc'[j] \in BeforeCommit
        BY <2>2, <3>1 DEF Prelog, LogRequest, AfterPrelog
      <4> QED
        BY <4>1 DEF SomebodyTries
    <3>2. CASE UNCHANGED request /\ pc' = [pc EXCEPT ![j] = "held"]
      BY <1>1, <2>2, <3>2 DEF Prelog, Stays
    <3> QED
      BY <2>2, <3>1, <3>2 DEF Prelog
  <2>3. CASE ValidateWallet(j) \/ ReadWallets(j) \/ UpdateFrom(j) \/ UpdateTo(j)
    <3>1. UNCHANGED tables
      BY <2>3 DEF ValidateWallet, ReadWallets, UpdateFrom, UpdateTo
    <3>2. CASE ledger = {}
      <4>1. pc'[j] \in BeforeCommit
        BY <2>3, <3>2, TransactionGoesOn DEF ConflictInv
      <4> QED
        BY <4>1 DEF SomebodyTries
    <3> QED
      BY <3>1, <3>2 DEF SomebodyTries
  <2>4. CASE DeadlockAbort(j)
    BY <2>4, DeadlockSpares DEF SomebodyTries
  <2>5. CASE Commit(j)
    BY <2>5, ApplyWrites DEF Commit, SomebodyTries
  <2>6. CASE CacheSuccess(j) \/ Invalidate(j) \/ Notify(j)
    BY <1>1, <2>6 DEF CacheSuccess, Invalidate, Notify, Stays
  <2>7. CASE MarkFailed(j) \/ CacheFailed(j)
    BY <1>1, <2>7 DEF MarkFailed, FailRequest, CacheFailed, Stays
  <2>8. CASE Republish(j)
    BY <1>1, <2>8 DEF Republish, Stays
  <2> QED
    BY <1>3, <2>1, <2>2, <2>3, <2>4, <2>5, <2>6, <2>7, <2>8 DEF Works
<1>4. CASE UNCHANGED <<tables, channel, pc, job, snap, reply>>
  BY <1>1, <1>4 DEF Stays
<1> QED
  BY <1>1, <1>2, <1>3, <1>4, NextWorks DEF ConflictInv

(* What is queued is kept, until its txId is logged.                       *)
LEMMA QueuedStays ==
    ASSUME IInv, StatusInv, ConflictInv, Faults = {}, [Next]_vars
    PROVE  QueuedIsKept'
<1> USE DEF IInv, TypeOK, StoreTypeOK, tables, keys, messages, Go, Handler,
            Leave, Answer, HttpSteps, TxOf
<1>1. \A k \in Jobs : pc[k] # "idle" => job[k] \in Requests /\ job[k].tx \in TxIds
  BY BodyType DEF Bodies
<1> DEFINE OnTheWay(s) == s \in {"ready", "checkCache", "dropCache", "prelog"}
           Logged(t) == request[t] # "none"
           Stays(k) ==
               /\ reply'[k] = reply[k] /\ job'[k] = job[k]
               /\ pc'[k] \notin {"idle"} \cup HttpSteps
               /\ OnTheWay(pc[k]) =>
                    OnTheWay(pc'[k]) \/ request'[job[k].tx] # "none"
           Keeps ==
               /\ \A t \in TxIds : Logged(t) => request'[t] # "none"
               /\ \A k \in Jobs : reply'[k] = "queued" => Stays(k)
<1>2. Keeps => QueuedIsKept'
  BY <1>1 DEF ConflictInv, QueuedIsKept
<1>3. ASSUME NEW k \in Jobs, reply[k] = "queued"
      PROVE  pc[k] \notin {"idle"} \cup HttpSteps
  BY <1>3 DEF ConflictInv, QueuedIsKept
<1>4. ASSUME NEW j \in Calls, (\E r \in Requests : Call(j, r)) \/ CallStep(j)
      PROVE  QueuedIsKept'
  <2>1. CASE Send(j)
    <3>1. channel["api"] = "open"
      BY DEF ConflictInv, ChannelsOpen
    <3> QED
      BY <2>1, <3>1 DEF Send, ConflictInv, QueuedIsKept
  <2>2. CASE \E r \in Requests : Call(j, r)
    BY <1>2, <1>3, <2>2 DEF Call
  <2>3. CASE GetCache(j) \/ FindRequest(j) \/ SaveCache(j)
    BY <1>2, <1>3, <2>3 DEF GetCache, FindRequest, SaveCache
  <2> QED
    BY <1>4, <2>1, <2>2, <2>3 DEF CallStep
<1>5. ASSUME NEW j \in Jobs, Works(j)
      PROVE  Keeps
  <2>1. CASE Deliver(j) \/ DropCache(j) \/ Ack(j)
    BY <1>3, <2>1 DEF Deliver, DropCache, Ack
  <2>2. CASE CheckCache(j)
    <3>1. requestCache[job[j].tx] \in Final => Logged(job[j].tx)
      BY <1>1, <2>2 DEF CheckCache, StatusInv, CacheTruthful
    <3> QED
      BY <1>3, <2>2, <3>1 DEF CheckCache
  <2>3. CASE Prelog(j)
    BY <1>1, <1>3, <2>3 DEF Prelog, LogRequest, AfterPrelog
  <2>4. CASE ValidateWallet(j) \/ ReadWallets(j) \/ UpdateFrom(j) \/ UpdateTo(j)
    BY <1>3, <2>4 DEF ValidateWallet, ReadWallets, UpdateFrom, UpdateTo
  <2>5. CASE DeadlockAbort(j)
    BY <1>3, <2>5 DEF DeadlockAbort
  <2>6. CASE Commit(j)
    BY <1>3, <2>6 DEF Commit, Apply
  <2>7. CASE CacheSuccess(j) \/ Invalidate(j) \/ Notify(j)
    BY <1>3, <2>7 DEF CacheSuccess, Invalidate, Notify
  <2>8. CASE MarkFailed(j) \/ CacheFailed(j)
    BY <1>3, <2>8 DEF MarkFailed, FailRequest, CacheFailed
  <2>9. CASE Republish(j)
    BY <1>3, <2>9 DEF Republish
  <2> QED
    BY <1>5, <2>1, <2>2, <2>3, <2>4, <2>5, <2>6, <2>7, <2>8, <2>9 DEF Works
<1>6. CASE UNCHANGED <<tables, channel, pc, job, snap, reply>>
  BY <1>6 DEF ConflictInv, QueuedIsKept
<1> QED
  BY <1>2, <1>4, <1>5, <1>6, NextWorks DEF ConflictInv

(* While nothing fails, somebody is trying as long as nothing has settled. *)
THEOREM ConflictInvariance ==
    ASSUME Faults = {}, EachCanBePaid
    PROVE  Spec => []ConflictInv
<1>1. Init => ConflictInv
  BY DEF Init, StoreInit, ConflictInv, ChannelsOpen, NothingMoved,
         SomebodyTries, QueuedIsKept
<1>2. /\ IInv /\ SecondUpdates /\ StatusInv /\ ConflictInv
      /\ [Next]_vars
      => ConflictInv'
  BY ChannelsStay, NothingMovesYet, SomebodyGoesOn, QueuedStays DEF ConflictInv
<1>3. StoresAnswer
  BY DEF StoresAnswer
<1> QED
  BY <1>1, <1>2, <1>3, Invariance, SecondUpdatesAlways, StatusInvariance, PTL
     DEF Spec

(* Requests that could each be paid alone do not all fail by conflicting:  *)
(* when every message has come to rest, one of them has settled.           *)
THEOREM ConflictsAreWon ==
    ASSUME Faults = {}, EachCanBePaid
    PROVE  Spec => []SomeConflictWins
<1>1. IInv /\ ConflictInv => SomeConflictWins
  <2> SUFFICES
        ASSUME IInv, ConflictInv,
               \A j \in Jobs : pc[j] \in RestSteps \ {"ready"},
               NEW k \in Calls, reply[k] = "queued"
        PROVE  \E t \in TxIds : Settled(t)
    BY DEF SomeConflictWins
  <2>1. request[TxOf(k)] # "none" /\ TxOf(k) \in TxIds
    BY BodyType DEF ConflictInv, QueuedIsKept, RestSteps, IInv, Bodies, TxOf
  <2>2. ledger # {}
    BY <2>1 DEF ConflictInv, SomebodyTries, RestSteps, BeforeCommit, TxSteps
  <2> QED
    BY <2>2 DEF Settled, IInv, TypeOK, StoreTypeOK, EntryType
<1> QED
  BY <1>1, Invariance, ConflictInvariance, PTL
=============================================================================
