------------------------- MODULE WalletSystemProofs -------------------------
(***************************************************************************)
(* Proofs about WalletSystem, for every number of users, wallets, calls    *)
(* and copies, for every set of bodies and whatever fails.                 *)
(***************************************************************************)
EXTENDS WalletInvariant, TLAPS

USE DEF Jobs, Final, Statuses, Channels

-----------------------------------------------------------------------------
(* Type correctness.                                                       *)

(* What a body is.                                                         *)
LEMMA BodyType ==
    ASSUME NEW r \in Requests
    PROVE  /\ r \in RequestType
           /\ r.kind \in Kinds /\ r.tx \in TxIds /\ r.user \in Users
           /\ r.toUser \in Users /\ r.amount \in Int
           /\ Debits(r) => r.amount >= 1
           /\ r.kind # "transfer" => r.toWallet = r.wallet
BY RequestsAssumption DEF RequestType, Debits

(* The initial state has the type.                                         *)
LEMMA InitType == Init => TypeOK
BY TablesAssumption
   DEF Init, StoreInit, TypeOK, StoreTypeOK, RestSteps, Snapshots, NoSnap,
       ReaderStates, NotReading

(* What the view of a user is.                                             *)
LEMMA ViewType ==
    ASSUME TypeOK, NEW u \in Users
    PROVE  CurrentView(u) \in Views
BY DEF TypeOK, StoreTypeOK, CurrentView, Views, WalletsOf

(* The steps of an HTTP call keep the type.                                *)
LEMMA CallType ==
    ASSUME TypeOK, Bodies, NEW j \in Calls,
           (\E r \in Requests : Call(j, r)) \/ CallStep(j) \/ CallThrows(j)
    PROVE  TypeOK'
<1> USE DEF TypeOK, StoreTypeOK, tables, keys, messages, Go, Answer, TxOf,
            HttpSteps, RestSteps
<1>1. CASE \E r \in Requests : Call(j, r)
  BY <1>1 DEF Call
<1>2. CASE GetCache(j)
  BY <1>2 DEF GetCache
<1>3. CASE FindRequest(j)
  <2>1. job[j] \in Requests
    BY <1>3 DEF FindRequest, Bodies
  <2> QED
    BY <1>3, <2>1, BodyType DEF FindRequest
<1>4. CASE SaveCache(j)
  BY <1>4 DEF SaveCache
<1>5. CASE Send(j)
  BY <1>5 DEF Send
<1>6. CASE CallThrows(j)
  BY <1>6 DEF CallThrows
<1> QED
  BY <1>1, <1>2, <1>3, <1>4, <1>5, <1>6 DEF CallStep

(* The fee of a body is a whole number.                                    *)
LEMMA FeeType ==
    ASSUME NEW r \in Requests, NEW fee \in Fees(r)
    PROVE  fee \in Int
BY BodyType DEF Fees, FeeOptions

(* What settling adds to a balance is a whole number.                      *)
LEMMA ChangeType ==
    ASSUME NEW r \in Requests, NEW fee \in Fees(r), NEW w
    PROVE  Change(r, fee, w) \in Int
BY BodyType, FeeType DEF Change, Debits

(* The effect of a database transaction keeps the types of the tables.     *)
LEMMA ApplyType ==
    ASSUME TypeOK, NEW j \in Jobs, job[j] \in Requests, Valid(job[j]),
           Apply(j)
    PROVE  /\ balance' \in [Wallets -> Int]
           /\ version' \in [Wallets -> Nat]
           /\ ledger' \subseteq EntryType
           /\ request' \in [TxIds -> Statuses \cup {"none"}]
<1> DEFINE r == job[j]
<1>1. PICK fee \in Fees(r) :
        /\ balance' = [w \in Wallets |-> balance[w] + Change(r, fee, w)]
        /\ ledger' = ledger \cup Entries(r, fee)
  BY DEF Apply
<1>2. balance' \in [Wallets -> Int]
  BY <1>1, ChangeType DEF TypeOK, StoreTypeOK
<1>3. version' \in [Wallets -> Nat]
  <2>1. snap[j].from + 1 \in Nat /\ snap[j].to + 1 \in Nat
    BY DEF TypeOK, StoreTypeOK, Snapshots
  <2> QED
    BY <2>1 DEF Apply, TypeOK, StoreTypeOK
<1>4. Entries(r, fee) \subseteq EntryType
  <2>1. r.tx \in TxIds /\ fee \in Int /\ Touched(r) \subseteq Wallets
    BY BodyType, FeeType DEF Valid, ValidWallet, Touched
  <2>2. \A w \in Touched(r) : Change(r, fee, w) \in Int
    BY ChangeType
  <2> QED
    BY <2>1, <2>2
       DEF Entries, EntryOf, TypeOfEntry, EntryTypes, EntryType
<1>5. request' \in [TxIds -> Statuses \cup {"none"}]
  BY BodyType DEF Apply, TypeOK, StoreTypeOK, TxOf
<1> QED
  BY <1>1, <1>2, <1>3, <1>4, <1>5 DEF TypeOK, StoreTypeOK

(* The steps of a handler, its faults and a restart keep the type.         *)
LEMMA HandlerType ==
    ASSUME TypeOK, Bodies, SnapshotsHold, NEW j \in Jobs,
           Deliver(j) \/ HandlerStep(j) \/ Fault(j) \/ Restart
    PROVE  TypeOK'
<1> USE DEF TypeOK, StoreTypeOK, tables, keys, messages, Go, Handler, Leave,
            HandlerSteps, TrySteps, CatchSteps, TxSteps, RestSteps
<1>1. ASSUME pc[j] # "idle"
      PROVE  /\ job[j] \in Requests /\ TxOf(j) \in TxIds
             /\ snap[j].from \in Nat /\ snap[j].to \in Nat
             /\ [snap EXCEPT ![j] = NoSnap] \in [Jobs -> Snapshots]
  BY <1>1, BodyType DEF Bodies, TxOf, Snapshots, NoSnap
<1>2. CASE Deliver(j)
  BY <1>1, <1>2 DEF Deliver
<1>3. CASE CheckCache(j)
  BY <1>1, <1>3 DEF CheckCache
<1>4. CASE DropCache(j)
  BY <1>1, <1>4 DEF DropCache
<1>5. CASE Prelog(j)
  BY <1>1, <1>5 DEF Prelog, LogRequest, AfterPrelog
<1>6. CASE ValidateWallet(j)
  BY <1>1, <1>6 DEF ValidateWallet
<1>7. CASE UpdateFrom(j)
  BY <1>1, <1>7 DEF UpdateFrom
<1>8. CASE UpdateTo(j)
  BY <1>1, <1>8 DEF UpdateTo
<1>9. CASE DeadlockAbort(j)
  BY <1>1, <1>9 DEF DeadlockAbort
<1>10. CASE CacheSuccess(j)
  BY <1>1, <1>10 DEF CacheSuccess
<1>11. CASE Notify(j)
  BY <1>1, <1>11 DEF Notify
<1>12. CASE MarkFailed(j)
  BY <1>1, <1>12 DEF MarkFailed, FailRequest
<1>13. CASE CacheFailed(j)
  BY <1>1, <1>13 DEF CacheFailed
<1>14. CASE Ack(j)
  BY <1>1, <1>14 DEF Ack
<1>15. CASE HandlerThrows(j)
  BY <1>1, <1>15 DEF HandlerThrows, TryFails
<1>16. CASE CatchThrows(j)
  BY <1>1, <1>16 DEF CatchThrows
<1>17. CASE ReadWallets(j)
  <2>1. CASE Accepts(j)
    <3>1. version[From(j)] \in Nat /\ version[To(j)] \in Nat
      BY <2>1 DEF Accepts, Valid, ValidWallet, From, To
    <3>2. [from |-> version[From(j)], to |-> version[To(j)]] \in Snapshots
      BY <3>1 DEF Snapshots
    <3> QED
      BY <1>17, <2>1, <3>2 DEF ReadWallets
  <2>2. CASE ~ Accepts(j)
    BY <1>1, <1>17, <2>2 DEF ReadWallets
  <2> QED
    BY <2>1, <2>2
<1>18. ASSUME pc[j] = "commit", Apply(j)
       PROVE  /\ balance' \in [Wallets -> Int]
              /\ version' \in [Wallets -> Nat]
              /\ ledger' \subseteq EntryType
              /\ request' \in [TxIds -> Statuses \cup {"none"}]
  <2>1. job[j] \in Requests /\ Valid(job[j])
    BY <1>1, <1>18 DEF SnapshotsHold
  <2> QED
    BY <1>18, <2>1, ApplyType
<1>19. CASE Commit(j)
  BY <1>1, <1>18, <1>19 DEF Commit
<1>20. CASE Invalidate(j)
  BY <1>1, <1>20 DEF Invalidate
<1>21. CASE Republish(j)
  BY <1>1, <1>21 DEF Republish
<1>22. CASE ReplyLost(j)
  BY <1>1, <1>18, <1>22 DEF ReplyLost, LogRequest, FailRequest
<1>23. ASSUME StartAgain PROVE TypeOK'
  <2>1. pc' \in [Jobs -> HttpSteps \cup HandlerSteps \cup RestSteps]
    BY <1>23 DEF StartAgain
  <2>2. [d \in Readers |-> NotReading] \in [Readers -> ReaderStates]
    BY DEF ReaderStates
  <2>3. [k \in Jobs |-> NoSnap] \in [Jobs -> Snapshots]
    BY DEF Snapshots, NoSnap
  <2> QED
    BY <1>23, <2>1, <2>2, <2>3 DEF StartAgain
<1> QED
  BY <1>2, <1>3, <1>4, <1>5, <1>6, <1>7, <1>8, <1>9, <1>10, <1>11, <1>12, <1>13, <1>14, <1>15, <1>16, <1>17, <1>18, <1>19, <1>20, <1>21, <1>22, <1>23
     DEF HandlerStep, Fault, Restart, AckThrows

(* The other steps, which concern readers, keys and channels.              *)
Aside ==
    \/ \E d \in Readers :
          (\E u \in Users : StartRead(d, u)) \/ ReadStep(d) \/ ReadThrows(d)
    \/ \E t \in TxIds : ExpireRequest(t)
    \/ \E u \in Users : ExpireWallets(u)
    \/ \E c \in Channels : CloseChannel(c)
    \/ Finished

(* Readers, expiring keys and closing channels keep the type.              *)
LEMMA AsideType ==
    ASSUME TypeOK, Aside
    PROVE  TypeOK'
<1> USE DEF TypeOK, StoreTypeOK, tables, keys, messages, Read
<1>1. ASSUME NEW d \in Readers, NEW u \in Users, StartRead(d, u)
      PROVE  TypeOK'
  BY <1>1 DEF StartRead, ReaderStates
<1>2. ASSUME NEW d \in Readers, FindWallets(d)
      PROVE  TypeOK'
  <2>1. reader[d] \in [step : {"find"}, user : Users]
    BY <1>2 DEF FindWallets, ReaderStates, NotReading
  <2>2. CurrentView(reader[d].user) \in Views
    BY <2>1, ViewType
  <2>3. [step |-> "cache", user |-> reader[d].user,
         view |-> CurrentView(reader[d].user)] \in ReaderStates
    BY <2>1, <2>2 DEF ReaderStates
  <2> QED
    BY <1>2, <2>3 DEF FindWallets
<1>3. ASSUME NEW d \in Readers, CacheWallets(d)
      PROVE  TypeOK'
  <2>1. reader[d] \in [step : {"cache"}, user : Users, view : Views]
    BY <1>3 DEF CacheWallets, ReaderStates, NotReading
  <2>2. NotReading \in ReaderStates
    BY DEF ReaderStates
  <2> QED
    BY <1>3, <2>1, <2>2 DEF CacheWallets
<1>4. ASSUME NEW d \in Readers, ReadThrows(d)
      PROVE  TypeOK'
  BY <1>4 DEF ReadThrows, ReaderStates
<1>5. ASSUME NEW t \in TxIds, ExpireRequest(t)
      PROVE  TypeOK'
  BY <1>5 DEF ExpireRequest
<1>6. ASSUME NEW u \in Users, ExpireWallets(u)
      PROVE  TypeOK'
  BY <1>6 DEF ExpireWallets
<1>7. ASSUME NEW c \in Channels, CloseChannel(c)
      PROVE  TypeOK'
  BY <1>7 DEF CloseChannel
<1>8. CASE Finished
  BY <1>8 DEF Finished, vars
<1> QED
  BY <1>1, <1>2, <1>3, <1>4, <1>5, <1>6, <1>7, <1>8 DEF Aside, ReadStep

(* Every step keeps the type, given the two conjuncts of the invariant on  *)
(* which the types of bodies and of new rows depend.                       *)
LEMMA NextType ==
    ASSUME TypeOK, Bodies, SnapshotsHold, [Next]_vars
    PROVE  TypeOK'
<1>1. CASE Aside
  BY <1>1, AsideType
<1>2. CASE UNCHANGED vars
  BY <1>2 DEF vars, tables, keys, messages, TypeOK, StoreTypeOK
<1>3. ASSUME NEW j \in Calls,
             (\E r \in Requests : Call(j, r)) \/ CallStep(j) \/ CallThrows(j)
      PROVE  TypeOK'
  BY <1>3, CallType
<1>4. ASSUME NEW j \in Jobs, Deliver(j) \/ HandlerStep(j) \/ Fault(j)
      PROVE  TypeOK'
  BY <1>4, HandlerType
<1>5. CASE Restart
  <2>1. ASSUME NEW j \in Jobs PROVE TypeOK'
    BY <1>5, HandlerType
  <2>2. CASE Jobs = {}
    BY <1>5, <2>2 DEF Restart, StartAgain, TypeOK, StoreTypeOK, tables, keys,
                      Snapshots, NoSnap, ReaderStates
  <2> QED
    BY <2>1, <2>2
<1> QED
  BY <1>1, <1>2, <1>3, <1>4, <1>5 DEF Next, Aside

-----------------------------------------------------------------------------
(* The inductive invariant.                                                *)

(* A step after which no job is the owner of its txId that was not before, *)
(* at the same step, and which settles and announces nothing.              *)
Quiet ==
    /\ UNCHANGED <<balance, version, ledger, notices>>
    /\ \A t \in TxIds : /\ request'[t] = "none" => request[t] = "none"
                        /\ request'[t] = "success" => request[t] = "success"
    /\ \A k \in Jobs :
         /\ pc'[k] # "idle" => job'[k] \in Requests
         /\ pc'[k] \in OwnerSteps =>
              pc'[k] = pc[k] /\ job'[k] = job[k] /\ snap'[k] = snap[k]

(* A quiet step keeps the invariant.                                       *)
LEMMA QuietKeeps ==
    ASSUME IInv, Quiet, TypeOK'
    PROVE  IInv'
<1> USE DEF OwnerSteps, BeforeCommit, AfterCommit, TxSteps, TxOf
<1>1. SuccessMeansMoved'
  BY DEF IInv, SuccessMeansMoved, Quiet, Settled
<1>2. Bodies'
  BY DEF Quiet, Bodies
<1>3. OneOwner'
  BY DEF IInv, OneOwner, Quiet
<1>4. OwnerLogged'
  <2>1. \A j \in Jobs : pc[j] \in OwnerSteps => TxOf(j) \in TxIds
    BY BodyType DEF IInv, Bodies
  <2> QED
    BY <2>1 DEF IInv, OwnerLogged, Quiet, Settled
<1>5. SettledLogged'
  BY DEF IInv, SettledLogged, Quiet, Settled
<1>6. Announced'
  BY DEF IInv, Announced, Quiet, Settled
<1>7. SnapshotsHold'
  BY DEF IInv, SnapshotsHold, Quiet, From, To
<1>8. LocksHoldVersions'
  BY DEF IInv, LocksHoldVersions, Quiet, From, To, KindOf
<1>9. LocksExclude'
  BY DEF IInv, LocksExclude, Quiet, Holds, From, To
<1> QED
  BY <1>1, <1>2, <1>3, <1>4, <1>5, <1>6, <1>7, <1>8, <1>9 DEF IInv

(* Readers, expiring keys and closing channels are quiet.                  *)
LEMMA AsideQuiet ==
    ASSUME IInv, Aside \/ UNCHANGED vars
    PROVE  Quiet
BY DEF Aside, StartRead, ReadStep, FindWallets, CacheWallets, ReadThrows, Read,
       ExpireRequest, ExpireWallets, CloseChannel, Finished, vars, tables,
       keys, messages, IInv, Bodies, Quiet

(* So is every step of an HTTP call.                                       *)
LEMMA CallQuiet ==
    ASSUME IInv, NEW j \in Calls,
           (\E r \in Requests : Call(j, r)) \/ CallStep(j) \/ CallThrows(j)
    PROVE  Quiet
<1> USE DEF IInv, TypeOK, StoreTypeOK, Bodies, Quiet, tables, keys, messages,
            Go, Answer, OwnerSteps, BeforeCommit, AfterCommit, TxSteps
<1>1. CASE \E r \in Requests : Call(j, r)
  BY <1>1 DEF Call
<1>2. CASE GetCache(j) \/ FindRequest(j) \/ SaveCache(j) \/ Send(j)
  BY <1>2 DEF GetCache, FindRequest, SaveCache, Send
<1>3. CASE CallThrows(j)
  BY <1>3 DEF CallThrows
<1> QED
  BY <1>1, <1>2, <1>3 DEF CallStep

(* The steps of handlers that lead away from the database transaction.     *)
Retreat(j) ==
    \/ Deliver(j) \/ CheckCache(j) \/ DropCache(j) \/ DeadlockAbort(j)
    \/ MarkFailed(j) \/ CacheFailed(j) \/ Republish(j) \/ Ack(j)
    \/ HandlerThrows(j) \/ CatchThrows(j)

(* They are quiet, whatever the handler failed to do.                      *)
LEMMA RetreatQuiet ==
    ASSUME IInv, NEW j \in Jobs, Retreat(j)
    PROVE  Quiet
<1> USE DEF IInv, TypeOK, StoreTypeOK, Quiet, tables, keys, Go, Handler, Leave,
            OwnerSteps, BeforeCommit, AfterCommit, TxSteps
<1>1. CASE Deliver(j) \/ CheckCache(j) \/ DropCache(j) \/ Ack(j)
  BY <1>1 DEF Deliver, CheckCache, DropCache, Ack, Bodies
<1>2. CASE DeadlockAbort(j) \/ HandlerThrows(j)
  BY <1>2 DEF DeadlockAbort, HandlerThrows, TryFails, Bodies
<1>3. CASE MarkFailed(j)
  BY <1>3 DEF MarkFailed, FailRequest, Bodies
<1>4. CASE CacheFailed(j) \/ CatchThrows(j)
  BY <1>4 DEF CacheFailed, CatchThrows, Bodies
<1>5. CASE Republish(j)
  BY <1>5 DEF Republish, Bodies
<1> QED
  BY <1>1, <1>2, <1>3, <1>4, <1>5 DEF Retreat

(* After a restart no job is an owner: its transaction is rolled back, or  *)
(* its request has been logged and the prelog stops it.                    *)
LEMMA RestartQuiet ==
    ASSUME IInv, StartAgain
    PROVE  Quiet
BY DEF StartAgain, IInv, TypeOK, StoreTypeOK, Bodies, Quiet, tables, keys,
       OwnerSteps, BeforeCommit, AfterCommit, TxSteps, HandlerSteps, TrySteps,
       CatchSteps, HttpSteps

(* The prelog: the handler becomes the owner of its txId, or gives up.     *)
LEMMA PrelogKeeps ==
    ASSUME IInv, NEW j \in Jobs, Prelog(j), TypeOK'
    PROVE  IInv'
<1> USE DEF IInv, TypeOK, StoreTypeOK, tables, keys, Go, Handler
<1>0. job[j] \in Requests /\ TxOf(j) \in TxIds
  BY BodyType DEF Prelog, Bodies, TxOf
<1>1. CASE UNCHANGED request
  <2>1. Quiet
    BY <1>0, <1>1 DEF Prelog, LogRequest, Quiet, Bodies, OwnerSteps, BeforeCommit,
                AfterCommit, TxSteps
  <2> QED
    BY <2>1, QuietKeeps
<1>2. CASE LogRequest(j, AfterPrelog(j))
  <2>1. /\ UNCHANGED <<balance, version, ledger, notices, job, snap>>
        /\ request' = [request EXCEPT ![TxOf(j)] = "pending"]
        /\ request[TxOf(j)] = "none"
        /\ pc' = [pc EXCEPT ![j] = AfterPrelog(j)]
        /\ pc[j] = "prelog"
        /\ AfterPrelog(j) \in {"validate", "readWallets"}
    BY <1>2 DEF Prelog, LogRequest, AfterPrelog
  <2>2. ~ Settled(TxOf(j))
    BY <1>0, <2>1 DEF SettledLogged
  <2>3. \A k \in Jobs : pc[k] \in OwnerSteps => TxOf(k) # TxOf(j)
    BY <2>1 DEF OwnerLogged, OwnerSteps
  <2> USE DEF OwnerSteps, BeforeCommit, AfterCommit, TxSteps, TxOf
  <2>4. SuccessMeansMoved' /\ Bodies' /\ SettledLogged'
    BY <1>0, <2>1 DEF SuccessMeansMoved, Bodies, SettledLogged, Settled
  <2>5. OneOwner'
    BY <2>1, <2>3 DEF OneOwner
  <2>6. OwnerLogged'
    BY <1>0, <2>1, <2>2, <2>3 DEF OwnerLogged, Settled
  <2>7. Announced'
    BY <1>0, <2>1, <2>2 DEF Announced, Settled
  <2>8. SnapshotsHold' /\ LocksHoldVersions' /\ LocksExclude'
    BY <2>1 DEF SnapshotsHold, LocksHoldVersions, LocksExclude, Holds, From,
                To, KindOf
  <2> QED
    BY <2>4, <2>5, <2>6, <2>7, <2>8
<1> QED
  BY <1>1, <1>2 DEF Prelog

(* The owner of a txId goes on, before its commit or after it, and changes *)
(* no table.                                                               *)
Advance(j) ==
    /\ UNCHANGED <<tables, notices, job>>
    /\ \E S \in {BeforeCommit, AfterCommit} :
         pc[j] \in S /\ \E s \in S : Go(j, s)

(* Such a step keeps the invariant if it keeps the parts about snapshots   *)
(* and locks.                                                              *)
LEMMA AdvanceKeeps ==
    ASSUME IInv, NEW j \in Jobs, Advance(j), TypeOK',
           SnapshotsHold', LocksHoldVersions', LocksExclude'
    PROVE  IInv'
<1> USE DEF IInv, TypeOK, StoreTypeOK, tables, OwnerSteps, BeforeCommit,
            AfterCommit, TxSteps, TxOf, Advance, Go
<1>1. SuccessMeansMoved' /\ SettledLogged'
  BY DEF SuccessMeansMoved, SettledLogged, Settled
<1>2. Bodies'
  BY DEF Bodies
<1>3. OneOwner'
  BY DEF OneOwner
<1>4. OwnerLogged'
  BY DEF OwnerLogged, Settled
<1>5. Announced'
  BY DEF Announced, Settled
<1> QED
  BY <1>1, <1>2, <1>3, <1>4, <1>5

(* The steps of the database transaction up to its commit.                 *)
LEMMA TransactionKeeps ==
    ASSUME IInv, NEW j \in Jobs, TypeOK',
           ValidateWallet(j) \/ ReadWallets(j) \/ UpdateFrom(j) \/ UpdateTo(j)
    PROVE  IInv'
<1> USE DEF IInv, TypeOK, StoreTypeOK, tables, keys, Go, Handler, Leave
<1>1. job[j] \in Requests /\ (KindOf(j) # "transfer" => To(j) = From(j))
  BY BodyType DEF ValidateWallet, ReadWallets, UpdateFrom, UpdateTo, Bodies,
                  KindOf, To, From
<1>2. CASE pc'[j] = "markFailed"
  <2>1. Quiet
    BY <1>1, <1>2 DEF ValidateWallet, ReadWallets, UpdateFrom, UpdateTo, Quiet,
                      Bodies, OwnerSteps, BeforeCommit, AfterCommit, TxSteps
  <2> QED
    BY <2>1, QuietKeeps
<1>3. CASE ValidateWallet(j) /\ pc'[j] # "markFailed"
  <2>1. Advance(j)
    BY <1>3 DEF ValidateWallet, Advance, BeforeCommit, TxSteps
  <2>2. SnapshotsHold' /\ LocksHoldVersions' /\ LocksExclude'
    BY <1>3 DEF ValidateWallet, SnapshotsHold, LocksHoldVersions,
                LocksExclude, Holds, From, To, KindOf
  <2> QED
    BY <2>1, <2>2, AdvanceKeeps
<1>4. CASE ReadWallets(j) /\ pc'[j] # "markFailed"
  <2>1. /\ Accepts(j)
        /\ snap' = [snap EXCEPT ![j] = [from |-> version[From(j)],
                                        to   |-> version[To(j)]]]
        /\ pc' = [pc EXCEPT ![j] = "updateFrom"]
        /\ UNCHANGED <<balance, version, ledger, request, notices, job>>
    BY <1>4 DEF ReadWallets
  <2>2. Advance(j)
    BY <1>4, <2>1 DEF ReadWallets, Advance, BeforeCommit, TxSteps
  <2>3. version[From(j)] \in Nat /\ version[To(j)] \in Nat
    BY <2>1 DEF Accepts, Valid, ValidWallet, From, To
  <2>4. SnapshotsHold'
    BY <2>1, <2>3 DEF SnapshotsHold, Accepts, From, To
  <2>5. LocksHoldVersions' /\ LocksExclude'
    BY <2>1 DEF LocksHoldVersions, LocksExclude, Holds, From, To, KindOf
  <2> QED
    BY <2>2, <2>4, <2>5, AdvanceKeeps
<1>5. CASE UpdateFrom(j) /\ pc'[j] # "markFailed"
  <2>1. /\ pc[j] = "updateFrom" /\ Free(j, From(j))
        /\ version[From(j)] = snap[j].from
        /\ pc' = [pc EXCEPT ![j] =
                     IF KindOf(j) = "transfer" THEN "updateTo" ELSE "commit"]
        /\ UNCHANGED <<balance, version, ledger, request, notices, job, snap>>
    BY <1>5 DEF UpdateFrom
  <2>2. Advance(j)
    BY <1>5, <2>1 DEF Advance, BeforeCommit, TxSteps, UpdateFrom
  <2>3. SnapshotsHold'
    BY <2>1 DEF SnapshotsHold, From, To
  <2>4. KindOf(j) # "transfer" => snap[j].to = version[To(j)]
    BY <1>1, <2>1 DEF SnapshotsHold
  <2>5. LocksHoldVersions'
    BY <2>1, <2>4 DEF LocksHoldVersions, From, To, KindOf
  <2>6. LocksExclude'
    BY <1>1, <2>1 DEF LocksExclude, Free, Holds, From, To, KindOf
  <2> QED
    BY <2>2, <2>3, <2>5, <2>6, AdvanceKeeps
<1>6. CASE UpdateTo(j) /\ pc'[j] # "markFailed"
  <2>1. /\ pc[j] = "updateTo" /\ Free(j, To(j))
        /\ To(j) # From(j) /\ version[To(j)] = snap[j].to
        /\ pc' = [pc EXCEPT ![j] = "commit"]
        /\ UNCHANGED <<balance, version, ledger, request, notices, job, snap>>
    BY <1>6 DEF UpdateTo
  <2>2. Advance(j)
    BY <1>6, <2>1 DEF Advance, BeforeCommit, TxSteps, UpdateTo
  <2>3. SnapshotsHold' /\ LocksHoldVersions'
    BY <2>1 DEF SnapshotsHold, LocksHoldVersions, From, To, KindOf
  <2>4. LocksExclude'
    BY <2>1 DEF LocksExclude, Free, Holds, From, To
  <2> QED
    BY <2>2, <2>3, <2>4, AdvanceKeeps
<1> QED
  BY <1>2, <1>3, <1>4, <1>5, <1>6

(* The rows a settlement adds are the first ones of its txId.              *)
LEMMA ApplySettles ==
    ASSUME IInv, NEW j \in Jobs, job[j] \in Requests, Apply(j), NEW t
    PROVE  Settled(t)' <=> Settled(t) \/ t = TxOf(j)
<1> DEFINE r == job[j]
<1>1. PICK fee \in Fees(r) : ledger' = ledger \cup Entries(r, fee)
  BY DEF Apply
<1>2. \E e \in Entries(r, fee) : e.tx = r.tx
  <2> DEFINE e == EntryOf(r, fee, r.wallet)
  <2>1. e \in Entries(r, fee)
    BY DEF Entries, Touched
  <2>2. e.tx = r.tx
    BY DEF EntryOf
  <2> QED
    BY <2>1, <2>2
<1>3. \A e \in Entries(r, fee) : e.tx = r.tx
  BY DEF Entries, EntryOf
<1> QED
  BY <1>1, <1>2, <1>3 DEF Settled, TxOf

(* Committing: the rows, the versions and the balances change at once.     *)
LEMMA ApplyKeeps ==
    ASSUME IInv, NEW j \in Jobs, Apply(j), TypeOK',
           pc[j] = "commit", NEW s \in {"cacheSuccess", "markFailed"},
           Leave(j, s), UNCHANGED <<notices, job>>
    PROVE  IInv'
<1> DEFINE r == job[j]
<1> USE DEF TxOf, From, To, KindOf
<1>0. IInv /\ TypeOK
  BY DEF IInv
<1>1. /\ r \in Requests /\ r.tx \in TxIds
      /\ r.kind # "transfer" => r.toWallet = r.wallet
  BY BodyType DEF IInv, Bodies
<1>2. PICK fee \in Fees(r) :
        balance' = [w \in Wallets |-> balance[w] + Change(r, fee, w)]
  BY DEF Apply
<1>3. /\ Valid(r)
      /\ r.wallet \in Wallets /\ r.toWallet \in Wallets
      /\ snap[j].from = version[r.wallet] /\ snap[j].to = version[r.toWallet]
      /\ Debits(r) => balance[r.wallet] >= r.amount
  BY DEF IInv, SnapshotsHold, LocksHoldVersions, Valid, ValidWallet
<1>4. /\ version' = [version EXCEPT ![r.wallet] = version[r.wallet] + 1,
                                    ![r.toWallet] = version[r.toWallet] + 1]
      /\ request' = [request EXCEPT ![r.tx] = "success"]
      /\ pc' = [pc EXCEPT ![j] = s]
      /\ snap' = [snap EXCEPT ![j] = NoSnap]
      /\ job' = job /\ notices' = notices
  BY <1>3 DEF Apply, Leave, Go
<1>5. \A t : Settled(t)' <=> Settled(t) \/ t = r.tx
  BY <1>1, ApplySettles
<1>6. \A k \in Jobs : pc[k] \in OwnerSteps /\ job[k].tx = r.tx => k = j
  BY DEF IInv, OneOwner, OwnerSteps, BeforeCommit, TxSteps
<1>8. SuccessMeansMoved' /\ SettledLogged' /\ Bodies'
  BY <1>0, <1>1, <1>4, <1>5 DEF IInv, TypeOK, StoreTypeOK, SuccessMeansMoved,
                                SettledLogged, Bodies
<1>9. OneOwner'
  BY <1>0, <1>4 DEF IInv, TypeOK, StoreTypeOK, OneOwner, OwnerSteps,
                    BeforeCommit, AfterCommit, TxSteps
<1>10. OwnerLogged'
  <2>1. /\ s \notin BeforeCommit /\ BeforeCommit \subseteq OwnerSteps
        /\ AfterCommit \subseteq OwnerSteps
    BY DEF OwnerSteps, BeforeCommit, AfterCommit, TxSteps
  <2>2. \A t \in TxIds : request[t] # "none" => request'[t] # "none"
    BY <1>0, <1>4 DEF TypeOK, StoreTypeOK
  <2>3. \A k \in Jobs : pc'[k] \in OwnerSteps => job[k].tx \in TxIds
    BY <1>0, <1>1, <1>4, BodyType
       DEF IInv, TypeOK, StoreTypeOK, Bodies, OwnerSteps, BeforeCommit,
           AfterCommit, TxSteps
  <2>4. request[r.tx] # "none"
    BY DEF IInv, OwnerLogged, OwnerSteps, BeforeCommit, TxSteps
  <2>5. pc \in [Jobs -> HttpSteps \cup HandlerSteps \cup RestSteps]
    BY <1>0 DEF TypeOK, StoreTypeOK
  <2> QED
    BY <1>1, <1>4, <1>5, <1>6, <2>1, <2>2, <2>3, <2>4, <2>5
       DEF IInv, OwnerLogged
<1>11. Announced'
  <2>1. \A t \in TxIds : notices[t] > 0 => t # r.tx
    BY DEF IInv, Announced, OwnerSteps, BeforeCommit, TxSteps
  <2>2. \A k \in Jobs : pc'[k] \in OwnerSteps =>
                          pc[k] \in OwnerSteps \/ k = j
    BY <1>0, <1>4 DEF TypeOK, StoreTypeOK
  <2> QED
    BY <1>4, <1>5, <2>1, <2>2 DEF IInv, Announced
<1>12. ASSUME NEW k \in Jobs, k # j,
              pc[k] \in {"updateFrom", "updateTo", "commit"}
       PROVE  /\ job[k].wallet \in Wallets /\ job[k].toWallet \in Wallets
              /\ version[job[k].wallet] \in Nat
              /\ version[job[k].toWallet] \in Nat
              /\ snap[k].from \in Nat /\ snap[k].to \in Nat
              /\ version'[job[k].wallet] \in Nat
              /\ \A w \in Wallets :
                   /\ version'[w] >= version[w]
                   /\ version'[w] = version[w] =>
                        balance'[w] = balance[w]
  <2>1. job[k].wallet \in Wallets /\ job[k].toWallet \in Wallets
    BY <1>12 DEF IInv, SnapshotsHold, Valid, ValidWallet
  <2>2. \A w \in Wallets : version[w] \in Nat /\ balance[w] \in Int
    BY <1>0 DEF TypeOK, StoreTypeOK
  <2>3. \A w \in Wallets :
          version'[w] = IF w \in {r.wallet, r.toWallet} THEN version[w] + 1
                        ELSE version[w]
    BY <1>0, <1>3, <1>4 DEF TypeOK, StoreTypeOK
  <2>4. \A w \in Wallets :
          w \notin {r.wallet, r.toWallet} => balance'[w] = balance[w]
    BY <1>2, <2>2 DEF Change
  <2> QED
    BY <1>0, <2>1, <2>2, <2>3, <2>4 DEF TypeOK, StoreTypeOK, Snapshots
<1>13. \A k \in Jobs :
         /\ pc'[k] \in {"updateFrom", "updateTo", "commit"} =>
               k # j /\ pc'[k] = pc[k]
         /\ k # j => pc'[k] = pc[k] /\ snap'[k] = snap[k]
  BY <1>0, <1>4 DEF TypeOK, StoreTypeOK
<1>14. SnapshotsHold'
  <2>1. SUFFICES
          ASSUME NEW k \in Jobs,
                 pc'[k] \in {"updateFrom", "updateTo", "commit"}
          PROVE  /\ Valid(job[k])
                 /\ snap[k].from <= version'[job[k].wallet]
                 /\ snap[k].to <= version'[job[k].toWallet]
                 /\ job[k].toWallet = job[k].wallet =>
                      snap[k].to = snap[k].from
                 /\ Debits(job[k]) /\ snap[k].from = version'[job[k].wallet]
                      => balance'[job[k].wallet] >= job[k].amount
    BY <1>4, <1>13 DEF SnapshotsHold
  <2>2. k # j /\ pc[k] \in {"updateFrom", "updateTo", "commit"}
    BY <1>13, <2>1
  <2>3. /\ Valid(job[k])
        /\ snap[k].from <= version[job[k].wallet]
        /\ snap[k].to <= version[job[k].toWallet]
        /\ job[k].toWallet = job[k].wallet => snap[k].to = snap[k].from
        /\ Debits(job[k]) /\ snap[k].from = version[job[k].wallet]
             => balance[job[k].wallet] >= job[k].amount
    BY <2>2 DEF IInv, SnapshotsHold
  <2>4. /\ job[k].wallet \in Wallets /\ job[k].toWallet \in Wallets
        /\ version[job[k].wallet] \in Nat
        /\ version[job[k].toWallet] \in Nat
        /\ snap[k].from \in Nat /\ snap[k].to \in Nat
        /\ version'[job[k].wallet] \in Nat
        /\ version'[job[k].wallet] >= version[job[k].wallet]
        /\ version'[job[k].toWallet] >= version[job[k].toWallet]
        /\ version'[job[k].wallet] = version[job[k].wallet] =>
             balance'[job[k].wallet] = balance[job[k].wallet]
    BY <1>12, <2>2
  <2>5. version'[job[k].toWallet] \in Nat
    BY <1>0, <2>4 DEF TypeOK, StoreTypeOK
  <2>6. /\ snap[k].from <= version'[job[k].wallet]
        /\ snap[k].to <= version'[job[k].toWallet]
    BY <2>3, <2>4, <2>5
  <2>7. snap[k].from = version'[job[k].wallet] =>
             /\ snap[k].from = version[job[k].wallet]
             /\ balance'[job[k].wallet] = balance[job[k].wallet]
    BY <2>3, <2>4
  <2> QED
    BY <2>3, <2>6, <2>7
<1>15. LocksHoldVersions'
  <2>1. \A k \in Jobs : k # j =>
          /\ pc[k] \in {"updateTo", "commit"} =>
               job[k].wallet \notin {r.wallet, r.toWallet}
          /\ pc[k] = "commit" =>
               job[k].toWallet \notin {r.wallet, r.toWallet}
    BY <1>3, <1>12 DEF IInv, LocksExclude, Holds
  <2>2. \A w \in Wallets :
          w \notin {r.wallet, r.toWallet} => version'[w] = version[w]
    BY <1>0, <1>4 DEF TypeOK, StoreTypeOK
  <2>3. ASSUME NEW k \in Jobs, pc'[k] \in {"updateTo", "commit"}
        PROVE  /\ k # j /\ pc'[k] = pc[k] /\ snap'[k] = snap[k]
               /\ job'[k] = job[k]
               /\ snap[k].from = version[job[k].wallet]
               /\ version'[job[k].wallet] = version[job[k].wallet]
    BY <1>4, <1>12, <1>13, <2>1, <2>2, <2>3 DEF IInv, LocksHoldVersions
  <2>4. ASSUME NEW k \in Jobs, pc'[k] = "commit"
        PROVE  /\ snap[k].to = version[job[k].toWallet]
               /\ version'[job[k].toWallet] = version[job[k].toWallet]
               /\ job[k].kind = "transfer" => job[k].toWallet # job[k].wallet
    BY <1>12, <1>13, <2>1, <2>2, <2>4 DEF IInv, LocksHoldVersions
  <2> QED
    BY <2>3, <2>4 DEF LocksHoldVersions
<1>16. LocksExclude'
  BY <1>4, <1>13 DEF IInv, LocksExclude, Holds
<1> QED
  BY <1>0, <1>8, <1>9, <1>10, <1>11, <1>14, <1>15, <1>16 DEF IInv

(* After the commit: Redis, then the notification.                         *)
LEMMA AfterCommitKeeps ==
    ASSUME IInv, NEW j \in Jobs, TypeOK',
           CacheSuccess(j) \/ Invalidate(j) \/ Notify(j)
    PROVE  IInv'
<1> USE DEF IInv, TypeOK, StoreTypeOK, tables, keys, Go, Handler
<1>1. CASE CacheSuccess(j) \/ Invalidate(j)
  <2>1. Advance(j)
    BY <1>1 DEF CacheSuccess, Invalidate, Advance, AfterCommit
  <2>2. SnapshotsHold' /\ LocksHoldVersions' /\ LocksExclude'
    BY <1>1 DEF CacheSuccess, Invalidate, SnapshotsHold, LocksHoldVersions,
                LocksExclude, Holds, From, To, KindOf
  <2> QED
    BY <2>1, <2>2, AdvanceKeeps
<1>2. CASE Notify(j)
  <2>0. job[j] \in Requests /\ TxOf(j) \in TxIds
    BY <1>2, BodyType DEF Notify, Bodies, TxOf
  <2>1. /\ UNCHANGED <<balance, version, ledger, request, job, snap>>
        /\ pc' = [pc EXCEPT ![j] = "held"]
        /\ pc[j] = "notify"
        /\ \/ notices' = notices
           \/ notices' = [notices EXCEPT ![TxOf(j)] = notices[TxOf(j)] + 1]
    BY <1>2 DEF Notify
  <2> USE DEF OwnerSteps, BeforeCommit, AfterCommit, TxSteps, TxOf
  <2>2. Settled(TxOf(j)) /\ \A k \in Jobs \ {j} :
          pc[k] \in OwnerSteps => TxOf(k) # TxOf(j)
    BY <2>1 DEF OwnerLogged, OneOwner
  <2>3. notices[TxOf(j)] = 0
    BY <2>0, <2>1 DEF Announced
  <2>4. SuccessMeansMoved' /\ SettledLogged' /\ Bodies'
    BY <2>1 DEF SuccessMeansMoved, SettledLogged, Bodies, Settled
  <2>5. OneOwner' /\ OwnerLogged'
    BY <2>1 DEF OneOwner, OwnerLogged, Settled
  <2>6. Announced'
    BY <2>0, <2>1, <2>2, <2>3 DEF Announced, Settled
  <2>7. SnapshotsHold' /\ LocksHoldVersions' /\ LocksExclude'
    BY <2>1 DEF SnapshotsHold, LocksHoldVersions, LocksExclude, Holds, From,
                To, KindOf
  <2> QED
    BY <2>4, <2>5, <2>6, <2>7
<1> QED
  BY <1>1, <1>2

(* A write that the database applied without saying so.                    *)
LEMMA ReplyLostKeeps ==
    ASSUME IInv, NEW j \in Jobs, ReplyLost(j), TypeOK'
    PROVE  IInv'
<1>1. CASE pc[j] = "commit"
  <2>1. Apply(j) /\ Leave(j, "markFailed") /\ UNCHANGED <<notices, job>>
    BY <1>1 DEF ReplyLost, Handler
  <2> QED
    BY <1>1, <2>1, ApplyKeeps
<1>2. CASE pc[j] # "commit"
  <2>1. Quiet
    BY <1>2 DEF ReplyLost, LogRequest, FailRequest, Handler, Go, IInv, TypeOK,
                StoreTypeOK, Bodies, Quiet, OwnerSteps, BeforeCommit,
                AfterCommit, TxSteps
  <2> QED
    BY <2>1, QuietKeeps
<1> QED
  BY <1>1, <1>2

(* The invariant holds at the start.                                       *)
LEMMA InitIInv == Init => IInv
<1> SUFFICES ASSUME Init PROVE IInv
  OBVIOUS
<1>1. TypeOK
  BY InitType
<1> QED
  BY <1>1, TablesAssumption
     DEF IInv, Init, StoreInit, SuccessMeansMoved, Bodies, OneOwner, OwnerLogged, SettledLogged, Announced, SnapshotsHold,
         LocksHoldVersions, LocksExclude, Holds, Settled, OwnerSteps,
         BeforeCommit, AfterCommit, TxSteps

(* Every step keeps it.                                                    *)
LEMMA NextIInv == IInv /\ [Next]_vars => IInv'
<1> SUFFICES ASSUME IInv, [Next]_vars PROVE IInv'
  OBVIOUS
<1>1. TypeOK'
  BY NextType DEF IInv
<1>2. CASE Aside \/ UNCHANGED vars
  BY <1>1, <1>2, AsideQuiet, QuietKeeps
<1>3. ASSUME NEW j \in Calls,
             (\E r \in Requests : Call(j, r)) \/ CallStep(j) \/ CallThrows(j)
      PROVE  IInv'
  BY <1>1, <1>3, CallQuiet, QuietKeeps
<1>4. ASSUME NEW j \in Jobs, Deliver(j) \/ HandlerStep(j) \/ Fault(j)
      PROVE  IInv'
  <2>1. CASE Retreat(j)
    BY <1>1, <2>1, RetreatQuiet, QuietKeeps
  <2>2. CASE Prelog(j)
    BY <1>1, <2>2, PrelogKeeps
  <2>3. CASE ValidateWallet(j) \/ ReadWallets(j) \/ UpdateFrom(j) \/ UpdateTo(j)
    BY <1>1, <2>3, TransactionKeeps
  <2>4. CASE Commit(j)
    <3>1. /\ Apply(j) /\ pc[j] = "commit" /\ Leave(j, "cacheSuccess")
          /\ UNCHANGED <<notices, job>>
      BY <2>4 DEF Commit, Handler
    <3> QED
      BY <1>1, <3>1, ApplyKeeps
  <2>5. CASE CacheSuccess(j) \/ Invalidate(j) \/ Notify(j)
    BY <1>1, <2>5, AfterCommitKeeps
  <2>6. CASE ReplyLost(j)
    BY <1>1, <2>6, ReplyLostKeeps
  <2>7. CASE AckThrows(j)
    BY <1>1, <2>7, RestartQuiet, QuietKeeps DEF AckThrows
  <2> QED
    BY <1>4, <2>1, <2>2, <2>3, <2>4, <2>5, <2>6, <2>7
       DEF HandlerStep, Fault, Retreat
<1>5. CASE Restart
  BY <1>1, <1>5, RestartQuiet, QuietKeeps DEF Restart
<1> QED
  BY <1>2, <1>3, <1>4, <1>5 DEF Next, Aside

(* The inductive invariant holds in every reachable state.                 *)
THEOREM Invariance == Spec => []IInv
BY InitIInv, NextIInv, PTL DEF Spec

(* Every variable keeps its type, in every instance and under every fault. *)
THEOREM TypeCorrect == Spec => []TypeOK
BY Invariance, PTL DEF IInv

(* A request whose row says success has settled, whatever fails.           *)
THEOREM SuccessIsTrue == Spec => []SuccessMeansMoved
BY Invariance, PTL DEF IInv

(* Redeliveries, retries and restarts never announce a request twice, nor  *)
(* one that has not settled.                                               *)
THEOREM AnnouncedOnce == Spec => []NotifiedOnce
<1>1. IInv => NotifiedOnce
  BY DEF IInv, Announced, NotifiedOnce
<1> QED
  BY <1>1, Invariance, PTL

(* Only a commit touches balances, versions and rows.                      *)
LEMMA NextCommits ==
    ASSUME IInv, [Next]_vars
    PROVE  \/ \E j \in Jobs : pc[j] = "commit" /\ Apply(j)
           \/ UNCHANGED <<balance, version, ledger>>
<1> DEFINE Commits == \E j \in Jobs : pc[j] = "commit" /\ Apply(j)
<1>1. CASE Aside \/ UNCHANGED vars
  BY <1>1, AsideQuiet DEF Quiet
<1>2. ASSUME NEW j \in Calls,
             (\E r \in Requests : Call(j, r)) \/ CallStep(j) \/ CallThrows(j)
      PROVE  UNCHANGED <<balance, version, ledger>>
  BY <1>2, CallQuiet DEF Quiet
<1>3. ASSUME NEW j \in Jobs, Deliver(j) \/ HandlerStep(j) \/ Fault(j)
      PROVE  Commits \/ UNCHANGED <<balance, version, ledger>>
  <2>1. CASE Retreat(j)
    BY <2>1, RetreatQuiet DEF Quiet
  <2>2. CASE Prelog(j)
    BY <2>2 DEF Prelog
  <2>3. CASE ValidateWallet(j) \/ ReadWallets(j) \/ UpdateFrom(j) \/ UpdateTo(j)
    BY <2>3 DEF ValidateWallet, ReadWallets, UpdateFrom, UpdateTo, tables
  <2>4. CASE Commit(j)
    BY <2>4 DEF Commit, Handler
  <2>5. CASE CacheSuccess(j) \/ Invalidate(j) \/ Notify(j)
    BY <2>5 DEF CacheSuccess, Invalidate, Notify, tables
  <2>6. CASE ReplyLost(j)
    BY <2>6 DEF ReplyLost, Handler
  <2>7. CASE AckThrows(j)
    BY <2>7, RestartQuiet DEF AckThrows, Quiet
  <2> QED
    BY <1>3, <2>1, <2>2, <2>3, <2>4, <2>5, <2>6, <2>7
       DEF HandlerStep, Fault, Retreat
<1>4. CASE Restart
  BY <1>4, RestartQuiet DEF Restart, Quiet
<1> QED
  BY <1>1, <1>2, <1>3, <1>4 DEF Next, Aside

(* A commit that leaves a wallet poorer and in debt is a funding of it: a  *)
(* debit commits on the version, hence on the balance, it has checked.     *)
LEMMA ApplyPays ==
    ASSUME IInv, NEW j \in Jobs, pc[j] = "commit", Apply(j),
           NEW w \in Wallets, balance'[w] < balance[w], balance'[w] < 0
    PROVE  Deposits(ledger', w) # Deposits(ledger, w)
<1> DEFINE r == job[j]
<1>1. PICK fee \in Fees(r) :
        /\ balance' = [v \in Wallets |-> balance[v] + Change(r, fee, v)]
        /\ ledger' = ledger \cup Entries(r, fee)
  BY DEF Apply
<1>2. /\ r \in Requests
      /\ Debits(r) => balance[r.wallet] >= r.amount
      /\ ~ Settled(r.tx)
  BY DEF IInv, Bodies, SnapshotsHold, LocksHoldVersions, OwnerLogged,
         BeforeCommit, TxSteps, TxOf, From
<1>3. /\ balance[w] \in Int /\ r.amount \in Int /\ Change(r, fee, w) \in Int
      /\ Debits(r) => r.amount >= 1
      /\ ~ Debits(r) => r.toWallet = r.wallet
  BY <1>2, BodyType, ChangeType DEF IInv, TypeOK, StoreTypeOK, Debits
<1>4. Change(r, fee, w) < 0 /\ balance[w] + Change(r, fee, w) < 0
  BY <1>1, <1>3
<1>5. w = r.wallet /\ ~ Debits(r)
  BY <1>2, <1>3, <1>4 DEF Change
<1> DEFINE e == EntryOf(r, fee, w)
<1>6. e \in ledger' /\ e \notin ledger /\ e.wallet = w /\ e.type = "DEPOSIT"
  BY <1>1, <1>2, <1>5 DEF Entries, EntryOf, TypeOfEntry, Touched, Settled
<1> QED
  BY <1>6 DEF Deposits

(* Whatever fails, only a funding can overdraw a wallet.                   *)
THEOREM DebitsPaid == Spec => DebitsArePaid
<1>1. ASSUME IInv, [Next]_vars, NEW w \in Wallets,
             balance'[w] < balance[w], balance'[w] < 0
      PROVE  Deposits(ledger', w) # Deposits(ledger, w)
  <2>1. balance[w] \in Int
    BY <1>1 DEF IInv, TypeOK, StoreTypeOK
  <2>2. \E j \in Jobs : pc[j] = "commit" /\ Apply(j)
    BY <1>1, <2>1, NextCommits
  <2> QED
    BY <1>1, <2>2, ApplyPays
<1>2. IInv /\ [Next]_vars =>
        [\A w \in Wallets :
            balance'[w] < balance[w] /\ balance'[w] < 0 =>
                Deposits(ledger', w) # Deposits(ledger, w)]_vars
  BY <1>1
<1> QED
  BY <1>2, Invariance, PTL DEF Spec, DebitsArePaid

-----------------------------------------------------------------------------
(* WalletSystem implements WalletLedger.                                   *)

(* A commit is a settlement of the abstract ledger.                        *)
LEMMA ApplyImplements ==
    ASSUME IInv, NEW j \in Jobs, pc[j] = "commit", Apply(j)
    PROVE  Ledger!LNext
<1> DEFINE r == job[j]
<1>1. r \in Requests
  BY DEF IInv, Bodies
<1>2. PICK fee \in Fees(r) :
        /\ balance' = [w \in Wallets |-> balance[w] + Change(r, fee, w)]
        /\ ledger' = ledger \cup Entries(r, fee)
  BY DEF Apply
<1>3. ~ Settled(r.tx)
  BY DEF IInv, OwnerLogged, BeforeCommit, TxSteps, TxOf
<1>4. /\ Valid(r)
      /\ Debits(r) => balance[r.wallet] >= r.amount
      /\ r.kind = "transfer" => r.toWallet # r.wallet
  BY DEF IInv, SnapshotsHold, LocksHoldVersions, From, To, KindOf
<1>5. Ledger!Settle(r, fee)
  BY <1>2, <1>3, <1>4
     DEF Ledger!Settle, Ledger!Settled, Settled, Valid, ValidWallet, Debits,
         Change, Entries, EntryOf, TypeOfEntry, Touched, Ledger!Valid,
         Ledger!ValidWallet, Ledger!Debits, Ledger!Change, Ledger!Entries,
         Ledger!EntryOf, Ledger!TypeOfEntry, Ledger!Touched
<1> QED
  BY <1>1, <1>2, <1>5
     DEF Ledger!LNext, Fees, FeeOptions, Ledger!Fees, Ledger!FeeOptions

(* Every step is a settlement, or leaves balances and rows alone.          *)
LEMMA NextImplements ==
    IInv /\ [Next]_vars => [Ledger!LNext]_(Ledger!lvars)
BY NextCommits, ApplyImplements DEF Ledger!lvars

(* The queue, the duplicates, the retries and the crashes are invisible in *)
(* the ledger: every behaviour is one of the abstract specification.       *)
THEOREM Implementation == Spec => ImplementsLedger
<1>1. Init => Ledger!LInit
  BY DEF Init, StoreInit, Ledger!LInit
<1> QED
  BY <1>1, Invariance, NextImplements, PTL
     DEF Spec, ImplementsLedger, Ledger!LSpec
=============================================================================
