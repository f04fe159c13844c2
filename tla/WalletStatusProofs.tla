-------------------------- MODULE WalletStatusProofs --------------------------
(***************************************************************************)
(* Proofs about WalletRequest.status and its copies in Redis, for every    *)
(* instance in which the stores answer.  (The run failed_after_success     *)
(* shows what a Redis that does not answer does to them.)                  *)
(***************************************************************************)
EXTENDS WalletSystemProofs

USE DEF Jobs, Final, Statuses, Channels

(* The steps of the owner of a txId, while the stores answer.              *)
DecidingSteps == PendingSteps \cup DecidedSteps

(* A step that decides nothing: tables stay, no job becomes the owner of   *)
(* its txId, and what is cached or seen is old or true.                    *)
Tame ==
    /\ UNCHANGED <<ledger, request>>
    /\ \A t \in TxIds :
         requestCache'[t] \in {"none", "pending", requestCache[t], request[t]}
    /\ \A k \in Jobs : pc'[k] \in DecidingSteps =>
         /\ job'[k] = job[k]
         /\ \/ pc[k] = pc'[k]
            \/ pc[k] \in PendingSteps /\ pc'[k] \in PendingSteps
            \/ pc[k] \in AfterCommit /\ pc'[k] \in AfterCommit
    /\ \A k \in Calls : pc'[k] = "saveCache" /\ seen'[k] \in Final =>
         /\ job'[k] = job[k]
         /\ \/ pc[k] = "saveCache" /\ seen'[k] = seen[k]
            \/ seen'[k] = request[TxOf(k)]

(* A tame step keeps the invariant.                                        *)
LEMMA TameKeeps ==
    ASSUME StatusInv, Tame
    PROVE  StatusInv'
<1> USE DEF StatusInv, Tame, TxOf
<1>1. OneDecides'
  BY DEF OneDecides, DecidingSteps, PendingSteps, DecidedSteps
<1>2. OwnerDecides'
  BY DEF OwnerDecides, DecidingSteps, PendingSteps, DecidedSteps, BeforeCommit,
         AfterCommit, TxSteps, Settled
<1>3. SeenTruthful'
  BY DEF SeenTruthful
<1>4. FailedMeansUnmoved' /\ CacheTruthful'
  BY DEF FailedMeansUnmoved, CacheTruthful, Settled
<1> QED
  BY <1>1, <1>2, <1>3, <1>4

(* Readers, expiring keys and closing channels are tame.                   *)
LEMMA AsideTame ==
    ASSUME TypeOK, Aside \/ UNCHANGED vars
    PROVE  Tame
<1> USE DEF Tame, vars, tables, keys, messages
<1>1. ASSUME NEW t \in TxIds, ExpireRequest(t)
      PROVE  Tame
  BY <1>1 DEF ExpireRequest, TypeOK, StoreTypeOK
<1>2. CASE UNCHANGED <<ledger, request, requestCache, pc, job, seen>>
  BY <1>2
<1> QED
  BY <1>1, <1>2
     DEF Aside, StartRead, ReadStep, FindWallets, CacheWallets, ReadThrows,
         Read, ExpireWallets, CloseChannel, Finished

(* So are the steps of an HTTP call: what it saves is what it has seen.    *)
LEMMA CallTame ==
    ASSUME TypeOK, Bodies, StatusInv, NEW j \in Calls,
           (\E r \in Requests : Call(j, r)) \/ CallStep(j) \/ CallThrows(j)
    PROVE  Tame
<1> USE DEF TypeOK, StoreTypeOK, Tame, tables, keys, messages, Go, Answer,
            DecidingSteps, PendingSteps, DecidedSteps, BeforeCommit,
            AfterCommit, TxSteps
<1>1. CASE \E r \in Requests : Call(j, r)
  BY <1>1 DEF Call
<1>2. CASE GetCache(j) \/ Send(j)
  BY <1>2 DEF GetCache, Send
<1>3. CASE FindRequest(j)
  BY <1>3 DEF FindRequest, TxOf
<1>4. CASE SaveCache(j)
  <2>1. TxOf(j) \in TxIds
    BY <1>4, BodyType DEF SaveCache, Bodies, TxOf
  <2>2. seen[j] \in {"none", "pending", request[TxOf(j)]}
    BY <1>4 DEF StatusInv, SeenTruthful, SaveCache
  <2> QED
    BY <1>4, <2>1, <2>2 DEF SaveCache
<1>5. CASE CallThrows(j)
  BY <1>5 DEF CallThrows
<1> QED
  BY <1>1, <1>2, <1>3, <1>4, <1>5 DEF CallStep

(* So is a restart, after which no request has an owner.                   *)
LEMMA RestartTame ==
    ASSUME TypeOK, StartAgain
    PROVE  Tame
BY DEF StartAgain, TypeOK, StoreTypeOK, Tame, tables, keys, DecidingSteps,
       PendingSteps, DecidedSteps, BeforeCommit, AfterCommit, TxSteps,
       HandlerSteps, TrySteps, CatchSteps, HttpSteps

(* While the stores answer, these are the steps of handlers that neither   *)
(* log a request nor decide it.                                            *)
Undecided(j) ==
    \/ Deliver(j) \/ CheckCache(j) \/ DropCache(j) \/ ValidateWallet(j)
    \/ ReadWallets(j) \/ UpdateFrom(j) \/ UpdateTo(j) \/ DeadlockAbort(j)
    \/ CacheSuccess(j) \/ Invalidate(j) \/ Notify(j) \/ CacheFailed(j)
    \/ Republish(j) \/ Ack(j)

(* They are tame.                                                          *)
LEMMA HandlerTame ==
    ASSUME TypeOK, Bodies, StatusInv, NEW j \in Jobs, Undecided(j)
    PROVE  Tame
<1> USE DEF TypeOK, StoreTypeOK, Tame, tables, keys, Go, Handler, Leave,
            DecidingSteps, PendingSteps, DecidedSteps, BeforeCommit,
            AfterCommit, TxSteps
<1>1. CASE Deliver(j) \/ CheckCache(j) \/ DropCache(j) \/ Ack(j)
  BY <1>1 DEF Deliver, CheckCache, DropCache, Ack
<1>2. CASE ValidateWallet(j) \/ ReadWallets(j) \/ UpdateFrom(j) \/ UpdateTo(j)
  BY <1>2 DEF ValidateWallet, ReadWallets, UpdateFrom, UpdateTo
<1>3. CASE DeadlockAbort(j) \/ Invalidate(j) \/ Notify(j)
  BY <1>3 DEF DeadlockAbort, Invalidate, Notify
<1>4. CASE CacheSuccess(j)
  <2>1. request[TxOf(j)] = "success"
    BY <1>4 DEF CacheSuccess, StatusInv, OwnerDecides
  <2> QED
    BY <1>4, <2>1 DEF CacheSuccess
<1>5. CASE CacheFailed(j)
  <2>1. request[TxOf(j)] = "failed"
    BY <1>5 DEF CacheFailed, StatusInv, OwnerDecides
  <2> QED
    BY <1>5, <2>1 DEF CacheFailed
<1>6. CASE Republish(j)
  BY <1>6 DEF Republish
<1> QED
  BY <1>1, <1>2, <1>3, <1>4, <1>5, <1>6 DEF Undecided

(* Logging a request: nobody else is at work on its txId.                  *)
LEMMA PrelogStatus ==
    ASSUME IInv, StatusInv, NEW j \in Jobs, Prelog(j)
    PROVE  StatusInv'
<1> USE DEF IInv, TypeOK, StoreTypeOK, tables, keys, Go, Handler
<1>0. job[j] \in Requests /\ TxOf(j) \in TxIds
  BY BodyType DEF Prelog, Bodies, TxOf
<1>1. CASE UNCHANGED request
  <2>1. Tame
    BY <1>0, <1>1 DEF Prelog, LogRequest, Tame, DecidingSteps, PendingSteps,
         DecidedSteps, BeforeCommit, AfterCommit, TxSteps
  <2> QED
    BY <2>1, TameKeeps
<1>2. CASE LogRequest(j, AfterPrelog(j))
  <2>1. /\ UNCHANGED <<ledger, requestCache, job, seen>>
        /\ request' = [request EXCEPT ![TxOf(j)] = "pending"]
        /\ request[TxOf(j)] = "none"
        /\ pc' = [pc EXCEPT ![j] = AfterPrelog(j)]
        /\ pc[j] = "prelog"
        /\ AfterPrelog(j) \in {"validate", "readWallets"}
    BY <1>2 DEF Prelog, LogRequest, AfterPrelog
  <2>2. ~ Settled(TxOf(j))
    BY <1>0, <2>1 DEF SettledLogged
  <2> USE DEF StatusInv, PendingSteps, DecidedSteps, BeforeCommit, AfterCommit,
              TxSteps, TxOf
  <2>3. \A k \in Jobs : pc[k] \in PendingSteps \cup DecidedSteps =>
                          TxOf(k) # TxOf(j)
    BY <2>1 DEF OwnerDecides
  <2>4. OneDecides'
    BY <2>1, <2>3 DEF OneDecides
  <2>5. OwnerDecides'
    BY <1>0, <2>1, <2>2, <2>3 DEF OwnerDecides, Settled
  <2>6. SeenTruthful' /\ FailedMeansUnmoved' /\ CacheTruthful'
    BY <1>0, <2>1 DEF SeenTruthful, FailedMeansUnmoved, CacheTruthful, Settled
  <2> QED
    BY <2>4, <2>5, <2>6
<1> QED
  BY <1>1, <1>2 DEF Prelog

(* Committing: the owner turns its pending row into a successful one.      *)
LEMMA CommitStatus ==
    ASSUME IInv, StatusInv, NEW j \in Jobs, Commit(j)
    PROVE  StatusInv'
<1> USE DEF TxOf
<1>0. IInv /\ TypeOK /\ job[j] \in Requests /\ job[j].tx \in TxIds
  BY BodyType DEF IInv, Commit, Handler, Bodies
<1>1. /\ UNCHANGED <<requestCache, job, seen>>
      /\ request' = [request EXCEPT ![job[j].tx] = "success"]
      /\ pc' = [pc EXCEPT ![j] = "cacheSuccess"]
      /\ pc[j] = "commit"
  BY DEF Commit, Apply, Leave, Go, Handler, keys
<1>2. \A t : Settled(t)' <=> Settled(t) \/ t = job[j].tx
  BY <1>0, ApplySettles DEF Commit
<1>3. request[job[j].tx] = "pending"
  BY <1>1 DEF StatusInv, OwnerDecides, PendingSteps, BeforeCommit, TxSteps
<1>4. \A k \in Jobs : /\ pc[k] \in PendingSteps \cup DecidedSteps
                      /\ job[k].tx = job[j].tx
                      => k = j
  BY <1>1 DEF StatusInv, OneDecides, PendingSteps, BeforeCommit, TxSteps
<1> USE DEF TypeOK, StoreTypeOK, StatusInv, PendingSteps, DecidedSteps,
            BeforeCommit, AfterCommit, TxSteps
<1>5. OneDecides'
  BY <1>0, <1>1 DEF OneDecides
<1>6. OwnerDecides'
  BY <1>0, <1>1, <1>2, <1>4 DEF OwnerDecides
<1>7. SeenTruthful' /\ CacheTruthful'
  BY <1>0, <1>1, <1>3 DEF SeenTruthful, CacheTruthful
<1>8. FailedMeansUnmoved'
  BY <1>0, <1>1, <1>2 DEF FailedMeansUnmoved
<1> QED
  BY <1>5, <1>6, <1>7, <1>8

(* Giving up: the owner turns its pending row into a failed one.           *)
LEMMA MarkFailedStatus ==
    ASSUME IInv, StatusInv, NEW j \in Jobs, MarkFailed(j)
    PROVE  StatusInv'
<1> USE DEF TxOf
<1>0. TypeOK /\ job[j] \in Requests /\ job[j].tx \in TxIds
  BY BodyType DEF IInv, MarkFailed, Handler, Bodies
<1>1. request[job[j].tx] = "pending" /\ ~ Settled(job[j].tx)
  BY DEF MarkFailed, Handler, StatusInv, OwnerDecides, PendingSteps
<1>2. /\ UNCHANGED <<ledger, requestCache, job, seen>>
      /\ request' = [request EXCEPT ![job[j].tx] = "failed"]
      /\ pc' = [pc EXCEPT ![j] = "cacheFailed"]
      /\ pc[j] = "markFailed"
  BY <1>0, <1>1 DEF MarkFailed, FailRequest, Go, Handler, keys, TypeOK,
                    StoreTypeOK
<1>3. \A k \in Jobs : /\ pc[k] \in PendingSteps \cup DecidedSteps
                      /\ job[k].tx = job[j].tx
                      => k = j
  BY <1>2 DEF StatusInv, OneDecides, PendingSteps
<1> USE DEF TypeOK, StoreTypeOK, StatusInv, PendingSteps, DecidedSteps,
            BeforeCommit, AfterCommit, TxSteps
<1>4. OneDecides'
  BY <1>0, <1>2 DEF OneDecides
<1>5. OwnerDecides'
  BY <1>0, <1>2, <1>3 DEF OwnerDecides, Settled
<1>6. SeenTruthful' /\ CacheTruthful'
  BY <1>0, <1>1, <1>2 DEF SeenTruthful, CacheTruthful
<1>7. FailedMeansUnmoved'
  BY <1>0, <1>1, <1>2 DEF FailedMeansUnmoved, Settled
<1> QED
  BY <1>4, <1>5, <1>6, <1>7

(* What steps there are while the stores answer.                           *)
LEMMA NextAnswered ==
    ASSUME StoresAnswer, IInv, StatusInv, [Next]_vars
    PROVE  \/ Tame
           \/ \E j \in Jobs : Prelog(j) \/ Commit(j) \/ MarkFailed(j)
<1>1. CASE Aside \/ UNCHANGED vars
  BY <1>1, AsideTame DEF IInv
<1>2. ASSUME NEW j \in Calls,
             (\E r \in Requests : Call(j, r)) \/ CallStep(j) \/ CallThrows(j)
      PROVE  Tame
  BY <1>2, CallTame DEF IInv
<1>3. ASSUME NEW j \in Jobs, Deliver(j) \/ HandlerStep(j) \/ Fault(j)
      PROVE  Tame \/ Prelog(j) \/ Commit(j) \/ MarkFailed(j)
  <2>1. ~ Fault(j)
    BY DEF StoresAnswer, Fault, HandlerThrows, TryFails, CatchThrows, ReplyLost
  <2>2. CASE Undecided(j)
    BY <2>2, HandlerTame DEF IInv
  <2>3. CASE AckThrows(j)
    BY <2>3, RestartTame DEF AckThrows, IInv
  <2> QED
    BY <1>3, <2>1, <2>2, <2>3 DEF HandlerStep, Undecided
<1>4. CASE Restart
  BY <1>4, RestartTame DEF Restart, IInv
<1> QED
  BY <1>1, <1>2, <1>3, <1>4 DEF Next, Aside

(* Every step keeps the invariant.                                         *)
LEMMA NextStatus ==
    ASSUME StoresAnswer, IInv, StatusInv, [Next]_vars
    PROVE  StatusInv'
BY NextAnswered, TameKeeps, PrelogStatus, CommitStatus, MarkFailedStatus

(* While the stores answer, statuses are what has happened to the money,   *)
(* in the row and in its copies, through crashes, redeliveries, duplicate  *)
(* calls and expiring keys.                                                *)
THEOREM StatusInvariance ==
    ASSUME StoresAnswer
    PROVE  Spec => []StatusInv
<1>1. Init => StatusInv
  BY DEF Init, StoreInit, StatusInv, OneDecides, OwnerDecides, SeenTruthful,
         FailedMeansUnmoved, CacheTruthful, PendingSteps, DecidedSteps,
         BeforeCommit, AfterCommit, TxSteps
<1>2. IInv /\ StatusInv /\ [Next]_vars => StatusInv'
  BY NextStatus
<1> QED
  BY <1>1, <1>2, Invariance, PTL DEF Spec

(* A request marked failed has moved no money.                             *)
THEOREM FailedIsTrue ==
    ASSUME StoresAnswer
    PROVE  Spec => []FailedMeansUnmoved
BY StatusInvariance, PTL DEF StatusInv

(* A final status in Redis is the status of the row.                       *)
THEOREM CacheIsTrue ==
    ASSUME StoresAnswer
    PROVE  Spec => []CacheTruthful
BY StatusInvariance, PTL DEF StatusInv

(* A status that is final never changes.                                   *)
THEOREM FinalIsFinal ==
    ASSUME StoresAnswer
    PROVE  Spec => StatusFinal
<1> DEFINE Kept == \A t \in TxIds :
                     request[t] \in Final => request'[t] = request[t]
<1>1. IInv /\ StatusInv /\ [Next]_vars => [Kept]_vars
  <2> SUFFICES ASSUME IInv, StatusInv, [Next]_vars PROVE Kept
    OBVIOUS
  <2>1. CASE Tame
    BY <2>1 DEF Tame
  <2>2. ASSUME NEW j \in Jobs, Prelog(j)
        PROVE  Kept
    BY <2>2 DEF Prelog, LogRequest, IInv, TypeOK, StoreTypeOK
  <2>3. ASSUME NEW j \in Jobs, Commit(j)
        PROVE  Kept
    <3>1. request[TxOf(j)] = "pending"
      BY <2>3 DEF Commit, Handler, StatusInv, OwnerDecides, PendingSteps,
                  BeforeCommit, TxSteps
    <3> QED
      BY <2>3, <3>1 DEF Commit, Apply, IInv, TypeOK, StoreTypeOK
  <2>4. ASSUME NEW j \in Jobs, MarkFailed(j)
        PROVE  Kept
    <3>1. request[TxOf(j)] = "pending"
      BY <2>4 DEF MarkFailed, Handler, StatusInv, OwnerDecides, PendingSteps
    <3> QED
      BY <2>4, <3>1 DEF MarkFailed, FailRequest, IInv, TypeOK, StoreTypeOK
  <2> QED
    BY <2>1, <2>2, <2>3, <2>4, NextAnswered
<1> QED
  BY <1>1, Invariance, StatusInvariance, PTL DEF Spec, StatusFinal

-----------------------------------------------------------------------------
(* What failed once is not tried again.                                    *)

(* A row, once there, stays.                                               *)
LEMMA RowsStay ==
    ASSUME StoresAnswer, IInv, StatusInv, [Next]_vars, NEW t \in TxIds,
           request[t] # "none"
    PROVE  request'[t] # "none"
<1> USE DEF IInv, TypeOK, StoreTypeOK
<1>1. CASE Tame
  BY <1>1 DEF Tame
<1>2. ASSUME NEW j \in Jobs, Prelog(j) \/ Commit(j) \/ MarkFailed(j)
      PROVE  request'[t] # "none"
  BY <1>2 DEF Prelog, LogRequest, Commit, Apply, MarkFailed, FailRequest
<1> QED
  BY <1>1, <1>2, NextAnswered

(* Nothing but a failure that was recorded leads to another attempt, and   *)
(* the attempt finds the row.                                              *)
LEMMA NextRetries ==
    ASSUME StoresAnswer, IInv, StatusInv, RetriesInv, RetriesAreIdle,
           [Next]_vars
    PROVE  RetriesInv' /\ RetriesAreIdle'
<1> USE JobsAssumption
        DEF IInv, TypeOK, StoreTypeOK, tables, keys, messages, Go, Handler,
            Leave, Answer, TxOf, RetriesAreIdle, OwnerSteps, BeforeCommit,
            AfterCommit, TxSteps
<1>0. \A k \in Jobs : pc[k] # "idle" => job[k] \in Requests /\ job[k].tx \in TxIds
  BY BodyType DEF Bodies
<1> DEFINE Starts(k) == pc[k] = "idle" /\ k \in Calls /\ pc'[k] # "republish"
           Goes(k) == /\ job'[k] = job[k]
                      /\ pc[k] # "idle" \/ pc'[k] = "idle"
                      /\ pc'[k] = "republish" => pc[k] = "republish"
           Stays == \A k \in Jobs : Starts(k) \/ Goes(k)
<1>1. Stays => RetriesInv'
  <2> SUFFICES ASSUME Stays, NEW k \in Jobs,
                      (k \in Copies /\ pc'[k] # "idle") \/ pc'[k] = "republish"
               PROVE  request'[job'[k].tx] # "none"
    BY DEF RetriesInv
  <2>1. Goes(k)
    OBVIOUS
  <2>2. request[job[k].tx] # "none" /\ job[k].tx \in TxIds
    BY <1>0, <2>1 DEF RetriesInv
  <2> QED
    BY <2>1, <2>2, RowsStay
<1>2. CASE Aside \/ UNCHANGED vars
  <2>1. UNCHANGED <<pc, job>>
    BY <1>2
       DEF vars, Aside, StartRead, ReadStep, FindWallets, CacheWallets,
           ReadThrows, Read, ExpireRequest, ExpireWallets, CloseChannel,
           Finished
  <2> QED
    BY <1>1, <2>1
<1>3. ASSUME NEW j \in Calls,
             (\E r \in Requests : Call(j, r)) \/ CallStep(j) \/ CallThrows(j)
      PROVE  Stays /\ RetriesAreIdle'
  BY <1>3 DEF Call, CallStep, GetCache, FindRequest, SaveCache, Send, CallThrows
<1>4. CASE StartAgain
  <2>1. Stays /\ RetriesAreIdle'
    BY <1>4 DEF StartAgain, HandlerSteps, TrySteps, CatchSteps, HttpSteps
  <2> QED
    BY <1>1, <2>1
<1>5. ASSUME NEW j \in Jobs, Deliver(j) \/ HandlerStep(j) \/ Fault(j)
      PROVE  RetriesInv' /\ RetriesAreIdle'
  <2>1. ~ Fault(j)
    BY DEF StoresAnswer, Fault, HandlerThrows, TryFails, CatchThrows, ReplyLost
  <2>2. CASE Deliver(j) \/ CheckCache(j) \/ DropCache(j) \/ Ack(j)
    <3>1. Stays /\ RetriesAreIdle'
      BY <2>2 DEF Deliver, CheckCache, DropCache, Ack
    <3> QED
      BY <1>1, <3>1
  <2>3. CASE Prelog(j)
    <3>1. j \in Copies => request[job[j].tx] # "none"
      BY <2>3 DEF Prelog, RetriesInv
    <3>2. Stays /\ RetriesAreIdle'
      BY <2>3, <3>1 DEF Prelog, LogRequest, AfterPrelog
    <3> QED
      BY <1>1, <3>2
  <2>4. CASE ValidateWallet(j) \/ ReadWallets(j) \/ UpdateFrom(j) \/ UpdateTo(j)
    <3>1. Stays /\ RetriesAreIdle'
      BY <2>4 DEF ValidateWallet, ReadWallets, UpdateFrom, UpdateTo
    <3> QED
      BY <1>1, <3>1
  <2>5. CASE DeadlockAbort(j) \/ Commit(j) \/ MarkFailed(j)
    <3>1. Stays /\ RetriesAreIdle'
      BY <2>5 DEF DeadlockAbort, Commit, MarkFailed
    <3> QED
      BY <1>1, <3>1
  <2>6. CASE CacheSuccess(j) \/ Invalidate(j) \/ Notify(j)
    <3>1. Stays /\ RetriesAreIdle'
      BY <2>6 DEF CacheSuccess, Invalidate, Notify
    <3> QED
      BY <1>1, <3>1
  <2>7. CASE CacheFailed(j)
    <3>1. request[job[j].tx] # "none"
      BY <2>7 DEF CacheFailed, StatusInv, OwnerDecides
    <3> QED
      BY <1>0, <2>7, <3>1 DEF CacheFailed, RetriesInv
  <2>8. CASE Republish(j)
    <3>1. request[job[j].tx] # "none"
      BY <2>8 DEF Republish, RetriesInv
    <3> QED
      BY <1>0, <2>8, <3>1 DEF Republish, RetriesInv
  <2>9. CASE AckThrows(j)
    BY <1>4, <2>9 DEF AckThrows
  <2> QED
    BY <1>5, <2>1, <2>2, <2>3, <2>4, <2>5, <2>6, <2>7, <2>8, <2>9
       DEF HandlerStep
<1> QED
  BY <1>1, <1>2, <1>3, <1>4, <1>5 DEF Next, Aside, Restart

(* The README's retry logic for transient failures retries in vain: a      *)
(* message is published again when its request has failed, and its handler *)
(* never gets past the prelog again.                                       *)
THEOREM RetriesNeverTry ==
    ASSUME StoresAnswer
    PROVE  Spec => []RetriesAreIdle
<1>1. Init => RetriesInv /\ RetriesAreIdle
  BY DEF Init, StoreInit, RetriesInv, RetriesAreIdle, OwnerSteps, BeforeCommit,
         AfterCommit, TxSteps
<1>2. /\ IInv /\ StatusInv /\ RetriesInv /\ RetriesAreIdle
      /\ [Next]_vars
      => RetriesInv' /\ RetriesAreIdle'
  BY NextRetries
<1> QED
  BY <1>1, <1>2, Invariance, StatusInvariance, PTL DEF Spec

(* A request whose handler died while it was pending is never decided: the *)
(* message is delivered again, but the unique key turns its handler away.  *)
THEOREM OrphansNeverDecided ==
    ASSUME StoresAnswer
    PROVE  Spec => OrphansStay
<1> DEFINE Stay == \A t \in TxIds : Orphaned(t) => Orphaned(t)'
<1>1. IInv /\ StatusInv /\ [Next]_vars => [Stay]_vars
  <2> SUFFICES ASSUME IInv, StatusInv, [Next]_vars,
                      NEW t \in TxIds, Orphaned(t)
               PROVE  Orphaned(t)'
    OBVIOUS
  <2> USE DEF Orphaned, TxOf, IInv, TypeOK, StoreTypeOK, PendingSteps,
              BeforeCommit, TxSteps
  <2>1. CASE Tame
    BY <2>1 DEF Tame, DecidingSteps, DecidedSteps, AfterCommit
  <2>2. ASSUME NEW j \in Jobs, Prelog(j)
        PROVE  Orphaned(t)'
    BY <2>2 DEF Prelog, LogRequest, AfterPrelog, Handler, Go
  <2>3. ASSUME NEW j \in Jobs, Commit(j) \/ MarkFailed(j)
        PROVE  Orphaned(t)'
    <3>1. pc[j] \in {"commit", "markFailed"} /\ job[j].tx # t
      BY <2>3 DEF Commit, MarkFailed, Handler
    <3> QED
      BY <2>3, <3>1 DEF Commit, Apply, MarkFailed, FailRequest, Leave, Go
  <2> QED
    BY <2>1, <2>2, <2>3, NextAnswered
<1> QED
  BY <1>1, Invariance, StatusInvariance, PTL DEF Spec, OrphansStay
=============================================================================
