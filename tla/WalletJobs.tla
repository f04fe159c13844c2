----------------------------- MODULE WalletJobs -----------------------------
(***************************************************************************)
(* The consumer side: RabbitMQService.consume and the handlers of          *)
(* WalletFundingProcessor, WalletWithdrawalProcessor and                   *)
(* WalletTransferProcessor, one action per awaited call.  The three        *)
(* handlers share their skeleton, so they share their actions here; where  *)
(* one of them does something else, the action says so.                    *)
(***************************************************************************)
EXTENDS WalletStore

(* Job j leaves its database transaction (or never was in one) for step s. *)
Leave(j, s) == /\ Go(j, s)
               /\ snap' = [snap EXCEPT ![j] = NoSnap]

(* A step of the handler of job j, at s; readers and calls do not move.    *)
Handler(j, s) ==
    /\ pc[j] = s
    /\ UNCHANGED <<seen, reply, reader>>

(* RabbitMQ hands the message to the consumer of its queue.                *)
Deliver(j) ==
    /\ Handler(j, "ready")
    /\ channel["jobs"] = "open"
    /\ Go(j, "checkCache")
    /\ UNCHANGED <<tables, keys, notices, channel, job, attempts, snap>>

(* Mutant: a redelivered message is announced again.                       *)
CheckCacheAnnounces(j) ==
    /\ Handler(j, "checkCache")
    /\ Go(j, IF requestCache[TxOf(j)] \in Final THEN "notify" ELSE "prelog")
    /\ UNCHANGED <<tables, keys, notices, channel, job, attempts, snap>>

(* A final status ends the handler; a pending one is deleted.              *)
CheckCache(j) ==
    /\ Handler(j, "checkCache")
    /\ LET status == requestCache[TxOf(j)]
       IN  \/ status \in Final   /\ Go(j, "held")
           \/ status = "pending" /\ Go(j, "dropCache")
           \/ status = "none"    /\ Go(j, "prelog")
    /\ UNCHANGED <<tables, keys, notices, channel, job, attempts, snap>>

(* Mutant: the key is overwritten with null.                               *)
DropCacheToNull(j) ==
    /\ Handler(j, "dropCache")
    /\ requestCache' = [requestCache EXCEPT ![TxOf(j)] = NoView]
    /\ Go(j, "prelog")
    /\ UNCHANGED <<tables, walletsCache, notices, channel, job, attempts, snap>>

DropCache(j) ==
    /\ Handler(j, "dropCache")
    /\ requestCache' = [requestCache EXCEPT ![TxOf(j)] = "none"]
    /\ Go(j, "prelog")
    /\ UNCHANGED <<tables, walletsCache, notices, channel, job, attempts, snap>>

(* Only funding validates the wallet before its database transaction.      *)
AfterPrelog(j) == IF KindOf(j) = "fund" THEN "validate" ELSE "readWallets"

(* Mutant: the row is created as createWallet creates it.                  *)
LogRequestAsSuccess(j, next) ==
    /\ request[TxOf(j)] = "none"
    /\ request' = [request EXCEPT ![TxOf(j)] = "success"]
    /\ Go(j, next)

(* The unique key on txId lets one handler per txId continue.              *)
LogRequest(j, next) ==
    /\ request[TxOf(j)] = "none"
    /\ request' = [request EXCEPT ![TxOf(j)] = "pending"]
    /\ Go(j, next)

(* Mutant: an upsert, which finds nothing wrong with an existing row.      *)
PrelogUpserts(j) ==
    /\ Handler(j, "prelog")
    /\ request' = [request EXCEPT ![TxOf(j)] = "pending"]
    /\ Go(j, AfterPrelog(j))
    /\ UNCHANGED <<balance, version, ledger, keys, notices, channel, job,
                   attempts, snap>>

(* Mutant: a handler takes over a row that is still pending.               *)
PrelogResumes(j) ==
    /\ Handler(j, "prelog")
    /\ \/ LogRequest(j, AfterPrelog(j))
       \/ /\ request[TxOf(j)] # "none"
          /\ Go(j, IF request[TxOf(j)] = "pending"
                   THEN AfterPrelog(j) ELSE "held")
          /\ UNCHANGED request
    /\ UNCHANGED <<balance, version, ledger, keys, notices, channel, job,
                   attempts, snap>>

(* Mutant: P2002 is thrown like any other error.                           *)
PrelogThrows(j) ==
    /\ Handler(j, "prelog")
    /\ \/ LogRequest(j, AfterPrelog(j))
       \/ /\ request[TxOf(j)] # "none"
          /\ Go(j, "markFailed")
          /\ UNCHANGED request
    /\ UNCHANGED <<balance, version, ledger, keys, notices, channel, job,
                   attempts, snap>>

Prelog(j) ==
    /\ Handler(j, "prelog")
    /\ \/ LogRequest(j, AfterPrelog(j))
       \/ /\ request[TxOf(j)] # "none"
          /\ Go(j, "held")
          /\ UNCHANGED request
    /\ UNCHANGED <<balance, version, ledger, keys, notices, channel, job,
                   attempts, snap>>

ValidateWallet(j) ==
    /\ Handler(j, "validate")
    /\ Go(j, IF Valid(job[j]) THEN "readWallets" ELSE "markFailed")
    /\ UNCHANGED <<tables, keys, notices, channel, job, attempts, snap>>

-----------------------------------------------------------------------------
(* The database transaction.  Its reads are consistent reads of one        *)
(* snapshot (REPEATABLE READ); its updates name the version it read and    *)
(* throw when no row has it.                                               *)

(* Mutant: the funds are not checked.                                      *)
AcceptsOverdraft(j) == Valid(job[j])

(* Mutant: a wallet cannot be emptied.                                     *)
AcceptsLess(j) ==
    /\ Valid(job[j])
    /\ Debits(job[j]) => balance[From(j)] > job[j].amount

(* The checks of the wallets read, but for the funds.  A funding job has   *)
(* validated its wallet before the transaction.                            *)
Accepts(j) ==
    /\ Valid(job[j])
    /\ Debits(job[j]) => balance[From(j)] >= job[j].amount

ReadWallets(j) ==
    /\ Handler(j, "readWallets")
    /\ IF Accepts(j)
         THEN /\ snap' = [snap EXCEPT ![j] = [from |-> version[From(j)],
                                              to   |-> version[To(j)]]]
              /\ Go(j, "updateFrom")
         ELSE Leave(j, "markFailed")
    /\ UNCHANGED <<tables, keys, notices, channel, job, attempts>>

(* Mutant: the update names the id and no version.                         *)
UpdateFromUnversioned(j) ==
    /\ Handler(j, "updateFrom")
    /\ Free(j, From(j))
    /\ Go(j, IF KindOf(j) = "transfer" THEN "updateTo" ELSE "commit")
    /\ UNCHANGED <<tables, keys, notices, channel, job, attempts, snap>>

(* The first update waits for the lock of its row, then tests the version. *)
UpdateFrom(j) ==
    /\ Handler(j, "updateFrom")
    /\ Free(j, From(j))
    /\ IF version[From(j)] = snap[j].from
         THEN /\ Go(j, IF KindOf(j) = "transfer" THEN "updateTo" ELSE "commit")
              /\ UNCHANGED snap
         ELSE Leave(j, "markFailed")
    /\ UNCHANGED <<tables, keys, notices, channel, job, attempts>>

(* A transfer to the sending wallet meets the version it has just written. *)
UpdateTo(j) ==
    /\ Handler(j, "updateTo")
    /\ Free(j, To(j))
    /\ IF To(j) # From(j) /\ version[To(j)] = snap[j].to
         THEN Go(j, "commit") /\ UNCHANGED snap
         ELSE Leave(j, "markFailed")
    /\ UNCHANGED <<tables, keys, notices, channel, job, attempts>>

(* InnoDB finds a circular wait and rolls one of its transactions back.    *)
DeadlockAbort(j) ==
    /\ Handler(j, "updateTo")
    /\ InWaitCycle(j)
    /\ Leave(j, "markFailed")
    /\ UNCHANGED <<tables, keys, notices, channel, job, attempts>>

(* Mutant: the second update of a transfer forgets the version.            *)
ApplyOneVersion(j) ==
    LET r == job[j]
    IN  /\ \E fee \in Fees(r) :
             /\ balance' = [w \in Wallets |-> balance[w] + Change(r, fee, w)]
             /\ ledger' = ledger \cup Entries(r, fee)
        /\ version' = [version EXCEPT ![From(j)] = snap[j].from + 1]
        /\ request' = [request EXCEPT ![TxOf(j)] = "success"]

(***************************************************************************)
(* The effect of the transaction, all of it or nothing: the balances and   *)
(* versions, the Transaction rows, and the status of the request.  The     *)
(* unique key on Transaction.reference is not needed to state it: the      *)
(* unique key on WalletRequest.txId already keeps others away.             *)
(***************************************************************************)
Apply(j) ==
    LET r == job[j]
    IN  /\ \E fee \in Fees(r) :
             /\ balance' = [w \in Wallets |-> balance[w] + Change(r, fee, w)]
             /\ ledger' = ledger \cup Entries(r, fee)
        /\ version' = [version EXCEPT ![From(j)] = snap[j].from + 1,
                                      ![To(j)]   = snap[j].to + 1]
        /\ request' = [request EXCEPT ![TxOf(j)] = "success"]

Commit(j) ==
    /\ Handler(j, "commit")
    /\ Apply(j)
    /\ Leave(j, "cacheSuccess")
    /\ UNCHANGED <<keys, notices, channel, job, attempts>>

-----------------------------------------------------------------------------
(* After the transaction.  The appends to user:transactions:<userId> are   *)
(* not steps: they change a list only if the key exists, and no code       *)
(* creates it.  Only withdrawals and transfers invalidate user_wallets.    *)

CacheSuccess(j) ==
    /\ Handler(j, "cacheSuccess")
    /\ requestCache' = [requestCache EXCEPT ![TxOf(j)] = "success"]
    /\ Go(j, IF KindOf(j) = "fund" THEN "notify" ELSE "invalidate")
    /\ UNCHANGED <<tables, walletsCache, notices, channel, job, attempts, snap>>

(* Mutant: the handler returns once the keys are deleted.                  *)
InvalidateReturns(j) ==
    /\ Handler(j, "invalidate")
    /\ walletsCache' = [u \in Users |-> IF u \in {job[j].user, job[j].toUser}
                                        THEN NoView ELSE walletsCache[u]]
    /\ Go(j, "held")
    /\ UNCHANGED <<tables, requestCache, notices, channel, job, attempts, snap>>

Invalidate(j) ==
    /\ Handler(j, "invalidate")
    /\ walletsCache' = [u \in Users |-> IF u \in {job[j].user, job[j].toUser}
                                        THEN NoView ELSE walletsCache[u]]
    /\ Go(j, "notify")
    /\ UNCHANGED <<tables, requestCache, notices, channel, job, attempts, snap>>

(* sendToQueue swallows the error of a closed channel.  The message of a   *)
(* successful handler is never acknowledged.                               *)
Notify(j) ==
    /\ Handler(j, "notify")
    /\ notices' = IF channel["jobs"] = "open"
                  THEN [notices EXCEPT ![TxOf(j)] = @ + 1] ELSE notices
    /\ Go(j, "held")
    /\ UNCHANGED <<tables, keys, channel, job, attempts, snap>>

-----------------------------------------------------------------------------
(* The handler's catch block, and the catch block of consume.              *)

(* Mutant: only Redis is told of the failure.                              *)
FailRequestNot(j) == UNCHANGED request

(* updateMany: a request that was never logged has no row to update.       *)
FailRequest(j) ==
    request' = [request EXCEPT ![TxOf(j)] = IF @ = "none" THEN @ ELSE "failed"]

MarkFailed(j) ==
    /\ Handler(j, "markFailed")
    /\ FailRequest(j)
    /\ Go(j, "cacheFailed")
    /\ UNCHANGED <<balance, version, ledger, keys, notices, channel, job,
                   attempts, snap>>

(* The withdrawal handler swallows the error, so nothing retries it.       *)
CacheFailed(j) ==
    /\ Handler(j, "cacheFailed")
    /\ requestCache' = [requestCache EXCEPT ![TxOf(j)] = "failed"]
    /\ Go(j, IF KindOf(j) = "withdraw" THEN "held" ELSE "republish")
    /\ UNCHANGED <<tables, walletsCache, notices, channel, job, attempts, snap>>

(* A third failed attempt goes to wallet_funding_dead, which nothing       *)
(* consumes; an earlier one is queued again as a new message.              *)
Republish(j) ==
    /\ Handler(j, "republish")
    /\ \/ /\ channel["jobs"] = "closed" \/ attempts[j] >= 2
          /\ Go(j, "ack")
          /\ UNCHANGED <<job, attempts>>
       \/ /\ channel["jobs"] = "open" /\ attempts[j] < 2
          /\ \E k \in Copies :
               /\ pc[k] = "idle"
               /\ pc' = [pc EXCEPT ![j] = "ack", ![k] = "ready"]
               /\ job' = [job EXCEPT ![k] = job[j]]
               /\ attempts' = [attempts EXCEPT ![k] = attempts[j] + 1]
    /\ UNCHANGED <<tables, keys, notices, channel, snap>>

Ack(j) ==
    /\ Handler(j, "ack")
    /\ channel["jobs"] = "open"
    /\ Go(j, "acked")
    /\ UNCHANGED <<tables, keys, notices, channel, job, attempts, snap>>

-----------------------------------------------------------------------------
(* Faults.                                                                 *)

(* The steps of the handler's try block at which a store may fail it; the  *)
(* last one of a funding or a withdrawal starts with a read from Redis.    *)
TryFails(j) ==
    \/ /\ "redis" \in Faults
       /\ \/ pc[j] \in {"checkCache", "dropCache", "cacheSuccess", "invalidate"}
          \/ pc[j] = "notify" /\ KindOf(j) # "transfer"
    \/ /\ "db" \in Faults
       /\ \/ pc[j] \in {"prelog", "validate"} \cup TxSteps
          \/ pc[j] = "invalidate" /\ KindOf(j) = "transfer"

(* Mutant: the updates run outside a transaction, so the first one stays.  *)
HandlerThrowsHalfway(j) ==
    /\ TryFails(j)
    /\ Handler(j, pc[j])
    /\ balance' = IF pc[j] = "updateTo"
                  THEN [balance EXCEPT ![From(j)] = @ - job[j].amount]
                  ELSE balance
    /\ Leave(j, "markFailed")
    /\ UNCHANGED <<version, ledger, request, keys, notices, channel, job,
                   attempts>>

HandlerThrows(j) ==
    /\ TryFails(j)
    /\ Handler(j, pc[j])
    /\ Leave(j, "markFailed")
    /\ UNCHANGED <<tables, keys, notices, channel, job, attempts>>

(* The exception leaves even the withdrawal handler.                       *)
CatchThrows(j) ==
    /\ \/ pc[j] = "markFailed" /\ "db" \in Faults
       \/ pc[j] = "cacheFailed" /\ "redis" \in Faults
    /\ Handler(j, pc[j])
    /\ Go(j, "republish")
    /\ UNCHANGED <<tables, keys, notices, channel, job, attempts, snap>>

(* The database applies a write, and the connection is lost before the     *)
(* answer arrives.                                                         *)
ReplyLost(j) ==
    /\ "db" \in Faults
    /\ \/ /\ Handler(j, "prelog")
          /\ LogRequest(j, "markFailed")
          /\ UNCHANGED <<balance, version, ledger, snap>>
       \/ /\ Handler(j, "commit")
          /\ Apply(j)
          /\ Leave(j, "markFailed")
       \/ /\ Handler(j, "markFailed")
          /\ FailRequest(j)
          /\ Go(j, "republish")
          /\ UNCHANGED <<balance, version, ledger, snap>>
    /\ UNCHANGED <<keys, notices, channel, job, attempts>>

(* The broker closes a connection in good order, as it does when it shuts  *)
(* down.  The process survives, and never opens the channel again.         *)
CloseChannel(c) ==
    /\ "broker" \in Faults
    /\ channel[c] = "open"
    /\ channel' = [channel EXCEPT ![c] = "closed"]
    /\ UNCHANGED <<tables, keys, notices, pc, messages, reply, reader>>

(***************************************************************************)
(* The process dies and starts again.  Its calls end with an error, its    *)
(* database transactions are rolled back, the channels are opened, and     *)
(* the broker redelivers every message that was never acknowledged, those  *)
(* of the handlers that had finished included.                             *)
(***************************************************************************)
StartAgain ==
    /\ pc' = [k \in Jobs |->
                IF pc[k] \in HandlerSteps \cup {"held"} THEN "ready"
                ELSE IF pc[k] \in HttpSteps THEN "answered" ELSE pc[k]]
    /\ reply' = [k \in Jobs |-> IF pc[k] \in HttpSteps THEN "error"
                                ELSE reply[k]]
    /\ seen' = [k \in Jobs |-> "none"]
    /\ snap' = [k \in Jobs |-> NoSnap]
    /\ channel' = [c \in Channels |-> "open"]
    /\ reader' = [d \in Readers |-> NotReading]
    /\ UNCHANGED <<tables, keys, notices, job, attempts>>

Restart == "crash" \in Faults /\ StartAgain

(* ack throws on a closed channel; nobody catches it and the process dies. *)
AckThrows(j) ==
    /\ pc[j] = "ack"
    /\ channel["jobs"] = "closed"
    /\ StartAgain

-----------------------------------------------------------------------------
(* One step of the handler of job j, its stores answering.                 *)
HandlerStep(j) ==
    \/ CheckCache(j) \/ DropCache(j) \/ Prelog(j) \/ ValidateWallet(j)
    \/ ReadWallets(j) \/ UpdateFrom(j) \/ UpdateTo(j) \/ DeadlockAbort(j)
    \/ Commit(j) \/ CacheSuccess(j) \/ Invalidate(j) \/ Notify(j)
    \/ MarkFailed(j) \/ CacheFailed(j) \/ Republish(j) \/ Ack(j)
    \/ AckThrows(j)

Fault(j) == HandlerThrows(j) \/ CatchThrows(j) \/ ReplyLost(j)
=============================================================================
