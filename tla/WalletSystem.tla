---------------------------- MODULE WalletSystem ----------------------------
(***************************************************************************)
(* The asynchronous wallet operations as a whole: clients, the HTTP        *)
(* service, the queues, the three consumers, MySQL and Redis.              *)
(***************************************************************************)
EXTENDS WalletsService, WalletJobs

Init == StoreInit

(* Copies bounds the messages published again: a job that needs one more   *)
(* goes no further.                                                        *)
OutOfCopies(j) == pc[j] = "republish" /\ \A k \in Copies : pc[k] # "idle"

(* Every call has been answered and every message has come to rest.        *)
Finished ==
    /\ \A j \in Jobs : pc[j] \in RestSteps \ {"ready"} \/ OutOfCopies(j)
    /\ \A j \in Calls : pc[j] # "idle"
    /\ \A d \in Readers : reader[d] = NotReading
    /\ UNCHANGED vars

Next ==
    \/ \E j \in Calls, r \in Requests : Call(j, r)
    \/ \E j \in Calls : CallStep(j) \/ CallThrows(j)
    \/ \E j \in Jobs : Deliver(j) \/ HandlerStep(j) \/ Fault(j)
    \/ \E d \in Readers :
          (\E u \in Users : StartRead(d, u)) \/ ReadStep(d) \/ ReadThrows(d)
    \/ \E t \in TxIds : ExpireRequest(t)
    \/ \E u \in Users : ExpireWallets(u)
    \/ \E c \in Channels : CloseChannel(c)
    \/ Restart
    \/ Finished

Spec == Init /\ [][Next]_vars

(***************************************************************************)
(* The event loop runs every callback that is ready, the stores answer,    *)
(* and the broker delivers while the channel is open.  Nothing makes a     *)
(* client call, a fault happen or a key expire at any particular moment,   *)
(* but a key does not outlive its 300 seconds.                             *)
(***************************************************************************)
Fairness ==
    /\ \A j \in Calls : WF_vars(CallStep(j))
    /\ \A j \in Jobs : WF_vars(Deliver(j)) /\ WF_vars(HandlerStep(j))
    /\ \A d \in Readers : WF_vars(ReadStep(d))
    /\ \A u \in Users : WF_vars(ExpireWallets(u))

FairSpec == Spec /\ Fairness

-----------------------------------------------------------------------------
(* Safety.                                                                 *)

(* Every variable keeps its type.                                          *)
TypeOK == StoreTypeOK

(* No withdrawal and no transfer overdraws a wallet, however many of them  *)
(* read the same balance before one updates it: the version each has read  *)
(* stands between the check of the funds and the decrement.  A funding may *)
(* overdraw one, since its amount may be negative and nobody checks the    *)
(* funds, so the step that leaves a wallet poorer and in debt is one that  *)
(* adds a deposit.                                                         *)
Deposits(rows, w) == {e \in rows : e.wallet = w /\ e.type = "DEPOSIT"}

DebitsArePaid ==
    [][\A w \in Wallets :
          balance'[w] < balance[w] /\ balance'[w] < 0 =>
              Deposits(ledger', w) # Deposits(ledger, w)]_vars

(* What the README calls atomic transfers and idempotency: every step      *)
(* settles one request that had not settled before, wholly, on valid       *)
(* wallets that can pay, or leaves balances and Transaction rows alone.    *)
Ledger == INSTANCE WalletLedger WITH balance <- balance, ledger <- ledger

ImplementsLedger == Ledger!LSpec

(* Every balance is the initial one plus the wallet's Transaction rows, so *)
(* the rows can be replayed to audit it.                                   *)
Reconciled == Ledger!Reconciled

(* Two bodies that carry one txId never both settle, and neither settles   *)
(* in part: the rows of a txId are those of one request.                   *)
SettledWhole == Ledger!SettledWhole

(* The database transaction and the row locks keep versions and rows in    *)
(* step: a wallet's version is the number of its Transaction rows.         *)
VersionCountsRows ==
    \A w \in Wallets : version[w] = Cardinality({e \in ledger : e.wallet = w})

(* A request marked failed has moved no money.                             *)
FailedMeansUnmoved == \A t \in TxIds : request[t] = "failed" => ~ Settled(t)

(* A request marked successful has settled.                                *)
SuccessMeansMoved == \A t \in TxIds : request[t] = "success" => Settled(t)

(* A final status in Redis is the status in the database, whatever order   *)
(* handlers, duplicate calls and expiries write the key in.                *)
CacheTruthful ==
    \A t \in TxIds : requestCache[t] \in Final => requestCache[t] = request[t]

(* The statuses clients are told never change once they are final.         *)
StatusFinal ==
    [][\A t \in TxIds : request[t] \in Final => request'[t] = request[t]]_vars

(* The handler that logs a request is the only one that ever decides it:   *)
(* when it dies before it has, the message is delivered again, but the     *)
(* unique key turns the new handler away, and nobody settles or fails the  *)
(* request behind the client's back.                                       *)
Orphaned(t) ==
    /\ request[t] = "pending"
    /\ \A j \in Jobs :
          pc[j] \in {"validate", "markFailed"} \cup TxSteps => TxOf(j) # t

OrphansStay == [][\A t \in TxIds : Orphaned(t) => Orphaned(t)']_vars

(* Only a settled request is announced, and only once, although messages   *)
(* are redelivered and published again.                                    *)
NotifiedOnce ==
    \A t \in TxIds : notices[t] > 0 => notices[t] = 1 /\ Settled(t)

(* The README: wallets are always locked in a consistent order to avoid    *)
(* circular waits.                                                         *)
NoCircularWait == \A j \in Jobs : ~ InWaitCycle(j)

(* A message published again is processed again: its handler does not give *)
(* it up while the request has not settled.  The README: retry logic is    *)
(* implemented for transient failures.  (A withdrawal is held when it      *)
(* fails, too, so there the step says nothing.)                            *)
RetriesAreProcessed ==
    \A k \in Copies :
        pc[k] = "held" /\ KindOf(k) # "withdraw" => Settled(TxOf(k))

(* Conflicting requests cannot all fail: as the first to commit finds the  *)
(* versions it has read, and a circular wait costs one victim at a time,   *)
(* once every message has come to rest some request has settled.  (This    *)
(* is about instances in which each request alone could be paid.)          *)
SomeConflictWins ==
    /\ \A j \in Jobs : pc[j] \in RestSteps \ {"ready"}
    /\ \E j \in Calls : reply[j] = "queued"
    => \E t \in TxIds : Settled(t)

-----------------------------------------------------------------------------
(* Liveness.                                                               *)

(* A logged request is decided, once the process stops dying.              *)
PendingIsDecided ==
    <>[][~ Restart]_vars =>
        \A t \in TxIds : request[t] = "pending" ~> request[t] \in Final

(* Once a client is told "queued", some handler marks its txId successful  *)
(* or failed.                                                              *)
QueuedIsDecided ==
    \A t \in TxIds :
        (\E j \in Calls : reply[j] = "queued" /\ TxOf(j) = t)
            ~> request[t] \in Final

(* A settled request is announced.                                         *)
SettledIsNotified == \A t \in TxIds : Settled(t) ~> notices[t] > 0

(* Stale user_wallets keys, left by a funding or by a reader that was      *)
(* overtaken by a commit, do not last: once there is nothing to settle any *)
(* more, the lists become and stay what the database has, although clients *)
(* never cease to read them.                                               *)
Stale(u) == walletsCache[u] # NoView /\ walletsCache[u] # CurrentView(u)

ViewsSettle == <>[](\A u \in Users : ~ Stale(u))

(* The README: the cache is invalidated immediately after changes, to keep *)
(* cache and database consistent.  A user notified of every settlement of  *)
(* theirs finds their wallets as the database has them.                    *)
InFlight(u) ==
    \E j \in Jobs : /\ pc[j] \in {"cacheSuccess", "invalidate", "notify"}
                    /\ u \in {job[j].user, job[j].toUser}

ViewFresh == \A u \in Users : InFlight(u) \/ ~ Stale(u)
=============================================================================
