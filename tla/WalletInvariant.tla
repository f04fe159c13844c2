-------------------------- MODULE WalletInvariant --------------------------
(***************************************************************************)
(* The inductive invariant behind the safety properties of WalletSystem.   *)
(* It holds whatever fails, so it says little of WalletRequest.status,     *)
(* which failures corrupt: what protects the money is the existence of the *)
(* row, the version of a wallet and the row locks.                         *)
(***************************************************************************)
EXTENDS WalletSystem

(* The steps of the one handler that got past the unique key of its txId.  *)
BeforeCommit == {"validate"} \cup TxSteps
AfterCommit  == {"cacheSuccess", "invalidate", "notify"}
OwnerSteps   == BeforeCommit \cup AfterCommit

(* A job that has started has a body.                                      *)
Bodies == \A j \in Jobs : pc[j] # "idle" => job[j] \in Requests

(* One handler of a txId at a time is past the prelog.                     *)
OneOwner ==
    \A j, k \in Jobs :
        /\ pc[j] \in OwnerSteps
        /\ pc[k] \in OwnerSteps
        /\ TxOf(j) = TxOf(k)
        => j = k

(* It has logged the request, and settles it when it commits.              *)
OwnerLogged ==
    \A j \in Jobs :
        /\ pc[j] \in OwnerSteps => request[TxOf(j)] # "none"
        /\ pc[j] \in BeforeCommit => ~ Settled(TxOf(j))
        /\ pc[j] \in AfterCommit => Settled(TxOf(j))

(* A settled request has been logged, so nobody gets past the prelog again *)
(* with its txId.                                                          *)
SettledLogged == \A t \in TxIds : Settled(t) => request[t] # "none"

(* The owner announces as its last step, when nobody has announced before. *)
Announced ==
    \A t \in TxIds :
        notices[t] > 0 =>
            /\ notices[t] = 1
            /\ Settled(t)
            /\ \A j \in Jobs : pc[j] \in OwnerSteps => TxOf(j) # t

(* What a transaction read stays good as long as the version is the same.  *)
SnapshotsHold ==
    \A j \in Jobs :
        pc[j] \in {"updateFrom", "updateTo", "commit"} =>
            /\ Valid(job[j])
            /\ snap[j].from <= version[From(j)]
            /\ snap[j].to <= version[To(j)]
            /\ To(j) = From(j) => snap[j].to = snap[j].from
            /\ Debits(job[j]) /\ snap[j].from = version[From(j)]
                 => balance[From(j)] >= job[j].amount

(* A lock is taken on the version read, and only a transfer takes two.     *)
LocksHoldVersions ==
    \A j \in Jobs :
        /\ pc[j] \in {"updateTo", "commit"} =>
              snap[j].from = version[From(j)]
        /\ pc[j] = "commit" =>
              /\ snap[j].to = version[To(j)]
              /\ KindOf(j) = "transfer" => To(j) # From(j)

(* Two transactions never hold the lock of one row.                        *)
LocksExclude ==
    \A j, k \in Jobs : \A w \in Wallets :
        Holds(j, w) /\ Holds(k, w) => j = k

IInv ==
    /\ TypeOK
    /\ SuccessMeansMoved
    /\ Bodies
    /\ OneOwner
    /\ OwnerLogged
    /\ SettledLogged
    /\ Announced
    /\ SnapshotsHold
    /\ LocksHoldVersions
    /\ LocksExclude

-----------------------------------------------------------------------------
(***************************************************************************)
(* While the stores answer, WalletRequest.status and its copies in Redis   *)
(* can be trusted, too.  Crashes and the broker do them no harm.           *)
(***************************************************************************)
StoresAnswer == Faults \cap {"redis", "db"} = {}

(* The steps at which the owner of a txId finds its row pending; markFailed *)
(* and cacheFailed are steps of the owner when the stores answer.          *)
PendingSteps == BeforeCommit \cup {"markFailed"}
DecidedSteps == AfterCommit \cup {"cacheFailed"}

(* The owner remains the only one until it has given up.                   *)
OneDecides ==
    \A j, k \in Jobs :
        /\ pc[j] \in PendingSteps \cup DecidedSteps
        /\ pc[k] \in PendingSteps \cup DecidedSteps
        /\ TxOf(j) = TxOf(k)
        => j = k

(* The row says how far its owner is.                                      *)
OwnerDecides ==
    \A j \in Jobs :
        /\ pc[j] \in PendingSteps =>
              request[TxOf(j)] = "pending" /\ ~ Settled(TxOf(j))
        /\ pc[j] \in AfterCommit => request[TxOf(j)] = "success"
        /\ pc[j] = "cacheFailed" => request[TxOf(j)] = "failed"

(* A call may cache a status that is no longer pending as pending, but     *)
(* never a wrong final one.                                                *)
SeenTruthful ==
    \A j \in Calls :
        pc[j] = "saveCache" /\ seen[j] \in Final => seen[j] = request[TxOf(j)]

StatusInv ==
    /\ OneDecides
    /\ OwnerDecides
    /\ SeenTruthful
    /\ FailedMeansUnmoved
    /\ CacheTruthful

(* Retrying is in vain: a message is published again only when the row of  *)
(* its txId exists, so its handler never gets past the prelog.             *)
RetriesAreIdle == \A k \in Copies : pc[k] \notin OwnerSteps

RetriesInv ==
    \A j \in Jobs :
        (j \in Copies /\ pc[j] # "idle") \/ pc[j] = "republish" =>
            request[TxOf(j)] # "none"

-----------------------------------------------------------------------------
(***************************************************************************)
(* What the README means by a consistent order of locks: there is a rank   *)
(* of the wallets that every transfer to another wallet climbs.            *)
(***************************************************************************)
Ordered(rank) ==
    /\ rank \in [Wallets -> Nat]
    /\ \A r \in Requests :
         r.kind = "transfer" /\ Valid(r) /\ r.toWallet # r.wallet
             => rank[r.wallet] < rank[r.toWallet]

(* Only transfers make a second update.                                    *)
SecondUpdates == \A j \in Jobs : pc[j] = "updateTo" => KindOf(j) = "transfer"

-----------------------------------------------------------------------------
(***************************************************************************)
(* While nothing fails at all, and every request could be paid alone,      *)
(* somebody is trying as long as nothing has settled.                      *)
(***************************************************************************)
EachCanBePaid ==
    \A r \in Requests :
        /\ Valid(r)
        /\ Debits(r) => InitialBalance[r.wallet] >= r.amount
        /\ r.kind = "transfer" => r.toWallet # r.wallet

ChannelsOpen == \A c \in Channels : channel[c] = "open"

(* Without a row no balance and no version has changed, so no handler can  *)
(* find a conflict or a lack of funds.                                     *)
NothingMoved ==
    ledger = {} => /\ balance = InitialBalance
                   /\ \A w \in Wallets : version[w] = 0

(* Of the handlers in a circular wait only one at a time gives up.         *)
SomebodyTries ==
    \/ ledger # {}
    \/ \A t \in TxIds : request[t] = "none"
    \/ \E j \in Jobs : pc[j] \in BeforeCommit

(* A message that was queued is on its way, or its txId has been logged.   *)
QueuedIsKept ==
    \A j \in Jobs :
        reply[j] = "queued" =>
            /\ pc[j] \notin {"idle"} \cup HttpSteps
            /\ \/ pc[j] \in {"ready", "checkCache", "dropCache", "prelog"}
               \/ request[TxOf(j)] # "none"

ConflictInv ==
    /\ ChannelsOpen
    /\ NothingMoved
    /\ SomebodyTries
    /\ QueuedIsKept
=============================================================================
