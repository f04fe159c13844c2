---------------------------- MODULE WalletStore ----------------------------
(***************************************************************************)
(* The state the asynchronous wallet operations share: the MySQL tables,   *)
(* the Redis keys, the RabbitMQ messages with the handlers that run them,  *)
(* and the two channels of the process.                                    *)
(*                                                                         *)
(* A job is one HTTP call together with the message it publishes: while    *)
(* the call runs, the handler of the message has not started.  Calls are   *)
(* the calls clients make; Copies are the messages a consumer publishes    *)
(* again after a failed attempt.  Every handler runs concurrently with     *)
(* every other one: the consumers set no prefetch limit.                   *)
(***************************************************************************)
EXTENDS WalletRequests, FiniteSets

CONSTANTS
    Calls,      \* HTTP calls: a bound on how many the clients make
    Copies,     \* a bound on how many messages are published again
    Readers,    \* concurrent calls of getUserWallets
    Faults,     \* which of FaultKinds may happen
    NoRequest,  \* the body of a job that has not started
    NoView      \* an absent user_wallets key

Jobs       == Calls \cup Copies
FaultKinds == {"redis", "db", "broker", "crash"}
Statuses   == {"pending", "success", "failed"}
Final      == {"success", "failed"}
Channels   == {"api", "jobs"}

ASSUME JobsAssumption ==
    /\ Calls \cap Copies = {}
    /\ Faults \subseteq FaultKinds
    /\ NoRequest \notin Requests

VARIABLES
    balance,       \* Wallet.balance
    version,       \* Wallet.version
    ledger,        \* the Transaction rows
    request,       \* WalletRequest.status by txId, "none" without a row
    requestCache,  \* the status in wallet_request:<txId>, "none" without a key
    walletsCache,  \* user_wallets:<userId>
    notices,       \* notification messages published for a txId
    channel,       \* the AMQP channels of WalletsModule and RabbitMQModule
    pc,            \* where a job is
    job,           \* its body
    attempts,      \* the x-attempts header of its message
    seen,          \* the WalletRequest status fundWallet & co. found
    snap,          \* the wallets as its database transaction read them
    reply,         \* what its HTTP call answered
    reader         \* the running calls of getUserWallets

tables   == <<balance, version, ledger, request>>
keys     == <<requestCache, walletsCache>>
messages == <<job, attempts, seen, snap>>
vars     == <<tables, keys, notices, channel, pc, messages, reply, reader>>

-----------------------------------------------------------------------------
(* Types.                                                                  *)

HttpSteps    == {"getCache", "findRequest", "saveCache", "send"}
TxSteps      == {"readWallets", "updateFrom", "updateTo", "commit"}
TrySteps     == {"checkCache", "dropCache", "prelog", "validate"} \cup TxSteps
                \cup {"cacheSuccess", "invalidate", "notify"}
CatchSteps   == {"markFailed", "cacheFailed"}
HandlerSteps == TrySteps \cup CatchSteps \cup {"republish", "ack"}
RestSteps    == {"idle", "answered", "ready", "held", "acked"}

(* user_wallets:<u>: the user's rows, each told by its version.            *)
WalletsOf(u) == {w \in Wallets : Owner[w] = u}
Views        == UNION {[WalletsOf(u) -> Nat] : u \in Users}

(* A transaction keeps, of the rows it read, what its checks and its       *)
(* conditional updates use.                                                *)
Snapshots == [from : Nat, to : Nat]
NoSnap    == [from |-> 0, to |-> 0]

NotReading   == [step |-> "idle"]
ReaderStates == {NotReading} \cup [step : {"find"}, user : Users]
                \cup [step : {"cache"}, user : Users, view : Views]

StoreTypeOK ==
    /\ balance \in [Wallets -> Int]
    /\ version \in [Wallets -> Nat]
    /\ ledger \subseteq EntryType
    /\ request \in [TxIds -> Statuses \cup {"none"}]
    /\ requestCache \in [TxIds -> Statuses \cup {"none"}]
    /\ walletsCache \in [Users -> Views \cup {NoView}]
    /\ notices \in [TxIds -> Nat]
    /\ channel \in [Channels -> {"open", "closed"}]
    /\ pc \in [Jobs -> HttpSteps \cup HandlerSteps \cup RestSteps]
    /\ job \in [Jobs -> Requests \cup {NoRequest}]
    /\ attempts \in [Jobs -> 0..2]
    /\ seen \in [Jobs -> Statuses \cup {"none"}]
    /\ snap \in [Jobs -> Snapshots]
    /\ reply \in [Jobs -> {"none", "queued", "duplicate", "error"}]
    /\ reader \in [Readers -> ReaderStates]

-----------------------------------------------------------------------------
(* Helpers.                                                                *)

Settled(tx) == \E e \in ledger : e.tx = tx

TxOf(j)   == job[j].tx
From(j)   == job[j].wallet
To(j)     == job[j].toWallet
KindOf(j) == job[j].kind

(* Job j, and no other, moves to step s.                                   *)
Go(j, s) == pc' = [pc EXCEPT ![j] = s]

(* Mutant: the transaction reads its wallets with shared locks.            *)
HoldsSinceRead(j, w) == /\ pc[j] \in {"updateFrom", "updateTo", "commit"}
                        /\ w \in {From(j), To(j)}

(***************************************************************************)
(* Row locks.  InnoDB gives a transaction the lock of a row when it        *)
(* updates the row and keeps it until the transaction ends.                *)
(***************************************************************************)
Holds(j, w) == \/ pc[j] = "updateTo" /\ w = From(j)
               \/ pc[j] = "commit" /\ w \in {From(j), To(j)}

Free(j, w) == \A k \in Jobs \ {j} : ~ Holds(k, w)

WaitsFor(j, k) ==
    /\ j # k
    /\ \/ pc[j] = "updateFrom" /\ Holds(k, From(j))
       \/ pc[j] = "updateTo" /\ Holds(k, To(j))

(* j is one of a set of jobs each of which waits for another one of them.  *)
InWaitCycle(j) ==
    \E S \in SUBSET Jobs :
        /\ j \in S
        /\ \A k \in S : /\ \E l \in S : WaitsFor(k, l)
                        /\ \E l \in S : WaitsFor(l, k)

(* What getUserWallets finds for user u.                                   *)
CurrentView(u) == [w \in WalletsOf(u) |-> version[w]]

StoreInit ==
    /\ balance = InitialBalance
    /\ version = [w \in Wallets |-> 0]
    /\ ledger = {}
    /\ request = [t \in TxIds |-> "none"]
    /\ requestCache = [t \in TxIds |-> "none"]
    /\ walletsCache = [u \in Users |-> NoView]
    /\ notices = [t \in TxIds |-> 0]
    /\ channel = [c \in Channels |-> "open"]
    /\ pc = [j \in Jobs |-> "idle"]
    /\ job = [j \in Jobs |-> NoRequest]
    /\ attempts = [j \in Jobs |-> 0]
    /\ seen = [j \in Jobs |-> "none"]
    /\ snap = [j \in Jobs |-> NoSnap]
    /\ reply = [j \in Jobs |-> "none"]
    /\ reader = [d \in Readers |-> NotReading]
=============================================================================
