--------------------------- MODULE WalletCreation ---------------------------
(***************************************************************************)
(* WalletsService.createWallet: unlike the other wallet operations it uses *)
(* no queue and no database transaction.  Its checks, its two inserts and  *)
(* its two writes to Redis are separate awaited calls, one action each,    *)
(* and any number of calls run at once, with getUserWallets filling the    *)
(* list that createWallet edits.                                           *)
(***************************************************************************)
EXTENDS Naturals

CONSTANTS
    Users,
    Currencies,
    TxIds,
    Calls,     \* calls of createWallet: a bound on how many clients make
    Readers,   \* concurrent calls of getUserWallets
    Faults,    \* which of FaultKinds may happen
    NoList     \* an absent user_wallets key

FaultKinds == {"redis", "db", "crash"}

ASSUME CreationAssumption ==
    /\ Faults \subseteq FaultKinds
    /\ NoList \notin [Calls -> Nat]

Bodies == [user : Users, currency : Currencies, tx : TxIds]

VARIABLES
    wallets,       \* the rows of Wallet, each named by the call that made it
    request,       \* WalletRequest.status by txId, one of Statuses
    requestCache,  \* the txIds whose wallet_request key says "success"
    walletsCache,  \* user_wallets:<userId>
    body,          \* the body of each call, chosen once for all
    pc,            \* where a call is
    list,          \* the list a call has read from user_wallets
    reply,         \* what a call answered
    reader         \* the running calls of getUserWallets

tables == <<wallets, request>>
keys   == <<requestCache, walletsCache>>
calls  == <<body, pc, list, reply>>
vars   == <<tables, keys, calls, reader>>

-----------------------------------------------------------------------------
(* Types.                                                                  *)

(* "none" is the absence of a row.  createWallet tells pending from failed *)
(* neither in the row nor in the key, nor a key that says either from no   *)
(* key; a failed row that becomes successful is a pending one.             *)
Statuses == {"none", "success", "pending or failed"}

RedisSteps == {"getCache", "saveCache", "cacheRequest", "getList", "setList"}
DbSteps    == {"findRequest", "findWallet", "create", "logRequest"}
CallSteps  == RedisSteps \cup DbSteps \cup {"notify"}

(* A list of wallets: how often each of them is in it.                     *)
Lists == [Calls -> Nat]

NotReading   == [step |-> "idle"]
ReaderStates == {NotReading} \cup [step : {"find"}, user : Users]
                \cup [step : {"cache"}, user : Users, list : Lists]

TypeOK ==
    /\ wallets \subseteq Calls
    /\ request \in [TxIds -> Statuses]
    /\ requestCache \subseteq TxIds
    /\ walletsCache \in [Users -> Lists \cup {NoList}]
    /\ body \in [Calls -> Bodies]
    /\ pc \in [Calls -> {"idle", "answered"} \cup CallSteps]
    /\ list \in [Calls -> Lists \cup {NoList}]
    /\ reply \in [Calls -> {"none", "created", "conflict", "error"}]
    /\ reader \in [Readers -> ReaderStates]

-----------------------------------------------------------------------------
(* Helpers.                                                                *)

TxOf(c)   == body[c].tx
UserOf(c) == body[c].user

SameWallet(b, c) == /\ body[b].user = body[c].user
                    /\ body[b].currency = body[c].currency

(* The user has a wallet in the currency of call c.                        *)
Exists(c) == \E b \in wallets : SameWallet(b, c)

(* What getUserWallets finds for user u: each of the user's rows, once.    *)
ListOf(u) == [b \in Calls |-> IF b \in wallets /\ UserOf(b) = u THEN 1 ELSE 0]

Go(c, s) == pc' = [pc EXCEPT ![c] = s]

(* The call ends and answers a.                                            *)
Answer(c, a) == /\ Go(c, "answered")
                /\ reply' = [reply EXCEPT ![c] = a]
                /\ list' = [list EXCEPT ![c] = NoList]

(* The call goes on with step s.                                           *)
Continue(c, s) == Go(c, s) /\ UNCHANGED <<list, reply>>

(* A step of call c, at s.                                                 *)
At(c, s) == pc[c] = s /\ UNCHANGED <<body, reader>>

Init ==
    /\ wallets = {}
    /\ request = [t \in TxIds |-> "none"]
    /\ requestCache = {}
    /\ walletsCache = [u \in Users |-> NoList]
    /\ body \in [Calls -> Bodies]
    /\ pc = [c \in Calls |-> "idle"]
    /\ list = [c \in Calls |-> NoList]
    /\ reply = [c \in Calls |-> "none"]
    /\ reader = [d \in Readers |-> NotReading]

-----------------------------------------------------------------------------
(* createWallet.                                                           *)

Call(c) ==
    /\ At(c, "idle")
    /\ Continue(c, "getCache")
    /\ UNCHANGED <<tables, keys>>

(* Only a successful request is a duplicate; a failed or a pending one is  *)
(* not, although its row will keep this call from logging its own.         *)
GetCache(c) ==
    /\ At(c, "getCache")
    /\ IF TxOf(c) \in requestCache THEN Answer(c, "conflict")
                                            ELSE Continue(c, "findRequest")
    /\ UNCHANGED <<tables, keys>>

FindRequest(c) ==
    /\ At(c, "findRequest")
    /\ Continue(c, IF request[TxOf(c)] = "success" THEN "saveCache"
                                                   ELSE "findWallet")
    /\ UNCHANGED <<tables, keys>>

SaveCache(c) ==
    /\ At(c, "saveCache")
    /\ requestCache' = requestCache \cup {TxOf(c)}
    /\ Answer(c, "conflict")
    /\ UNCHANGED <<tables, walletsCache>>

(* Mutant: the list is updated before there is a wallet to show.           *)
FindWalletLists(c) ==
    /\ At(c, "findWallet")
    /\ \/ /\ Exists(c)
          /\ Answer(c, "conflict")
          /\ UNCHANGED walletsCache
       \/ /\ ~ Exists(c)
          /\ Continue(c, "create")
          /\ walletsCache' = [walletsCache EXCEPT ![UserOf(c)] =
                IF @ = NoList THEN NoList ELSE [@ EXCEPT ![c] = 1]]
    /\ UNCHANGED <<tables, requestCache>>

FindWallet(c) ==
    /\ At(c, "findWallet")
    /\ IF Exists(c) THEN Answer(c, "conflict") ELSE Continue(c, "create")
    /\ UNCHANGED <<tables, keys>>

(* Mutant: the Wallet table before its migration, with no unique key.      *)
InsertWalletAnyway(c) == wallets' = wallets \cup {c}

(* The unique key on (userId, currency) is what two calls that both passed *)
(* FindWallet meet.                                                        *)
InsertWallet(c) == ~ Exists(c) /\ wallets' = wallets \cup {c}

(* Mutant: the request is cached before it is logged.                      *)
CreateWalletCaches(c) ==
    /\ At(c, "create")
    /\ \/ /\ InsertWallet(c)
          /\ requestCache' = requestCache \cup {TxOf(c)}
          /\ Continue(c, "logRequest")
       \/ Exists(c) /\ Answer(c, "error") /\ UNCHANGED <<wallets, requestCache>>
    /\ UNCHANGED <<request, walletsCache>>

CreateWallet(c) ==
    /\ At(c, "create")
    /\ \/ InsertWallet(c) /\ Continue(c, "logRequest")
       \/ Exists(c) /\ Answer(c, "error") /\ UNCHANGED wallets
    /\ UNCHANGED <<request, keys>>

(* Mutant: an upsert, which meets no unique key.                           *)
UpsertRequest(c) == request' = [request EXCEPT ![TxOf(c)] = "success"]

(* Mutant: a status that nothing else in the program knows.                *)
InsertRequestCreated(c) ==
    /\ request[TxOf(c)] = "none"
    /\ request' = [request EXCEPT ![TxOf(c)] = "created"]

InsertRequest(c) ==
    /\ request[TxOf(c)] = "none"
    /\ request' = [request EXCEPT ![TxOf(c)] = "success"]

(* The wallet stays when the unique key on txId rejects the request.       *)
LogRequest(c) ==
    /\ At(c, "logRequest")
    /\ \/ InsertRequest(c) /\ Continue(c, "cacheRequest")
       \/ /\ request[TxOf(c)] # "none"
          /\ Answer(c, "error")
          /\ UNCHANGED request
    /\ UNCHANGED <<wallets, keys>>

CacheRequest(c) ==
    /\ At(c, "cacheRequest")
    /\ requestCache' = requestCache \cup {TxOf(c)}
    /\ Continue(c, "notify")
    /\ UNCHANGED <<tables, walletsCache>>

(* sendToQueue never throws; ActivityLog has what becomes of the message.  *)
Notify(c) ==
    /\ At(c, "notify")
    /\ Continue(c, "getList")
    /\ UNCHANGED <<tables, keys>>

GetList(c) ==
    /\ At(c, "getList")
    /\ \/ /\ walletsCache[UserOf(c)] = NoList
          /\ Answer(c, "created")
       \/ /\ walletsCache[UserOf(c)] # NoList
          /\ list' = [list EXCEPT ![c] = walletsCache[UserOf(c)]]
          /\ Go(c, "setList")
          /\ UNCHANGED reply
    /\ UNCHANGED <<tables, keys>>

(* The wallet goes on top of the list that was read, whether or not that   *)
(* list has it already, and whatever the key holds by now.                 *)
SetList(c) ==
    /\ At(c, "setList")
    /\ walletsCache' = [walletsCache EXCEPT ![UserOf(c)] =
                            [list[c] EXCEPT ![c] = @ + 1]]
    /\ Answer(c, "created")
    /\ UNCHANGED <<tables, requestCache>>

CallStep(c) ==
    \/ GetCache(c) \/ FindRequest(c) \/ SaveCache(c) \/ FindWallet(c)
    \/ CreateWallet(c) \/ LogRequest(c) \/ CacheRequest(c) \/ Notify(c)
    \/ GetList(c) \/ SetList(c)

-----------------------------------------------------------------------------
(* getUserWallets.                                                         *)

Reading(d, s) == /\ reader[d].step = s
                 /\ UNCHANGED <<tables, requestCache, calls>>

StartRead(d, u) ==
    /\ Reading(d, "idle")
    /\ walletsCache[u] = NoList
    /\ reader' = [reader EXCEPT ![d] = [step |-> "find", user |-> u]]
    /\ UNCHANGED walletsCache

FindWallets(d) ==
    /\ Reading(d, "find")
    /\ LET u == reader[d].user
       IN  reader' = [reader EXCEPT ![d] =
                        [step |-> "cache", user |-> u, list |-> ListOf(u)]]
    /\ UNCHANGED walletsCache

CacheWallets(d) ==
    /\ Reading(d, "cache")
    /\ walletsCache' =
         [walletsCache EXCEPT ![reader[d].user] = reader[d].list]
    /\ reader' = [reader EXCEPT ![d] = NotReading]

ReadThrows(d) ==
    /\ \/ Reading(d, "find") /\ "db" \in Faults
       \/ Reading(d, "cache") /\ "redis" \in Faults
    /\ reader' = [reader EXCEPT ![d] = NotReading]
    /\ UNCHANGED walletsCache

ReadStep(d) == FindWallets(d) \/ CacheWallets(d)

-----------------------------------------------------------------------------
(* What the rest of the program does to the state of createWallet.         *)

Elsewhere == UNCHANGED <<wallets, calls, reader>>

(* Mutant: the key is stored without EX.                                   *)
ExpireListNever(u) == u \notin Users /\ UNCHANGED vars

(* The key expires, or the handler of a withdrawal or transfer deletes it. *)
ExpireList(u) ==
    /\ walletsCache[u] # NoList
    /\ walletsCache' = [walletsCache EXCEPT ![u] = NoList]
    /\ Elsewhere
    /\ UNCHANGED <<request, requestCache>>

(* The key expires, or a handler deletes it or stores another status.      *)
ExpireRequest(t) ==
    /\ t \in requestCache
    /\ requestCache' = requestCache \ {t}
    /\ Elsewhere
    /\ UNCHANGED <<request, walletsCache>>

(* A money operation uses the txId: its handler logs and decides it, or    *)
(* one that fails before that marks whatever row there is.                 *)
OtherRequest(t) ==
    /\ \/ /\ \/ request[t] = "none"
             \/ request[t] = "success" /\ {"redis", "db"} \cap Faults # {}
          /\ request' = [request EXCEPT ![t] = "pending or failed"]
       \/ /\ request[t] = "pending or failed"
          /\ request' = [request EXCEPT ![t] = "success"]
    /\ Elsewhere
    /\ UNCHANGED keys

CacheOtherRequest(t) ==
    /\ request[t] = "success"
    /\ requestCache' = requestCache \cup {t}
    /\ Elsewhere
    /\ UNCHANGED <<request, walletsCache>>

-----------------------------------------------------------------------------
(* Faults.                                                                 *)

(* A store rejects the pending call; AllExceptionsFilter answers 500, and  *)
(* what the earlier steps wrote stays.                                     *)
CallThrows(c) ==
    /\ \/ pc[c] \in RedisSteps /\ "redis" \in Faults
       \/ pc[c] \in DbSteps /\ "db" \in Faults
    /\ At(c, pc[c])
    /\ Answer(c, "error")
    /\ UNCHANGED <<tables, keys>>

(* The database applies an insert and the answer is lost.                  *)
ReplyLost(c) ==
    /\ "db" \in Faults
    /\ \/ At(c, "create") /\ InsertWallet(c) /\ UNCHANGED request
       \/ At(c, "logRequest") /\ InsertRequest(c) /\ UNCHANGED wallets
    /\ Answer(c, "error")
    /\ UNCHANGED keys

(* The process dies and starts again: running calls end without an answer, *)
(* which is an error to their clients.                                     *)
Restart ==
    /\ "crash" \in Faults
    /\ pc' = [c \in Calls |-> IF pc[c] = "idle" THEN "idle" ELSE "answered"]
    /\ reply' = [c \in Calls |-> IF pc[c] \in CallSteps THEN "error"
                                                        ELSE reply[c]]
    /\ list' = [c \in Calls |-> NoList]
    /\ reader' = [d \in Readers |-> NotReading]
    /\ UNCHANGED <<tables, keys, body>>

-----------------------------------------------------------------------------
Finished == /\ \A c \in Calls : pc[c] = "answered"
            /\ \A d \in Readers : reader[d] = NotReading
            /\ UNCHANGED vars

Next ==
    \/ \E c \in Calls : Call(c) \/ CallStep(c) \/ CallThrows(c) \/ ReplyLost(c)
    \/ \E d \in Readers :
          (\E u \in Users : StartRead(d, u)) \/ ReadStep(d) \/ ReadThrows(d)
    \/ \E u \in Users : ExpireList(u)
    \/ \E t \in TxIds :
          ExpireRequest(t) \/ OtherRequest(t) \/ CacheOtherRequest(t)
    \/ Restart
    \/ Finished

Spec == Init /\ [][Next]_vars

(* The event loop runs what is ready, and a key does not outlive its TTL.  *)
Fairness ==
    /\ \A c \in Calls : WF_vars(CallStep(c))
    /\ \A d \in Readers : WF_vars(ReadStep(d))
    /\ \A u \in Users : WF_vars(ExpireList(u))

FairSpec == Spec /\ Fairness

-----------------------------------------------------------------------------
(* Properties.                                                             *)

(* Of any number of concurrent calls, whatever fails between their steps,  *)
(* no two leave a wallet in one currency for one user, and one per txId at *)
(* most is told "created", after its wallet has been.  The checks the code *)
(* makes first do not give this: the unique keys and the order of the two  *)
(* inserts do.                                                             *)
Registry == INSTANCE WalletRegistry WITH
    created   <- wallets,
    confirmed <- {c \in Calls : reply[c] = "created"}

ImplementsRegistry == Registry!RSpec

(* A client is not refused for nothing: when it is told of a duplicate,    *)
(* the wallet it asked for exists or its txId has been logged.             *)
RefusedForCause ==
    \A c \in Calls :
        reply[c] = "conflict" => Exists(c) \/ request[TxOf(c)] # "none"

(* However createWallet, readers, expiry and deletion interleave, a cached *)
(* list shows only wallets of its user that exist, and none of them more   *)
(* than twice: a reader may find the new wallet before its own call adds   *)
(* it again, but nothing else can add it.                                  *)
ListsHonest ==
    \A u \in Users : walletsCache[u] # NoList =>
        \A c \in Calls : walletsCache[u][c] > 0 =>
            /\ c \in wallets
            /\ UserOf(c) = u
            /\ walletsCache[u][c] <= 2

(* Cached lists that miss a wallet or show it twice do not last: once      *)
(* clients have stopped creating wallets, the lists become and stay what   *)
(* the database has, readers and failures notwithstanding.                 *)
ListsSettle ==
    <>[](\A u \in Users : walletsCache[u] \in {NoList, ListOf(u)})
=============================================================================
