--------------------------- MODULE WalletsService ---------------------------
(***************************************************************************)
(* The HTTP side: fundWallet, withdrawFromWallet, transferFunds and        *)
(* getUserWallets of WalletsService, one action per awaited call, because  *)
(* other calls and the consumers run between any two of them.              *)
(***************************************************************************)
EXTENDS WalletStore

(* A client sends body r; any number of calls may carry the same txId.     *)
Call(j, r) ==
    /\ pc[j] = "idle"
    /\ j \in Calls
    /\ job' = [job EXCEPT ![j] = r]
    /\ Go(j, "getCache")
    /\ UNCHANGED <<tables, keys, notices, channel, attempts, seen, snap,
                   reply, reader>>

(* The call of job j ends with answer a.                                   *)
Answer(j, a) == /\ Go(j, "answered")
                /\ reply' = [reply EXCEPT ![j] = a]

(* fundWallet rejects any cached status, the other two only a final one.   *)
CacheRejects(kind, status) ==
    \/ kind = "fund" /\ status # "none"
    \/ status \in Final

GetCache(j) ==
    /\ pc[j] = "getCache"
    /\ IF CacheRejects(KindOf(j), requestCache[TxOf(j)])
         THEN Answer(j, "duplicate")
         ELSE Go(j, "findRequest") /\ UNCHANGED reply
    /\ UNCHANGED <<tables, keys, notices, channel, messages, reader>>

FindRequest(j) ==
    /\ pc[j] = "findRequest"
    /\ seen' = [seen EXCEPT ![j] = request[TxOf(j)]]
    /\ Go(j, IF request[TxOf(j)] = "none" THEN "send" ELSE "saveCache")
    /\ UNCHANGED <<tables, keys, notices, channel, job, attempts, snap,
                   reply, reader>>

(* The row FindRequest found is cached, whatever has happened to it since. *)
SaveCache(j) ==
    /\ pc[j] = "saveCache"
    /\ requestCache' = [requestCache EXCEPT ![TxOf(j)] = seen[j]]
    /\ Answer(j, "duplicate")
    /\ seen' = [seen EXCEPT ![j] = "none"]
    /\ UNCHANGED <<tables, walletsCache, notices, channel, job, attempts,
                   snap, reader>>

(***************************************************************************)
(* The client is told "queued".  sendToQueue swallows the error of a       *)
(* closed channel, so then the answer is the same and nothing is queued.   *)
(***************************************************************************)
Send(j) ==
    /\ pc[j] = "send"
    /\ reply' = [reply EXCEPT ![j] = "queued"]
    /\ Go(j, IF channel["api"] = "open" THEN "ready" ELSE "answered")
    /\ UNCHANGED <<tables, keys, notices, channel, messages, reader>>

(* Redis or the database rejects the call's pending request: HTTP 500.     *)
CallThrows(j) ==
    /\ \/ pc[j] \in {"getCache", "saveCache"} /\ "redis" \in Faults
       \/ pc[j] = "findRequest" /\ "db" \in Faults
    /\ Answer(j, "error")
    /\ seen' = [seen EXCEPT ![j] = "none"]
    /\ UNCHANGED <<tables, keys, notices, channel, job, attempts, snap,
                   reader>>

-----------------------------------------------------------------------------
(* getUserWallets.  A call that finds the key ends at once and changes     *)
(* nothing; the others fill it with what they read from the database.      *)

Read(d, step) == /\ reader[d].step = step
                 /\ UNCHANGED <<tables, requestCache, notices, channel, pc,
                                messages, reply>>

StartRead(d, u) ==
    /\ Read(d, "idle")
    /\ walletsCache[u] = NoView
    /\ reader' = [reader EXCEPT ![d] = [step |-> "find", user |-> u]]
    /\ UNCHANGED walletsCache

FindWallets(d) ==
    /\ Read(d, "find")
    /\ LET u == reader[d].user
       IN  reader' = [reader EXCEPT ![d] =
                        [step |-> "cache", user |-> u, view |-> CurrentView(u)]]
    /\ UNCHANGED walletsCache

CacheWallets(d) ==
    /\ Read(d, "cache")
    /\ walletsCache' =
         [walletsCache EXCEPT ![reader[d].user] = reader[d].view]
    /\ reader' = [reader EXCEPT ![d] = NotReading]

(* The database or Redis fails under the call, which then caches nothing.  *)
ReadThrows(d) ==
    /\ \/ Read(d, "find") /\ "db" \in Faults
       \/ Read(d, "cache") /\ "redis" \in Faults
    /\ reader' = [reader EXCEPT ![d] = NotReading]
    /\ UNCHANGED walletsCache

-----------------------------------------------------------------------------
(* Redis removes a key when its 300 seconds are over.                      *)

ExpireRequest(t) ==
    /\ requestCache[t] # "none"
    /\ requestCache' = [requestCache EXCEPT ![t] = "none"]
    /\ UNCHANGED <<tables, walletsCache, notices, channel, pc, messages,
                   reply, reader>>

(* Mutant: the key is stored without EX.                                   *)
ExpireWalletsNever(u) == u \notin Users /\ UNCHANGED vars

ExpireWallets(u) ==
    /\ walletsCache[u] # NoView
    /\ walletsCache' = [walletsCache EXCEPT ![u] = NoView]
    /\ UNCHANGED <<tables, requestCache, notices, channel, pc, messages,
                   reply, reader>>

-----------------------------------------------------------------------------
(* One step of HTTP call j.                                                *)
CallStep(j) == \/ GetCache(j) \/ FindRequest(j) \/ SaveCache(j) \/ Send(j)

ReadStep(d) == FindWallets(d) \/ CacheWallets(d)
=============================================================================
