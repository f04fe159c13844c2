----------------------------- MODULE UserSystem -----------------------------
(***************************************************************************)
(* Users and what they can look up: the calls of UsersService, the queues  *)
(* and consumers that record logins and notifications, and the clients     *)
(* that read the records, in one process that may die.                     *)
(***************************************************************************)
EXTENDS UsersService

CONSTANTS
    Holders,   \* the users with wallets, who look at their records
    MaxNews    \* a bound on how many rows their wallet operations ask for

ASSUME SystemAssumption == Holders \subseteq Ids /\ MaxNews \in Nat

Init == UsersInit /\ ActivityInit

News == {m \in Messages : stage[m] # "unused" /\ event[m].table # "login_logs"}

(* Wallet operations insert rows for users that exist.                     *)
Elsewhere(i) == /\ i \in Holders \cap Registered
                /\ Cardinality(News) < MaxNews
                /\ Announce(i) \/ Settle(i)
                /\ UNCHANGED userVars

Consumer(m) == ConsumerStep(m) /\ UNCHANGED userVars

Walk(w) == /\ \/ \E t \in Tables, i \in Holders \cap Registered :
                    StartWalk(w, [table |-> t, user |-> i])
              \/ FetchPage(w)
           /\ UNCHANGED userVars

Fault == \/ CloseChannel /\ UNCHANGED userVars
         \/ "crash" \in Faults /\ StartAgain /\ KillCalls
         \/ \E m \in Messages : AckThrows(m) /\ KillCalls

(* Nothing is left to do but what the bound on messages leaves no room for. *)
Finished ==
    /\ \A c \in Calls : \/ pc[c] \in {"idle", "answered"}
                        \/ pc[c] = "logLogin" /\ NoRoom
    /\ \A m \in Messages : \/ stage[m] \notin {"storing", "republish"}
                           \/ stage[m] = "republish" /\ NoRoom
    /\ UNCHANGED vars

Next ==
    \/ \E c \in Calls : Call(c) \/ UserStep(c) \/ CallThrows(c) \/ ReplyLost(c)
    \/ \E i \in Ids : Elsewhere(i) \/ ExpireProfile(i)
    \/ \E m \in Messages : Consumer(m)
    \/ \E w \in Walks : Walk(w)
    \/ Fault
    \/ Finished

Spec == Init /\ [][Next]_vars

(* The event loop runs what is ready, the broker delivers what is queued,  *)
(* and a key does not outlive its TTL.  As calls and messages are finitely *)
(* many it need not be said of each.  Nothing is assumed of clients.       *)
Fairness ==
    /\ WF_vars(\E c \in Calls : UserStep(c))
    /\ WF_vars(\E m \in Messages : Consumer(m))
    /\ WF_vars(\E i \in Ids : ExpireProfile(i))

FairSpec == Spec /\ Fairness

-----------------------------------------------------------------------------
(* Properties.                                                             *)

TypeOK == ActivityTypeOK /\ UsersTypeOK

(* The e-mail address a user logs in with belongs to one account, however  *)
(* signups and updates interleave after their checks, and whether or not   *)
(* the accounts are deleted.                                               *)
EmailsUnique ==
    \A i, j \in Registered : account[i].email = account[j].email => i = j

(* Cached profiles that show what an account was before an update, or      *)
(* before it was deleted and came back, do not last: once clients stop     *)
(* changing accounts, the cache becomes and stays true.                    *)
ProfilesSettle ==
    <>[](\A i \in Ids : profileCache[i] # None =>
            i \in Registered /\ profileCache[i] = ProfileOf(account[i]))

(* A login that has reached its queue is not forgotten, whatever fails: it *)
(* is in the table, in the dead-letter queue, or still with the broker.    *)
LoginsKept ==
    \A m \in Messages :
        stage[m] # "unused" /\ origin[m] = m /\ event[m].table = "login_logs"
        => \/ Stored(m)
           \/ m \in dead
           \/ \E k \in Messages :
                origin[k] = m /\ stage[k] \in {"ready"} \cup Unacked

(* And it does not stay with the broker for ever, as long as the channel   *)
(* is open: the third delivery that fails ends in the dead-letter queue,   *)
(* also when a restart delivers some message twice.  (This is about        *)
(* instances with enough Messages for the retries of every login.)         *)
LoginsLogged ==
    \A m \in Messages :
        stage[m] = "ready" /\ origin[m] = m /\ event[m].table = "login_logs"
        ~> Stored(m) \/ m \in dead \/ channel = "closed"

(* A notification is shown once, and once more for every restart at most:  *)
(* it is never retried, whatever its insert answers.                       *)
NotificationsBounded ==
    \A m \in Messages :
        event[m].table = "notifications" =>
            Cardinality({r \in rows : r.from = m}) <= 1 + restarts

(* A client that reads pages until the last one misses none of the rows    *)
(* that were there when it began, although new ones move them to later     *)
(* pages meanwhile; unless rows share their time.                          *)
NothingMissed ==
    \A w \in Walks :
        walk[w].step = "done" =>
            \A r \in walk[w].start : Untied(r) => r \in walk[w].seen

(* A signup ends in a conflict when its e-mail address or username is that *)
(* of an account in use: it never changes such an account.                 *)
SignupSparesActive ==
    [][\A c \in Calls, i \in Registered :
          pc[c] = "upsert" /\ pc'[c] = "answered" /\ ~ account[i].deleted
          => account'[i] = account[i]]_vars
=============================================================================
