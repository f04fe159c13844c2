---------------------------- MODULE ActivityLog ----------------------------
(***************************************************************************)
(* What users can look up of their past: login attempts, notifications and *)
(* transactions.  The first two travel through a queue (sendToQueue,       *)
(* consume) to a handler that inserts a row (LoginProcessor and            *)
(* NotificationProcessor); the rows of transactions are inserted by the    *)
(* handlers of WalletJobs.  TransactionsService reads each table a page at *)
(* a time, while rows are being added.                                     *)
(***************************************************************************)
EXTENDS Integers, FiniteSets

CONSTANTS
    Ids,          \* User.id
    NoId,         \* the user id of a login with an unknown e-mail address
    Messages,     \* a bound on how many messages are about at once
    Walks,        \* clients that read page after page
    Limit,        \* rows on a page (10)
    Times,        \* what createdAt and loggedInAt may be
    MaxRestarts,  \* a bound on how often the process dies
    Faults        \* which of FaultKinds may happen

FaultKinds == {"redis", "db", "broker", "crash"}
Queues     == {"login_logs", "notifications"}
Tables     == Queues \cup {"transactions"}

ASSUME ActivityAssumption ==
    /\ NoId \notin Ids
    /\ Limit \in Nat \ {0}
    /\ Times \subseteq Int
    /\ MaxRestarts \in Nat
    /\ Faults \subseteq FaultKinds

VARIABLES
    stage,     \* where a message is
    event,     \* the table and the user of the row it asks for
    origin,    \* the message of which it is a repeated publication, or itself
    attempts,  \* its x-attempts header
    rows,      \* the rows of Tables
    dead,      \* the origins of the messages in wallet_funding_dead
    channel,   \* the AMQP channel of RabbitMQModule
    restarts,  \* how often the process has died
    walk       \* the clients that read pages

messages == <<stage, event, origin, attempts>>
broker   == <<dead, channel, restarts>>
logVars  == <<messages, rows, broker, walk>>

-----------------------------------------------------------------------------
(* Types.                                                                  *)

Events  == [table : Tables, user : Ids \cup {NoId}]
NoEvent == [table |-> "login_logs", user |-> NoId]

(* "ready" is in the queue, "held" is handled and not acknowledged.        *)
Unacked == {"storing", "republish", "ack", "held"}
Stages  == {"unused", "ready", "acked"} \cup Unacked

(* A row is identified by the message it comes from and a number; time is  *)
(* its createdAt or loggedInAt.                                            *)
Rows == [from : Messages, nr : Nat, event : Events, time : Times]

(* A client reads pages of one table for one user: page is the page it     *)
(* asks for next, seen what it has read, start what there was at first.    *)
NotWalking == [step |-> "idle"]
WalkStates == {NotWalking} \cup
    [step : {"walking", "done"}, event : Events,
     page : Nat \ {0}, seen : SUBSET Rows, start : SUBSET Rows]

ActivityTypeOK ==
    /\ stage \in [Messages -> Stages]
    /\ event \in [Messages -> Events]
    /\ origin \in [Messages -> Messages]
    /\ attempts \in [Messages -> 0..2]
    /\ rows \in SUBSET Rows
    /\ IsFiniteSet(rows)
    /\ dead \subseteq Messages
    /\ channel \in {"open", "closed"}
    /\ restarts \in 0..MaxRestarts
    /\ walk \in [Walks -> WalkStates]

ActivityInit ==
    /\ stage = [m \in Messages |-> "unused"]
    /\ event = [m \in Messages |-> NoEvent]
    /\ origin = [m \in Messages |-> m]
    /\ attempts = [m \in Messages |-> 0]
    /\ rows = {}
    /\ dead = {}
    /\ channel = "open"
    /\ restarts = 0
    /\ walk = [w \in Walks |-> NotWalking]

-----------------------------------------------------------------------------
(* Publishing and inserting.                                               *)

Move(m, s) == stage' = [stage EXCEPT ![m] = s]

Unused == {m \in Messages : stage[m] = "unused"}
NoRoom == Unused = {}

(* Which of them is used next makes no difference.                         *)
Slot == CHOOSE m \in Unused : TRUE

(* A new message for event e, at s.                                        *)
Put(e, s) ==
    /\ ~ NoRoom
    /\ Move(Slot, s)
    /\ event' = [event EXCEPT ![Slot] = e]
    /\ origin' = [origin EXCEPT ![Slot] = Slot]
    /\ attempts' = [attempts EXCEPT ![Slot] = 0]

(* sendToQueue.  On a closed channel it logs an error and returns.         *)
Publish(e) ==
    /\ \/ channel = "open" /\ Put(e, "ready")
       \/ channel = "closed" /\ UNCHANGED messages
    /\ UNCHANGED <<rows, broker, walk>>

(* A row is added for message m.  Its time is taken before the insert, so  *)
(* that rows need not be inserted in the order of their times.             *)
Insert(m, e) ==
    \E t \in Times :
        rows' = rows \cup
            {[from |-> m, nr |-> Cardinality({r \in rows : r.from = m}) + 1,
              event |-> e, time |-> t]}

(* createWallet or a handler of WalletJobs notifies user u.                *)
Announce(u) == Publish([table |-> "notifications", user |-> u])

(* A handler of WalletJobs commits a row of Transaction for user u.        *)
Settle(u) ==
    LET e == [table |-> "transactions", user |-> u] IN
    /\ Put(e, "acked") /\ Insert(Slot, e)
    /\ UNCHANGED <<broker, walk>>

-----------------------------------------------------------------------------
(* The consumers of login_logs and notifications.                          *)

Consuming(m, s) ==
    /\ stage[m] = s
    /\ UNCHANGED <<event, origin, attempts, restarts, walk>>

Deliver(m) ==
    /\ Consuming(m, "ready")
    /\ channel = "open"
    /\ Move(m, "storing")
    /\ UNCHANGED <<rows, dead, channel>>

(* A handler that returns leaves its message unacknowledged.               *)
Store(m) ==
    /\ Consuming(m, "storing")
    /\ Insert(origin[m], event[m])
    /\ Move(m, "held")
    /\ UNCHANGED <<dead, channel>>

(* Mutant: NotificationProcessor lets consume see the error.               *)
AfterErrorRetried(m) == "republish"

(* Where an error of the insert leaves message m: NotificationProcessor    *)
(* catches it and returns, LoginProcessor throws it at consume.            *)
AfterError(m) == IF event[m].table = "notifications" THEN "held"
                                                     ELSE "republish"

(* The database rejects the insert, or applies it and the answer is lost.  *)
StoreFails(m) ==
    /\ "db" \in Faults
    /\ Consuming(m, "storing")
    /\ Insert(origin[m], event[m]) \/ UNCHANGED rows
    /\ Move(m, AfterError(m))
    /\ UNCHANGED <<dead, channel>>

(* Mutant: attempts > 2.                                                   *)
GivesUpLater(m) == attempts[m] > 2

GivesUp(m) == attempts[m] >= 2

(* Mutant: the message is published again with the header it had.          *)
SameAttempt(m) == attempts[m]

NextAttempt(m) == attempts[m] + 1

(* consume's catch block publishes the message once more, to its queue or, *)
(* the third time, to wallet_funding_dead; nowhere on a closed channel.    *)
Republish(m) ==
    /\ stage[m] = "republish"
    /\ \/ /\ channel = "closed"
          /\ Move(m, "ack")
          /\ UNCHANGED <<event, origin, attempts, dead>>
       \/ /\ channel = "open" /\ GivesUp(m)
          /\ dead' = dead \cup {origin[m]}
          /\ Move(m, "ack")
          /\ UNCHANGED <<event, origin, attempts>>
       \/ /\ channel = "open" /\ ~ GivesUp(m)
          /\ ~ NoRoom
          /\ stage' = [stage EXCEPT ![Slot] = "ready", ![m] = "ack"]
          /\ event' = [event EXCEPT ![Slot] = event[m]]
          /\ origin' = [origin EXCEPT ![Slot] = origin[m]]
          /\ attempts' = [attempts EXCEPT ![Slot] = NextAttempt(m)]
          /\ UNCHANGED dead
    /\ UNCHANGED <<rows, channel, restarts, walk>>

(* An acknowledged repetition is gone; its place is free for another one.  *)
Ack(m) ==
    /\ Consuming(m, "ack")
    /\ channel = "open"
    /\ Move(m, IF origin[m] = m THEN "acked" ELSE "unused")
    /\ UNCHANGED <<rows, dead, channel>>

ConsumerStep(m) ==
    Deliver(m) \/ Store(m) \/ StoreFails(m) \/ Republish(m) \/ Ack(m)

-----------------------------------------------------------------------------
(* Faults.                                                                 *)

(* The broker closes the channel, and nothing opens it again.              *)
CloseChannel ==
    /\ "broker" \in Faults
    /\ channel = "open"
    /\ channel' = "closed"
    /\ UNCHANGED <<messages, rows, dead, restarts, walk>>

(* The process starts again: the broker delivers what is unacknowledged.   *)
StartAgain ==
    /\ restarts < MaxRestarts
    /\ restarts' = restarts + 1
    /\ channel' = "open"
    /\ stage' = [m \in Messages |-> IF stage[m] \in Unacked THEN "ready"
                                                            ELSE stage[m]]
    /\ UNCHANGED <<event, origin, attempts, rows, dead, walk>>

(* Mutant: ack on a closed channel is passed over.                         *)
AckThrowsNot(m) ==
    /\ Consuming(m, "ack")
    /\ channel = "closed"
    /\ Move(m, "acked")
    /\ UNCHANGED <<rows, dead, channel>>

(* ack on a closed channel throws where nobody catches: the process dies.  *)
AckThrows(m) == stage[m] = "ack" /\ channel = "closed" /\ StartAgain

-----------------------------------------------------------------------------
(* getTransactionsForUser, getUserNotifications, getUserLoginLogs.         *)

(* The rows of one table and user.                                         *)
TableOf(e) == {r \in rows : r.event = e}

(* Mutant: findMany without orderBy.                                       *)
NewestAnyhow(S, k) ==
    {Q \in SUBSET S : Cardinality(Q) = IF Cardinality(S) < k
                                       THEN Cardinality(S) ELSE k}

(* The possible sets of the k newest rows of S: the query orders rows by   *)
(* time, newest first, and does not say which of two rows with one time    *)
(* comes first.                                                            *)
Newest(S, k) ==
    {Q \in SUBSET S : /\ Cardinality(Q) = IF Cardinality(S) < k
                                           THEN Cardinality(S) ELSE k
                      /\ \A q \in Q, r \in S \ Q : q.time >= r.time}

(* A client that finds no rows is not followed.                            *)
StartWalk(w, e) ==
    /\ walk[w] = NotWalking
    /\ TableOf(e) # {}
    /\ walk' = [walk EXCEPT ![w] =
          [step |-> "walking", event |-> e, page |-> 1,
           seen |-> {}, start |-> TableOf(e)]]
    /\ UNCHANGED <<messages, rows, broker>>

(* The client has page p when there are n rows: it is the last one when    *)
(* p >= Math.ceil(n / limit).                                              *)
LastPage(p, n) == p * Limit >= n

(* One request: the rows after the first (page - 1) * limit, at most limit *)
(* of them, counted in the same database transaction.                      *)
FetchPage(w) ==
    /\ walk[w].step = "walking"
    /\ LET S == TableOf(walk[w].event)
           p == walk[w].page
       IN  \E skipped \in Newest(S, (p - 1) * Limit) :
           \E items \in Newest(S \ skipped, Limit) :
             walk' = [walk EXCEPT
                ![w].seen = @ \cup items,
                ![w].page = IF LastPage(p, Cardinality(S)) THEN p ELSE p + 1,
                ![w].step = IF LastPage(p, Cardinality(S)) THEN "done" ELSE @]
    /\ UNCHANGED <<messages, rows, broker>>

-----------------------------------------------------------------------------
(* What the properties of UserSystem speak of.                             *)

(* Message m, or a repetition of it, has been stored.                      *)
Stored(m) == \E r \in rows : r.from = m

(* A row that shares its time with no other row of its table and user.     *)
Untied(r) == \A q \in TableOf(r.event) : q.time = r.time => q = r
=============================================================================
