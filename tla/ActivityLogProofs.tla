------------------------- MODULE ActivityLogProofs -------------------------
(***************************************************************************)
(* An inductive invariant of ActivityLog, for any users, messages, clients,*)
(* page size, times and faults.  UserSystemProofs uses it.                 *)
(***************************************************************************)
EXTENDS ActivityLog, FiniteSetTheorems, TLAPS

(* Everything the rest of the system does to the variables of ActivityLog. *)
ActivityStep ==
    \/ \E e \in Events : e.table \in Queues /\ Publish(e)
    \/ \E u \in Ids : Settle(u)
    \/ \E m \in Messages : ConsumerStep(m)
    \/ CloseChannel
    \/ StartAgain
    \/ \E w \in Walks, e \in Events : StartWalk(w, e)
    \/ \E w \in Walks : FetchPage(w)

-----------------------------------------------------------------------------
(* The inductive invariant.                                                *)

Live(m) == stage[m] \in {"ready"} \cup Unacked

RowsOf(m) == {r \in rows : r.from = m}

(* A repetition asks for the row its origin asked for, and origins, as     *)
(* well as the messages rows come from, are never given to other messages. *)
Origins ==
    /\ \A m \in Messages : stage[m] # "unused" =>
          /\ stage[origin[m]] # "unused"
          /\ origin[origin[m]] = origin[m]
          /\ event[origin[m]] = event[m]
    /\ \A r \in rows : stage[r.from] # "unused" /\ origin[r.from] = r.from

(* Only logins come to the catch block of consume, and are repeated.       *)
OnlyLoginsRetried ==
    \A m \in Messages :
        /\ Live(m) => event[m].table \in Queues
        /\ stage[m] \in {"republish", "ack"} => event[m].table = "login_logs"
        /\ stage[m] # "unused" /\ origin[m] # m
              => event[m].table = "login_logs"

(* One row for each delivery of a notification at most: the first one, and *)
(* one for each restart.                                                   *)
Deliveries ==
    \A m \in Messages :
        event[m].table = "notifications" =>
            /\ Cardinality(RowsOf(m)) <= 1 + restarts
            /\ stage[m] \in {"ready", "storing"}
                  => Cardinality(RowsOf(m)) <= restarts

(* Message m is stored, given up, or still with the broker, there as a     *)
(* repetition with n attempts at least.                                    *)
Kept(m, n) ==
    \/ Stored(m)
    \/ m \in dead
    \/ \E k \in Messages : origin[k] = m /\ Live(k) /\ attempts[k] >= n

(* A message is acknowledged only when it is kept otherwise.               *)
AllKept ==
    \A m \in Messages :
        /\ stage[m] # "unused" /\ event[m].table = "login_logs"
              => Kept(origin[m], 0)
        /\ stage[m] = "ack" /\ channel = "open"
              => Kept(origin[m], attempts[m] + 1)

Newer(r) == {q \in TableOf(r.event) : q.time > r.time}

(* What a client has not seen yet is on the page it asks for or later.     *)
Ahead ==
    \A w \in Walks : walk[w] # NotWalking =>
        /\ walk[w].start \subseteq TableOf(walk[w].event)
        /\ \A r \in walk[w].start \ walk[w].seen :
              Untied(r) =>
                 /\ walk[w].step = "walking"
                 /\ Cardinality(Newer(r)) >= (walk[w].page - 1) * Limit

ActivityInv ==
    /\ ActivityTypeOK
    /\ Origins
    /\ OnlyLoginsRetried
    /\ Deliveries
    /\ AllKept
    /\ Ahead

-----------------------------------------------------------------------------
(* Slots and rows.                                                         *)

LEMMA SlotIsUnused ==
    ~ NoRoom => Slot \in Messages /\ stage[Slot] = "unused"
BY DEF NoRoom, Slot, Unused

LEMMA RowsOfFinite ==
    ASSUME ActivityTypeOK, NEW m
    PROVE  /\ IsFiniteSet(RowsOf(m))
           /\ Cardinality(RowsOf(m)) \in Nat
BY FS_Subset, FS_CardinalityType DEF ActivityTypeOK, RowsOf

(* What Insert does: one row more, of message m.                           *)
Adds(m, e) ==
    \E r \in Rows :
        /\ r.from = m /\ r.event = e
        /\ rows' = rows \cup {r}

LEMMA InsertAdds ==
    ASSUME ActivityTypeOK, NEW m \in Messages, NEW e \in Events, Insert(m, e)
    PROVE  Adds(m, e)
<1>1. PICK t \in Times :
        rows' = rows \cup {[from |-> m, nr |-> Cardinality(RowsOf(m)) + 1,
                            event |-> e, time |-> t]}
  BY DEF Insert, RowsOf
<1>2. Cardinality(RowsOf(m)) + 1 \in Nat
  BY RowsOfFinite
<1>3. QED  BY <1>1, <1>2 DEF Adds, Rows

LEMMA AddsRows ==
    ASSUME ActivityTypeOK, NEW m \in Messages, NEW e, Adds(m, e)
    PROVE  /\ rows' \in SUBSET Rows /\ IsFiniteSet(rows')
           /\ rows \subseteq rows'
           /\ Stored(m)'
           /\ RowsOf(m)' \in SUBSET Rows
           /\ Cardinality(RowsOf(m)') \in Nat
           /\ Cardinality(RowsOf(m)') <= Cardinality(RowsOf(m)) + 1
           /\ \A k : k # m => RowsOf(k)' = RowsOf(k)
<1>1. PICK r \in Rows : r.from = m /\ rows' = rows \cup {r}
  BY DEF Adds
<1>2. rows' \in SUBSET Rows /\ IsFiniteSet(rows')
  BY <1>1, FS_AddElement DEF ActivityTypeOK
<1>3. RowsOf(m)' = RowsOf(m) \cup {r}
  BY <1>1 DEF RowsOf
<1>4. /\ Cardinality(RowsOf(m)') \in Nat
      /\ Cardinality(RowsOf(m)') <= Cardinality(RowsOf(m)) + 1
  BY <1>3, RowsOfFinite, FS_AddElement
<1>5. \A k : k # m => RowsOf(k)' = RowsOf(k)
  BY <1>1 DEF RowsOf
<1>6. QED  BY <1>1, <1>2, <1>3, <1>4, <1>5 DEF Stored, RowsOf

-----------------------------------------------------------------------------
(* Types.                                                                  *)

LEMMA WalkTypes ==
    ASSUME ActivityTypeOK, NEW w \in Walks, walk[w] # NotWalking
    PROVE  /\ walk[w].step \in {"walking", "done"}
           /\ walk[w].event \in Events
           /\ walk[w].page \in Nat \ {0}
           /\ walk[w].seen \in SUBSET Rows
           /\ walk[w].start \in SUBSET Rows
BY DEF ActivityTypeOK, WalkStates

(* The parts of FetchPage(w), for page p of the rows S.                    *)
Fetched(w, S, p, skipped, items) ==
    LET last == LastPage(p, Cardinality(S)) IN
    /\ skipped \in Newest(S, (p - 1) * Limit)
    /\ items \in Newest(S \ skipped, Limit)
    /\ walk' = [walk EXCEPT
          ![w] = [step |-> IF last THEN "done" ELSE "walking",
                  event |-> walk[w].event,
                  page |-> IF last THEN p ELSE p + 1,
                  seen |-> walk[w].seen \cup items,
                  start |-> walk[w].start]]

LEMMA FetchPageFetches ==
    ASSUME ActivityTypeOK, NEW w \in Walks, FetchPage(w)
    PROVE  /\ walk[w] # NotWalking /\ walk[w].step = "walking"
           /\ \E skipped, items :
                Fetched(w, TableOf(walk[w].event), walk[w].page, skipped, items)
           /\ UNCHANGED <<messages, rows, broker>>
<1> DEFINE S == TableOf(walk[w].event)
           p == walk[w].page
<1>1. walk[w] # NotWalking /\ walk[w].step = "walking"
  BY DEF FetchPage, NotWalking
<1>2. PICK skipped \in Newest(S, (p - 1) * Limit) :
        \E items \in Newest(S \ skipped, Limit) :
          walk' = [walk EXCEPT
                ![w].seen = @ \cup items,
                ![w].page = IF LastPage(p, Cardinality(S)) THEN p ELSE p + 1,
                ![w].step = IF LastPage(p, Cardinality(S)) THEN "done" ELSE @]
  BY DEF FetchPage
<1>3. PICK items \in Newest(S \ skipped, Limit) :
          walk' = [walk EXCEPT
                ![w].seen = @ \cup items,
                ![w].page = IF LastPage(p, Cardinality(S)) THEN p ELSE p + 1,
                ![w].step = IF LastPage(p, Cardinality(S)) THEN "done" ELSE @]
  BY <1>2
<1>4. walk[w] \in [step : {"walking", "done"}, event : Events,
                   page : Nat \ {0}, seen : SUBSET Rows, start : SUBSET Rows]
  BY <1>1 DEF ActivityTypeOK, WalkStates
<1>5. walk[w] = [step |-> "walking", event |-> walk[w].event, page |-> p,
                 seen |-> walk[w].seen, start |-> walk[w].start]
  BY <1>1, <1>4
<1>6. Fetched(w, S, p, skipped, items)
  BY <1>1, <1>2, <1>3, <1>4, <1>5 DEF Fetched, ActivityTypeOK
<1>7. QED  BY <1>1, <1>6 DEF FetchPage

LEMMA FetchTypes ==
    ASSUME ActivityTypeOK, NEW w \in Walks, FetchPage(w)
    PROVE  ActivityTypeOK'
<1> DEFINE S == TableOf(walk[w].event)
           p == walk[w].page
<1>1. PICK skipped, items : Fetched(w, S, p, skipped, items)
  BY FetchPageFetches
<1>2. items \subseteq Rows
  BY <1>1 DEF Fetched, Newest, TableOf, ActivityTypeOK
<1>3. walk[w] # NotWalking
  BY FetchPageFetches
<1>4. walk' \in [Walks -> WalkStates]
  BY <1>1, <1>2, <1>3, WalkTypes DEF Fetched, ActivityTypeOK, WalkStates
<1>5. QED
  BY <1>4, FetchPageFetches DEF ActivityTypeOK, messages, broker

LEMMA PutTypes ==
    ASSUME ActivityTypeOK, NEW e \in Events, NEW s \in Stages, Put(e, s)
    PROVE  /\ stage' \in [Messages -> Stages]
           /\ event' \in [Messages -> Events]
           /\ origin' \in [Messages -> Messages]
           /\ attempts' \in [Messages -> 0..2]
<1>1. Slot \in Messages
  BY SlotIsUnused DEF Put
<1>2. QED  BY <1>1 DEF Put, Move, ActivityTypeOK

LEMMA InsertTypes ==
    ASSUME ActivityTypeOK, NEW m \in Messages, NEW e \in Events, Insert(m, e)
    PROVE  rows' \in SUBSET Rows /\ IsFiniteSet(rows')
BY InsertAdds, AddsRows

LEMMA TypesKept ==
    ASSUME ActivityTypeOK, ActivityStep
    PROVE  ActivityTypeOK'
<1>1. ASSUME NEW e \in Events, Publish(e) PROVE ActivityTypeOK'
  <2>1. "ready" \in Stages
    BY DEF Stages
  <2>2. CASE channel = "open"
    BY <1>1, <2>1, <2>2, PutTypes DEF Publish, ActivityTypeOK, broker
  <2>3. CASE channel = "closed"
    BY <1>1, <2>3 DEF Publish, ActivityTypeOK, broker, messages
  <2>4. QED  BY <1>1, <2>2, <2>3 DEF Publish
<1>2. ASSUME NEW u \in Ids, Settle(u) PROVE ActivityTypeOK'
  <2> DEFINE e == [table |-> "transactions", user |-> u]
  <2>1. e \in Events /\ "acked" \in Stages
    BY DEF Events, Tables, Stages
  <2>2. Put(e, "acked") /\ Insert(Slot, e) /\ UNCHANGED <<broker, walk>>
    BY <1>2 DEF Settle
  <2>3. Slot \in Messages
    BY <2>2, SlotIsUnused DEF Put
  <2> HIDE DEF e
  <2>4. QED
    BY <2>1, <2>2, <2>3, PutTypes, InsertTypes DEF ActivityTypeOK, broker
<1>3. ASSUME NEW m \in Messages, ConsumerStep(m) PROVE ActivityTypeOK'
  <2>1. ASSUME Deliver(m) PROVE ActivityTypeOK'
    BY <2>1 DEF Deliver, Consuming, Move, ActivityTypeOK, Stages, Unacked
  <2>2. ASSUME Insert(origin[m], event[m]) \/ UNCHANGED rows
        PROVE  rows' \in SUBSET Rows /\ IsFiniteSet(rows')
    <3>1. origin[m] \in Messages /\ event[m] \in Events
      BY DEF ActivityTypeOK
    <3>2. QED  BY <2>2, <3>1, InsertTypes DEF ActivityTypeOK
  <2>3. ASSUME Store(m) PROVE ActivityTypeOK'
    BY <2>2, <2>3 DEF Store, Consuming, Move, ActivityTypeOK, Stages, Unacked
  <2>4. ASSUME StoreFails(m) PROVE ActivityTypeOK'
    <3>1. AfterError(m) \in Stages
      BY DEF AfterError, Stages, Unacked
    <3>2. QED
      BY <2>2, <2>4, <3>1 DEF StoreFails, Consuming, Move, ActivityTypeOK
  <2>5. ASSUME Republish(m) PROVE ActivityTypeOK'
    <3>1. CASE channel = "open" /\ ~ GivesUp(m)
      <4>1. Slot \in Messages
        BY <2>5, <3>1, SlotIsUnused DEF Republish
      <4>2. NextAttempt(m) \in 0..2
        BY <3>1 DEF GivesUp, NextAttempt, ActivityTypeOK
      <4>3. QED
        BY <2>5, <3>1, <4>1, <4>2
        DEF Republish, ActivityTypeOK, Stages, Unacked
    <3>2. CASE channel = "closed" \/ GivesUp(m)
      BY <2>5, <3>2 DEF Republish, Move, ActivityTypeOK, Stages, Unacked
    <3>3. QED  BY <2>5, <3>1, <3>2 DEF Republish
  <2>6. ASSUME Ack(m) PROVE ActivityTypeOK'
    BY <2>6 DEF Ack, Consuming, Move, ActivityTypeOK, Stages
  <2>7. QED
    BY <1>3, <2>1, <2>3, <2>4, <2>5, <2>6 DEF ConsumerStep
<1>4. ASSUME CloseChannel PROVE ActivityTypeOK'
  BY <1>4 DEF CloseChannel, ActivityTypeOK, messages
<1>5. ASSUME StartAgain PROVE ActivityTypeOK'
  BY <1>5, ActivityAssumption DEF StartAgain, ActivityTypeOK, Stages
<1>6. ASSUME NEW w \in Walks, NEW e \in Events, StartWalk(w, e)
      PROVE  ActivityTypeOK'
  <2>1. TableOf(e) \subseteq Rows
    BY DEF TableOf, ActivityTypeOK
  <2>2. QED
    BY <1>6, <2>1
    DEF StartWalk, ActivityTypeOK, WalkStates, messages, broker
<1>7. ASSUME NEW w \in Walks, FetchPage(w) PROVE ActivityTypeOK'
  BY <1>7, FetchTypes
<1>8. QED
  BY <1>1, <1>2, <1>3, <1>4, <1>5, <1>6, <1>7 DEF ActivityStep

-----------------------------------------------------------------------------
(* The four shapes of a step on messages and rows.                         *)

(* A message that was not in use asks for e, at s.                         *)
IsPut(k, e, s) ==
    /\ stage[k] = "unused"
    /\ stage' = [stage EXCEPT ![k] = s]
    /\ event' = [event EXCEPT ![k] = e]
    /\ origin' = [origin EXCEPT ![k] = k]
    /\ attempts' = [attempts EXCEPT ![k] = 0]

IsSent(k, e) == IsPut(k, e, "ready") /\ e.table \in Queues /\ UNCHANGED rows

IsSettled(k, e) ==
    IsPut(k, e, "acked") /\ e.table = "transactions" /\ Adds(k, e)

(* Message m is repeated as message k.                                     *)
IsRepeated(m, k) ==
    /\ stage[m] = "republish" /\ stage[k] = "unused" /\ attempts[m] < 2
    /\ stage' = [stage EXCEPT ![k] = "ready", ![m] = "ack"]
    /\ event' = [event EXCEPT ![k] = event[m]]
    /\ origin' = [origin EXCEPT ![k] = origin[m]]
    /\ attempts' = [attempts EXCEPT ![k] = attempts[m] + 1]
    /\ UNCHANGED <<rows, dead, channel>>

(* Messages move on, and one of them may be stored.                        *)
Early == {"ready", "storing"}

IsMoved ==
    /\ UNCHANGED <<event, origin, attempts>>
    /\ \/ UNCHANGED rows
       \/ \E m \in Messages : /\ stage[m] = "storing" /\ stage'[m] \notin Early
                              /\ Adds(origin[m], event[m])
    /\ \A m \in Messages :
          \/ stage'[m] = stage[m]
          \/ /\ Live(m) /\ stage'[m] \in Stages
             /\ stage'[m] = "unused" => origin[m] # m
             /\ stage'[m] \in {"republish", "ack"}
                   => \/ stage[m] = "republish"
                      \/ event[m].table # "notifications"
             /\ stage'[m] \in Early
                   => stage[m] \in Early \/ restarts' = restarts + 1

LEMMA Shapes ==
    ASSUME ActivityTypeOK, ActivityStep
    PROVE  \/ \E k \in Messages, e \in Events : IsSent(k, e) \/ IsSettled(k, e)
           \/ \E m, k \in Messages : IsRepeated(m, k)
           \/ IsMoved
<1> USE DEF Early
<1> DEFINE Goal ==
           \/ \E k \in Messages, e \in Events : IsSent(k, e) \/ IsSettled(k, e)
           \/ \E m, k \in Messages : IsRepeated(m, k)
           \/ IsMoved
<1>0. UNCHANGED <<messages, rows>> => IsMoved
  BY DEF IsMoved, messages
<1>1. ASSUME NEW e \in Events, e.table \in Queues, Publish(e) PROVE Goal
  <2>1. CASE Put(e, "ready") /\ UNCHANGED rows
    BY <1>1, <2>1, SlotIsUnused DEF Put, Move, IsSent, IsPut
  <2>2. QED  BY <1>0, <1>1, <2>1 DEF Publish
<1>2. ASSUME NEW u \in Ids, Settle(u) PROVE Goal
  <2> DEFINE e == [table |-> "transactions", user |-> u]
  <2>1. e \in Events /\ e.table = "transactions"
    BY DEF Events, Tables
  <2>2. Put(e, "acked") /\ Insert(Slot, e)
    BY <1>2 DEF Settle
  <2> HIDE DEF e
  <2>3. Slot \in Messages /\ IsPut(Slot, e, "acked")
    BY <2>2, SlotIsUnused DEF Put, Move, IsPut
  <2>4. Adds(Slot, e)
    BY <2>1, <2>2, <2>3, InsertAdds
  <2>5. QED  BY <2>1, <2>3, <2>4 DEF IsSettled
<1>3. ASSUME NEW m \in Messages, ConsumerStep(m) PROVE Goal
  <2> USE DEF ActivityTypeOK, Live, Stages, Unacked
  <2>1. ASSUME Deliver(m) PROVE IsMoved
    BY <2>1 DEF Deliver, Consuming, Move, IsMoved
  <2>2. ASSUME stage[m] = "storing", Insert(origin[m], event[m])
        PROVE  Adds(origin[m], event[m])
    BY <2>2, InsertAdds
  <2>3. ASSUME Store(m) PROVE IsMoved
    BY <2>2, <2>3 DEF Store, Consuming, Move, IsMoved
  <2>4. ASSUME StoreFails(m) PROVE IsMoved
    <3>1. /\ AfterError(m) \in {"held", "republish"}
          /\ AfterError(m) = "republish" => event[m].table # "notifications"
      BY DEF AfterError
    <3>2. QED
      BY <2>2, <2>4, <3>1 DEF StoreFails, Consuming, Move, IsMoved
  <2>5. ASSUME Republish(m) PROVE IsMoved \/ (IsRepeated(m, Slot) /\ ~ NoRoom)
    <3>1. CASE channel = "open" /\ ~ GivesUp(m)
      BY <2>5, <3>1, SlotIsUnused
         DEF Republish, GivesUp, NextAttempt, IsRepeated
    <3>2. CASE channel = "closed" \/ GivesUp(m)
      <4>1. /\ stage[m] = "republish"
            /\ stage' = [stage EXCEPT ![m] = "ack"]
            /\ UNCHANGED <<event, origin, attempts, rows>>
        BY <2>5, <3>2 DEF Republish, Move
      <4>2. QED  BY <4>1 DEF IsMoved
    <3>3. QED  BY <2>5, <3>1, <3>2 DEF Republish
  <2>6. ASSUME Ack(m) PROVE IsMoved
    BY <2>6 DEF Ack, Consuming, Move, IsMoved
  <2>7. QED
    BY <1>3, <2>1, <2>3, <2>4, <2>5, <2>6, SlotIsUnused DEF ConsumerStep
<1>4. ASSUME CloseChannel PROVE IsMoved
  BY <1>0, <1>4 DEF CloseChannel
<1>5. ASSUME StartAgain PROVE IsMoved
  BY <1>5 DEF StartAgain, IsMoved, ActivityTypeOK, Live, Stages
<1>6. ASSUME NEW w \in Walks, NEW e \in Events, StartWalk(w, e) PROVE IsMoved
  BY <1>0, <1>6 DEF StartWalk
<1>7. ASSUME NEW w \in Walks, FetchPage(w) PROVE IsMoved
  BY <1>0, <1>7 DEF FetchPage
<1>8. QED
  BY <1>1, <1>2, <1>3, <1>4, <1>5, <1>6, <1>7 DEF ActivityStep

-----------------------------------------------------------------------------
(* Origins.                                                                *)

LEMMA OriginsKept ==
    ASSUME ActivityTypeOK, Origins, ActivityStep
    PROVE  Origins'
<1> USE DEF ActivityTypeOK
<1>1. ASSUME NEW k \in Messages, NEW e \in Events, NEW s \in {"ready", "acked"},
             IsPut(k, e, s)
      PROVE  /\ \A m \in Messages : stage'[m] # "unused" =>
                  /\ stage'[origin'[m]] # "unused"
                  /\ origin'[origin'[m]] = origin'[m]
                  /\ event'[origin'[m]] = event'[m]
             /\ \A r \in rows : stage'[r.from] # "unused"
                                /\ origin'[r.from] = r.from
             /\ stage'[k] # "unused" /\ origin'[k] = k
  BY <1>1 DEF Origins, IsPut, Rows
<1>2. ASSUME NEW k \in Messages, NEW e \in Events,
             IsSent(k, e) \/ IsSettled(k, e)
      PROVE  Origins'
  BY <1>1, <1>2 DEF IsSent, IsSettled, Adds, Origins
<1>3. ASSUME NEW m \in Messages, NEW k \in Messages, IsRepeated(m, k)
      PROVE  Origins'
  BY <1>3 DEF IsRepeated, Origins, Rows
<1>4. ASSUME IsMoved PROVE Origins'
  <2>1. \A m \in Messages : stage[m] = "unused" => stage'[m] = "unused"
    BY <1>4 DEF IsMoved, Live, Unacked
  <2>2. \A m \in Messages : origin[m] = m /\ stage[m] # "unused"
                            => stage'[m] # "unused"
    BY <1>4 DEF IsMoved
  <2>3. \A m \in Messages : stage'[m] # "unused" =>
           /\ stage'[origin'[m]] # "unused"
           /\ origin'[origin'[m]] = origin'[m]
           /\ event'[origin'[m]] = event'[m]
    BY <1>4, <2>1, <2>2 DEF IsMoved, Origins
  <2>4. \A r \in rows : stage'[r.from] # "unused" /\ origin'[r.from] = r.from
    BY <1>4, <2>2 DEF IsMoved, Origins, Rows
  <2>5. ASSUME NEW m \in Messages, stage[m] = "storing",
               Adds(origin[m], event[m])
        PROVE  \A r \in rows' :
                  stage'[r.from] # "unused" /\ origin'[r.from] = r.from
    <3>1. PICK r \in Rows : r.from = origin[m] /\ rows' = rows \cup {r}
      BY <2>5 DEF Adds
    <3>2. stage[origin[m]] # "unused" /\ origin[origin[m]] = origin[m]
      BY <2>5 DEF Origins
    <3>3. QED  BY <1>4, <2>2, <2>4, <3>1, <3>2 DEF IsMoved
  <2>6. QED  BY <1>4, <2>3, <2>4, <2>5 DEF IsMoved, Origins
<1>5. QED  BY <1>2, <1>3, <1>4, Shapes

-----------------------------------------------------------------------------
(* Repetitions.                                                            *)

LEMMA OnlyLoginsKept ==
    ASSUME ActivityTypeOK, Origins, OnlyLoginsRetried, ActivityStep
    PROVE  OnlyLoginsRetried'
<1> USE DEF ActivityTypeOK, OnlyLoginsRetried, Live, Unacked
<1>1. ASSUME NEW k \in Messages, NEW e \in Events,
             IsSent(k, e) \/ IsSettled(k, e)
      PROVE  OnlyLoginsRetried'
  BY <1>1 DEF IsSent, IsSettled, IsPut
<1>2. ASSUME NEW m \in Messages, NEW k \in Messages, IsRepeated(m, k)
      PROVE  OnlyLoginsRetried'
  BY <1>2 DEF IsRepeated
<1>3. ASSUME IsMoved PROVE OnlyLoginsRetried'
  <2> SUFFICES ASSUME NEW m \in Messages
               PROVE  /\ Live(m)' => event[m].table \in Queues
                      /\ stage'[m] \in {"republish", "ack"}
                            => event[m].table = "login_logs"
                      /\ stage'[m] # "unused" /\ origin[m] # m
                            => event[m].table = "login_logs"
    BY <1>3 DEF IsMoved
  <2>1. CASE stage'[m] = stage[m]
    BY <2>1
  <2>2. CASE stage'[m] # stage[m]
    BY <1>3, <2>2 DEF IsMoved, Queues
  <2>3. QED  BY <2>1, <2>2
<1>4. QED  BY <1>1, <1>2, <1>3, Shapes

-----------------------------------------------------------------------------
(* Deliveries.                                                             *)

LEMMA RestartsGrow ==
    ASSUME ActivityTypeOK, ActivityStep
    PROVE  restarts \in Nat /\ restarts' \in Nat /\ restarts' >= restarts
<1>1. restarts \in Nat
  BY ActivityAssumption DEF ActivityTypeOK
<1>2. restarts' = restarts \/ restarts' = restarts + 1
  BY DEF ActivityStep, Publish, Settle, ConsumerStep, Deliver, Store, StoreFails,
         Republish, Ack, Consuming, CloseChannel, StartAgain, StartWalk,
         FetchPage, broker
<1>3. QED  BY <1>1, <1>2

LEMMA FreshHasNoRows ==
    ASSUME ActivityTypeOK, Origins, NEW k \in Messages, stage[k] = "unused"
    PROVE  RowsOf(k) = {} /\ Cardinality(RowsOf(k)) = 0
BY FS_EmptySet DEF Origins, RowsOf

LEMMA DeliveriesKept ==
    ASSUME ActivityTypeOK, Origins, OnlyLoginsRetried, Deliveries, ActivityStep
    PROVE  Deliveries'
<1> USE RestartsGrow, RowsOfFinite
<1>1. ASSUME NEW k \in Messages, NEW e \in Events, IsSent(k, e)
      PROVE  Deliveries'
  <2>1. \A m \in Messages : RowsOf(m)' = RowsOf(m)
    BY <1>1 DEF IsSent, RowsOf
  <2>2. Cardinality(RowsOf(k)) = 0
    BY <1>1, FreshHasNoRows DEF IsSent, IsPut
  <2>3. QED
    BY <1>1, <2>1, <2>2 DEF IsSent, IsPut, Deliveries, ActivityTypeOK
<1>2. ASSUME NEW k \in Messages, NEW e \in Events, IsSettled(k, e)
      PROVE  Deliveries'
  <2>1. \A m \in Messages : m # k => RowsOf(m)' = RowsOf(m)
    BY <1>2, AddsRows DEF IsSettled
  <2>2. event'[k].table = "transactions"
    BY <1>2 DEF IsSettled, IsPut, ActivityTypeOK
  <2>3. QED
    BY <1>2, <2>1, <2>2 DEF IsSettled, IsPut, Deliveries, ActivityTypeOK
<1>3. ASSUME NEW m \in Messages, NEW k \in Messages, IsRepeated(m, k)
      PROVE  Deliveries'
  <2>1. \A n \in Messages : RowsOf(n)' = RowsOf(n)
    BY <1>3 DEF IsRepeated, RowsOf
  <2>2. event[m].table = "login_logs"
    BY <1>3 DEF IsRepeated, OnlyLoginsRetried
  <2>3. QED
    BY <1>3, <2>1, <2>2 DEF IsRepeated, Deliveries, ActivityTypeOK
<1>4. ASSUME IsMoved PROVE Deliveries'
  <2> SUFFICES ASSUME NEW n \in Messages, event[n].table = "notifications"
               PROVE  /\ Cardinality(RowsOf(n)') <= 1 + restarts'
                      /\ stage'[n] \in Early
                            => Cardinality(RowsOf(n)') <= restarts'
    BY <1>4 DEF IsMoved, Deliveries, Early
  <2>1. /\ Cardinality(RowsOf(n)) <= 1 + restarts
        /\ stage[n] \in Early => Cardinality(RowsOf(n)) <= restarts
    BY DEF Deliveries, Early
  <2>2. CASE RowsOf(n)' = RowsOf(n)
    <3>1. stage'[n] \in Early
             => stage[n] \in Early \/ restarts' = restarts + 1
      BY <1>4 DEF IsMoved
    <3>2. QED  BY <2>1, <2>2, <3>1
  <2>3. CASE RowsOf(n)' # RowsOf(n)
    <3>1. PICK m \in Messages : /\ stage[m] = "storing" /\ stage'[m] \notin Early
                                /\ Adds(origin[m], event[m])
      BY <1>4, <2>3 DEF IsMoved, RowsOf
    <3>2. origin[m] = n
      BY <2>3, <3>1, AddsRows DEF ActivityTypeOK
    <3>3. origin[m] = m
      BY <3>1, <3>2 DEF Origins, OnlyLoginsRetried
    <3>4. /\ Cardinality(RowsOf(n)') \in Nat
          /\ Cardinality(RowsOf(n)') <= Cardinality(RowsOf(n)) + 1
      BY <3>1, <3>2, AddsRows
    <3>5. QED  BY <2>1, <3>1, <3>2, <3>3, <3>4 DEF Early
  <2>4. QED  BY <2>2, <2>3
<1>5. QED  BY <1>1, <1>2, <1>3, <1>4, Shapes

-----------------------------------------------------------------------------
(* What is kept.                                                           *)

(* What a step does to messages with the broker: only an acknowledgement   *)
(* takes one away, a message that is to be acknowledged has been kept, and *)
(* a channel is opened only after what was to be acknowledged is back.     *)
KeepingStep ==
    /\ rows \subseteq rows' /\ dead \subseteq dead'
    /\ \A k \in Messages : stage[k] # "unused" =>
          /\ origin'[k] = origin[k] /\ event'[k] = event[k]
          /\ attempts'[k] = attempts[k]
    /\ \A k \in Messages :
          Live(k) => Live(k)' \/ (stage[k] = "ack" /\ channel = "open")
    /\ \A k, l \in Messages :
          Live(k) /\ Live(l) /\ k # l => Live(k)' \/ Live(l)'
    /\ \A k \in Messages :
          stage'[k] = "ack" /\ channel' = "open" =>
             \/ stage[k] = "ack" /\ channel = "open"
             \/ stage[k] = "republish" /\ Kept(origin[k], attempts[k] + 1)'
    /\ \A k \in Messages :
          stage[k] = "unused" /\ stage'[k] # "unused" =>
             stage'[k] = "ready" \/ event'[k].table = "transactions"

LEMMA KeepingSteps ==
    ASSUME ActivityTypeOK, ActivityStep
    PROVE  KeepingStep
<1> USE DEF ActivityTypeOK, Live, Unacked
<1>1. ASSUME NEW k \in Messages, NEW e \in Events, NEW s \in {"ready", "acked"},
             IsPut(k, e, s), rows \subseteq rows', UNCHANGED <<dead, channel>>,
             s = "ready" \/ e.table = "transactions"
      PROVE  KeepingStep
  <2>1. /\ stage'[k] = s /\ event'[k] = e
        /\ \A l \in Messages : l # k =>
              /\ stage'[l] = stage[l] /\ origin'[l] = origin[l]
              /\ event'[l] = event[l] /\ attempts'[l] = attempts[l]
    BY <1>1 DEF IsPut
  <2>2. stage[k] = "unused"
    BY <1>1 DEF IsPut
  <2>3. QED  BY <1>1, <2>1, <2>2 DEF KeepingStep
<1>2. ASSUME UNCHANGED <<messages, rows>>, dead \subseteq dead',
             channel' = channel \/ channel' = "closed"
      PROVE  KeepingStep
  BY <1>2 DEF KeepingStep, messages
<1>3. ASSUME NEW e \in Events, e.table \in Queues, Publish(e)
      PROVE  KeepingStep
  <2>1. CASE Put(e, "ready")
    <3>1. Slot \in Messages /\ IsPut(Slot, e, "ready")
      BY <2>1, SlotIsUnused DEF Put, Move, IsPut
    <3>2. QED  BY <1>1, <1>3, <3>1 DEF Publish, broker
  <2>2. QED  BY <1>2, <1>3, <2>1 DEF Publish, broker
<1>4. ASSUME NEW u \in Ids, Settle(u) PROVE KeepingStep
  <2> DEFINE e == [table |-> "transactions", user |-> u]
  <2>1. e \in Events /\ e.table = "transactions"
    BY DEF Events, Tables
  <2>2. Put(e, "acked") /\ Insert(Slot, e) /\ UNCHANGED broker
    BY <1>4 DEF Settle
  <2> HIDE DEF e
  <2>3. Slot \in Messages /\ IsPut(Slot, e, "acked")
    BY <2>2, SlotIsUnused DEF Put, Move, IsPut
  <2>4. rows \subseteq rows'
    BY <2>2 DEF Insert
  <2>5. QED  BY <1>1, <2>1, <2>2, <2>3, <2>4 DEF broker
<1>5. ASSUME NEW m \in Messages, NEW s \in Stages, Consuming(m, stage[m]),
             Move(m, s), rows \subseteq rows', UNCHANGED <<dead, channel>>,
             Live(m), s # "ack",
             \/ s \in {"storing", "held", "republish"}
             \/ stage[m] = "ack" /\ channel = "open"
      PROVE  KeepingStep
  <2>1. /\ stage'[m] = s
        /\ \A k \in Messages : k # m => stage'[k] = stage[k]
    BY <1>5 DEF Move
  <2>2. UNCHANGED <<event, origin, attempts, dead, channel>>
    BY <1>5 DEF Consuming
  <2>3. \A k \in Messages :
          Live(k) => Live(k)' \/ (stage[k] = "ack" /\ channel = "open")
    BY <1>5, <2>1
  <2>4. \A k, l \in Messages :
          Live(k) /\ Live(l) /\ k # l => Live(k)' \/ Live(l)'
    BY <2>1
  <2>5. QED  BY <1>5, <2>1, <2>2, <2>3, <2>4 DEF KeepingStep
<1>6. ASSUME NEW m \in Messages, ConsumerStep(m) PROVE KeepingStep
  <2>1. ASSUME Deliver(m) PROVE KeepingStep
    BY <1>5, <2>1 DEF Deliver, Consuming, Stages
  <2>2. ASSUME Store(m) PROVE KeepingStep
    BY <1>5, <2>2 DEF Store, Insert, Consuming, Stages
  <2>3. ASSUME StoreFails(m) PROVE KeepingStep
    <3>1. AfterError(m) \in {"held", "republish"}
      BY DEF AfterError
    <3>2. rows \subseteq rows'
      BY <2>3 DEF StoreFails, Insert
    <3>3. QED  BY <1>5, <2>3, <3>1, <3>2 DEF StoreFails, Consuming, Stages
  <2>4. ASSUME Republish(m) PROVE KeepingStep
    <3>1. CASE channel = "closed"
      BY <2>4, <3>1 DEF Republish, Move, KeepingStep
    <3>2. CASE channel = "open" /\ GivesUp(m)
      <4>1. /\ stage[m] = "republish" /\ dead' = dead \cup {origin[m]}
            /\ stage' = [stage EXCEPT ![m] = "ack"]
            /\ UNCHANGED <<event, origin, attempts, rows, channel>>
        BY <2>4, <3>2 DEF Republish, Move
      <4>2. Kept(origin[m], attempts[m] + 1)'
        BY <4>1 DEF Kept
      <4>3. QED  BY <4>1, <4>2 DEF KeepingStep
    <3>3. CASE channel = "open" /\ ~ GivesUp(m)
      <4>1. Slot \in Messages /\ IsRepeated(m, Slot)
        BY <2>4, <3>3, SlotIsUnused
         DEF Republish, GivesUp, NextAttempt, IsRepeated
      <4>2. PICK k \in Messages : IsRepeated(m, k)
        BY <4>1
      <4>3. /\ origin'[k] = origin[m] /\ attempts'[k] = attempts[m] + 1
            /\ stage'[k] = "ready" /\ stage[k] = "unused"
            /\ stage[m] = "republish" /\ stage'[m] = "ack" /\ k # m
            /\ origin'[m] = origin[m]
            /\ UNCHANGED <<rows, dead, channel>>
        BY <4>2 DEF IsRepeated
      <4>4. \A l \in Messages : l # k =>
               /\ origin'[l] = origin[l] /\ event'[l] = event[l]
               /\ attempts'[l] = attempts[l] /\ (l # m => stage'[l] = stage[l])
        BY <4>2 DEF IsRepeated
      <4>5. attempts[m] + 1 >= attempts[m] + 1
        OBVIOUS
      <4>6. Kept(origin[m], attempts[m] + 1)'
        BY <4>3, <4>4, <4>5 DEF Kept
      <4>7. QED  BY <4>3, <4>4, <4>6 DEF KeepingStep
    <3>4. QED  BY <3>1, <3>2, <3>3
  <2>5. ASSUME Ack(m) PROVE KeepingStep
    BY <1>5, <2>5 DEF Ack, Consuming, Stages
  <2>6. QED  BY <1>6, <2>1, <2>2, <2>3, <2>4, <2>5 DEF ConsumerStep
<1>7. ASSUME CloseChannel PROVE KeepingStep
  BY <1>2, <1>7 DEF CloseChannel
<1>8. ASSUME StartAgain PROVE KeepingStep
  BY <1>8 DEF StartAgain, KeepingStep
<1>9. ASSUME NEW w \in Walks, NEW e \in Events, StartWalk(w, e)
      PROVE  KeepingStep
  BY <1>2, <1>9 DEF StartWalk, broker
<1>10. ASSUME NEW w \in Walks, FetchPage(w) PROVE KeepingStep
  BY <1>2, <1>10 DEF FetchPage, broker
<1>11. QED
  BY <1>3, <1>4, <1>6, <1>7, <1>8, <1>9, <1>10 DEF ActivityStep

LEMMA StaysKept ==
    ASSUME ActivityTypeOK, OnlyLoginsRetried, AllKept, KeepingStep,
           NEW m \in Messages, NEW n \in Nat, Kept(m, n)
    PROVE  Kept(m, n)'
<1> USE DEF ActivityTypeOK
<1>1. Stored(m) \/ m \in dead => Kept(m, n)'
  BY DEF KeepingStep, Kept, Stored
<1>2. ASSUME NEW k \in Messages, origin[k] = m, attempts[k] >= n,
             Live(k), Live(k)'
      PROVE  Kept(m, n)'
  <2>1. origin'[k] = m /\ attempts'[k] >= n
    BY <1>2 DEF KeepingStep, Live, Unacked
  <2>2. QED  BY <1>2, <2>1 DEF Kept
<1>3. ASSUME NEW k \in Messages, origin[k] = m, attempts[k] >= n,
             Live(k), ~ Live(k)'
      PROVE  Kept(m, n)'
  <2>1. stage[k] = "ack" /\ channel = "open"
    BY <1>3 DEF KeepingStep
  <2>2. Kept(m, attempts[k] + 1)
    BY <1>3, <2>1 DEF AllKept
  <2>3. ASSUME NEW l \in Messages, origin[l] = m, Live(l),
               attempts[l] >= attempts[k] + 1
        PROVE  Kept(m, n)'
    <3>1. l # k /\ attempts[l] >= n
      BY <1>3, <2>3
    <3>2. Live(l)'
      BY <1>3, <2>3, <3>1 DEF KeepingStep
    <3>3. QED  BY <1>2, <2>3, <3>1, <3>2
  <2>4. QED  BY <1>1, <2>2, <2>3 DEF Kept
<1>4. QED  BY <1>1, <1>2, <1>3 DEF Kept

LEMMA AllKeptKept ==
    ASSUME ActivityTypeOK, Origins, OnlyLoginsRetried, AllKept, ActivityStep
    PROVE  AllKept'
<1> USE DEF ActivityTypeOK
<1>0. KeepingStep /\ ActivityTypeOK'
  BY KeepingSteps, TypesKept
<1>1. ASSUME NEW m \in Messages, stage'[m] # "unused",
             event'[m].table = "login_logs"
      PROVE  Kept(origin[m], 0)'
  <2>1. CASE stage[m] = "unused"
    <3>1. stage'[m] = "ready"
      BY <1>0, <1>1, <2>1 DEF KeepingStep
    <3>2. attempts'[m] >= 0
      BY <1>0
    <3>3. QED  BY <3>1, <3>2 DEF Kept, Live
  <2>2. CASE stage[m] # "unused"
    <3>1. event[m].table = "login_logs" /\ origin'[m] = origin[m]
      BY <1>0, <1>1, <2>2 DEF KeepingStep
    <3>2. PICK o \in Messages : o = origin[m]
      OBVIOUS
    <3>3. Kept(o, 0)
      BY <2>2, <3>1, <3>2 DEF AllKept
    <3>4. Kept(o, 0)'
      BY <1>0, <3>3, StaysKept
    <3>5. QED  BY <3>1, <3>2, <3>4
  <2>3. QED  BY <2>1, <2>2
<1>2. ASSUME NEW m \in Messages, stage'[m] = "ack", channel' = "open"
      PROVE  Kept(origin[m], attempts[m] + 1)'
  <2>1. CASE stage[m] = "ack" /\ channel = "open"
    <3>1. origin'[m] = origin[m] /\ attempts'[m] = attempts[m]
      BY <1>0, <2>1 DEF KeepingStep
    <3>2. PICK o \in Messages, n \in Nat : o = origin[m] /\ n = attempts[m] + 1
      OBVIOUS
    <3>3. Kept(o, n)
      BY <2>1, <3>2 DEF AllKept
    <3>4. Kept(o, n)'
      BY <1>0, <3>3, StaysKept
    <3>5. QED  BY <3>1, <3>2, <3>4
  <2>2. QED  BY <1>0, <1>2, <2>1 DEF KeepingStep
<1>3. QED  BY <1>1, <1>2 DEF AllKept

-----------------------------------------------------------------------------
(* Pages.                                                                  *)

LEMMA NewestFacts ==
    ASSUME NEW S, IsFiniteSet(S), NEW k \in Nat, NEW Q \in Newest(S, k)
    PROVE  /\ Q \subseteq S /\ IsFiniteSet(Q) /\ IsFiniteSet(S \ Q)
           /\ Cardinality(Q) \in Nat /\ Cardinality(S) \in Nat
           /\ Cardinality(Q) = k \/ Q = S
           /\ Cardinality(Q) <= k
           /\ \A q \in Q, r \in S \ Q : q.time >= r.time
<1>1. /\ Q \in SUBSET S
      /\ Cardinality(Q) = IF Cardinality(S) < k THEN Cardinality(S) ELSE k
      /\ \A q \in Q, r \in S \ Q : q.time >= r.time
  BY DEF Newest
<1>2. /\ IsFiniteSet(Q) /\ IsFiniteSet(S \ Q)
      /\ Cardinality(Q) \in Nat /\ Cardinality(S) \in Nat
      /\ Cardinality(Q) = Cardinality(S) => Q = S
  BY <1>1, FS_Subset, FS_CardinalityType
<1>3. QED  BY <1>1, <1>2

(* The pages before p, and page p itself, are full of rows that are newer  *)
(* than a row that is on none of them, and that row is still to come.      *)
LEMMA UnseenIsLater ==
    ASSUME NEW S, IsFiniteSet(S), NEW r \in S, NEW p \in Nat \ {0},
           \A q \in S : q.time \in Int,
           \A q \in S : q.time = r.time => q = r,
           NEW N, N = {q \in S : q.time > r.time},
           Cardinality(N) >= (p - 1) * Limit,
           NEW skipped \in Newest(S, (p - 1) * Limit),
           NEW items \in Newest(S \ skipped, Limit),
           r \notin items
    PROVE  Cardinality(N) >= p * Limit /\ ~ LastPage(p, Cardinality(S))
<1> DEFINE k == (p - 1) * Limit
<1>0. Limit \in Nat /\ Limit > 0 /\ k \in Nat /\ p * Limit = k + Limit
  BY ActivityAssumption
<1> HIDE DEF k
<1>1. /\ skipped \subseteq S /\ IsFiniteSet(skipped) /\ IsFiniteSet(S \ skipped)
      /\ Cardinality(skipped) \in Nat
      /\ Cardinality(skipped) = k \/ skipped = S
      /\ Cardinality(skipped) <= k
      /\ \A q \in skipped, s \in S \ skipped : q.time >= s.time
  <2>1. skipped \in Newest(S, k)
    BY DEF k
  <2>2. QED  BY <1>0, <2>1, NewestFacts
<1>2. /\ items \subseteq S \ skipped /\ IsFiniteSet(items)
      /\ Cardinality(items) \in Nat
      /\ Cardinality(items) = Limit \/ items = S \ skipped
      /\ \A q \in items, s \in (S \ skipped) \ items : q.time >= s.time
  <2> DEFINE T == S \ skipped
  <2>1. IsFiniteSet(T) /\ items \in Newest(T, Limit)
    BY <1>1
  <2> HIDE DEF T
  <2>2. /\ items \subseteq T /\ IsFiniteSet(items)
        /\ Cardinality(items) \in Nat
        /\ Cardinality(items) = Limit \/ items = T
        /\ \A q \in items, s \in T \ items : q.time >= s.time
    BY <1>0, <2>1, NewestFacts
  <2>3. QED  BY <2>2 DEF T
<1>3. N \subseteq S /\ IsFiniteSet(N) /\ Cardinality(N) \in Nat /\ r \notin N
  BY FS_Subset, FS_CardinalityType
<1>4. r \notin skipped
  <2>1. SUFFICES ASSUME r \in skipped PROVE FALSE
    OBVIOUS
  <2>2. N \cup {r} \subseteq skipped
    <3>1. ASSUME NEW q \in N, q \notin skipped PROVE FALSE
      BY <1>1, <2>1, <3>1
    <3>2. QED  BY <2>1, <3>1
  <2>3. Cardinality(N \cup {r}) = Cardinality(N) + 1
    BY <1>3, FS_AddElement
  <2>4. Cardinality(N \cup {r}) <= Cardinality(skipped)
    BY <1>1, <2>2, FS_Subset
  <2>5. Cardinality(N) >= k
    BY DEF k
  <2>6. QED  BY <1>0, <1>1, <1>3, <2>3, <2>4, <2>5
<1>5. Cardinality(skipped) = k /\ Cardinality(items) = Limit
  BY <1>1, <1>2, <1>4
<1>6. skipped \cup items \subseteq N
  <2>1. ASSUME NEW q \in skipped \cup items PROVE q.time >= r.time /\ q # r
    BY <1>1, <1>2, <1>4
  <2>2. QED  BY <1>1, <1>2, <2>1
<1>7. Cardinality(skipped \cup items) = k + Limit
  <2>1. Cardinality(skipped \cap items) = 0
    <3>1. skipped \cap items = {}
      BY <1>2
    <3>2. QED  BY <3>1, FS_EmptySet
  <2>2. Cardinality(skipped \cup items)
          = Cardinality(skipped) + Cardinality(items)
            - Cardinality(skipped \cap items)
    BY <1>1, <1>2, FS_Union
  <2>3. QED  BY <1>0, <1>5, <2>1, <2>2
<1>8. Cardinality(N) >= k + Limit
  BY <1>0, <1>3, <1>6, <1>7, FS_Subset
<1>9. Cardinality(S) >= Cardinality(N) + 1 /\ Cardinality(S) \in Nat
  <2>1. Cardinality(N \cup {r}) = Cardinality(N) + 1
    BY <1>3, FS_AddElement
  <2>2. N \cup {r} \in SUBSET S
    BY <1>3
  <2>3. QED  BY <2>1, <2>2, FS_Subset, FS_CardinalityType
<1>10. QED  BY <1>0, <1>3, <1>8, <1>9 DEF LastPage

LEMMA RowsGrow ==
    ASSUME ActivityTypeOK, ActivityTypeOK', rows \subseteq rows', NEW r \in Rows
    PROVE  /\ Untied(r)' => Untied(r)
           /\ Cardinality(Newer(r)) \in Nat /\ Cardinality(Newer(r)') \in Nat
           /\ Cardinality(Newer(r)') >= Cardinality(Newer(r))
<1>1. Untied(r)' => Untied(r)
  BY DEF Untied, TableOf
<1>2. Newer(r) \subseteq Newer(r)' /\ Newer(r) \subseteq rows
      /\ Newer(r)' \subseteq rows'
  BY DEF Newer, TableOf
<1>3. IsFiniteSet(Newer(r)) /\ IsFiniteSet(Newer(r)')
  BY <1>2, FS_Subset DEF ActivityTypeOK
<1>4. QED  BY <1>1, <1>2, <1>3, FS_Subset, FS_CardinalityType

(* Ahead for one client.                                                   *)
AheadOf(w) ==
    walk[w] # NotWalking =>
        /\ walk[w].start \subseteq TableOf(walk[w].event)
        /\ \A r \in walk[w].start \ walk[w].seen :
              Untied(r) =>
                 /\ walk[w].step = "walking"
                 /\ Cardinality(Newer(r)) >= (walk[w].page - 1) * Limit

LEMMA FetchKeepsAhead ==
    ASSUME ActivityTypeOK, NEW w \in Walks, AheadOf(w), FetchPage(w)
    PROVE  AheadOf(w)'
<1> DEFINE e == walk[w].event
           S == TableOf(e)
           p == walk[w].page
           last == LastPage(p, Cardinality(S))
<1>1. /\ walk[w] # NotWalking /\ walk[w].step = "walking"
      /\ UNCHANGED rows
  BY FetchPageFetches
<1>2. PICK skipped, items : Fetched(w, S, p, skipped, items)
  BY FetchPageFetches
<1>3. walk'[w] = [step |-> IF last THEN "done" ELSE "walking", event |-> e,
                  page |-> IF last THEN p ELSE p + 1,
                  seen |-> walk[w].seen \cup items, start |-> walk[w].start]
  BY <1>2 DEF Fetched, ActivityTypeOK
<1>4. /\ walk'[w].start = walk[w].start /\ walk'[w].event = e
      /\ walk'[w].seen = walk[w].seen \cup items
      /\ ~ last => walk'[w].step = "walking" /\ walk'[w].page = p + 1
  BY <1>3
<1>5. /\ \A r : Newer(r)' = Newer(r) /\ (Untied(r)' <=> Untied(r))
      /\ \A f : TableOf(f)' = TableOf(f)
  BY <1>1 DEF Newer, Untied, TableOf
<1>6. /\ walk[w].start \subseteq S /\ p \in Nat \ {0}
      /\ IsFiniteSet(S) /\ S \subseteq Rows
  BY <1>1, WalkTypes, FS_Subset DEF AheadOf, TableOf, ActivityTypeOK
<1>7. ASSUME NEW r \in walk[w].start \ (walk[w].seen \cup items), Untied(r)
      PROVE  Cardinality(Newer(r)) >= p * Limit /\ ~ last
  <2>1. r \in S /\ r.event = e
    BY <1>6 DEF TableOf
  <2>2. Cardinality(Newer(r)) >= (p - 1) * Limit
    BY <1>1, <1>7 DEF AheadOf
  <2>3. Newer(r) = {q \in S : q.time > r.time}
    BY <2>1 DEF Newer
  <2>4. \A q \in S : q.time = r.time => q = r
    BY <1>7, <2>1 DEF Untied
  <2>5. \A q \in S : q.time \in Int
    BY <1>6, ActivityAssumption DEF Rows
  <2>6. skipped \in Newest(S, (p - 1) * Limit)
        /\ items \in Newest(S \ skipped, Limit)
    BY <1>2 DEF Fetched
  <2> HIDE DEF S, p
  <2>7. QED
    BY <1>6, <1>7, <2>1, <2>2, <2>3, <2>4, <2>5, <2>6, UnseenIsLater
<1>8. (p + 1) - 1 = p
  BY <1>6
<1> HIDE DEF S, p, last, e
<1>9. ASSUME NEW r \in walk'[w].start \ walk'[w].seen, Untied(r)'
      PROVE  /\ walk'[w].step = "walking"
             /\ Cardinality(Newer(r)') >= (walk'[w].page - 1) * Limit
  BY <1>4, <1>5, <1>7, <1>8, <1>9
<1>10. walk'[w].start \subseteq TableOf(walk[w].event)'
  BY <1>4, <1>5, <1>6 DEF S
<1>11. QED  BY <1>9, <1>10 DEF AheadOf

LEMMA AheadKept ==
    ASSUME ActivityTypeOK, ActivityTypeOK', Ahead, ActivityStep
    PROVE  Ahead'
<1> SUFFICES ASSUME NEW w \in Walks PROVE AheadOf(w)'
  BY DEF Ahead, AheadOf
<1>0. AheadOf(w)
  BY DEF Ahead, AheadOf
<1>1. rows \subseteq rows'
  BY KeepingSteps DEF KeepingStep
<1>2. CASE walk'[w] = walk[w]
  <2> SUFFICES ASSUME walk[w] # NotWalking
               PROVE  AheadOf(w)'
    BY <1>2 DEF AheadOf
  <2>1. walk'[w].start \subseteq TableOf(walk[w].event)'
    BY <1>0, <1>2, <1>1 DEF AheadOf, TableOf
  <2>2. ASSUME NEW r \in walk[w].start \ walk[w].seen, Untied(r)'
        PROVE  /\ walk[w].step = "walking"
               /\ Cardinality(Newer(r)') >= (walk[w].page - 1) * Limit
    <3>1. r \in Rows
      BY WalkTypes
    <3>2. Untied(r) /\ Cardinality(Newer(r)') >= Cardinality(Newer(r))
          /\ Cardinality(Newer(r)') \in Nat /\ Cardinality(Newer(r)) \in Nat
      BY <1>1, <2>2, <3>1, RowsGrow
    <3>3. /\ walk[w].step = "walking"
          /\ Cardinality(Newer(r)) >= (walk[w].page - 1) * Limit
      BY <1>0, <2>2, <3>2 DEF AheadOf
    <3>4. PICK n \in Int : n = (walk[w].page - 1) * Limit
      BY WalkTypes, ActivityAssumption
    <3>5. QED  BY <3>2, <3>3, <3>4
  <2>3. QED  BY <1>2, <2>1, <2>2 DEF AheadOf
<1>3. CASE walk'[w] # walk[w]
  <2>1. CASE FetchPage(w)
    BY <1>0, <2>1, FetchKeepsAhead
  <2>2. CASE \E e \in Events : StartWalk(w, e)
    <3>1. PICK e \in Events : StartWalk(w, e)
      BY <2>2
    <3>2. walk'[w] = [step |-> "walking", event |-> e, page |-> 1,
                      seen |-> {}, start |-> TableOf(e)]
          /\ UNCHANGED rows
      BY <3>1 DEF StartWalk, ActivityTypeOK
    <3>3. walk'[w].start \subseteq TableOf(walk[w].event)'
      BY <3>2 DEF TableOf
    <3>4. \A r \in walk'[w].start : Cardinality(Newer(r)') \in Nat
      BY <1>1, <3>2, RowsGrow DEF TableOf, ActivityTypeOK
    <3>5. walk'[w].step = "walking" /\ (walk'[w].page - 1) * Limit = 0
      BY <3>2, ActivityAssumption
    <3>6. QED  BY <3>3, <3>4, <3>5 DEF AheadOf
  <2>3. FetchPage(w) \/ \E e \in Events : StartWalk(w, e)
    <3>1. ~ UNCHANGED walk
      BY <1>3
    <3>2. \/ \E v \in Walks, e \in Events : StartWalk(v, e)
          \/ \E v \in Walks : FetchPage(v)
      BY <3>1
      DEF ActivityStep, Publish, Settle, ConsumerStep, Deliver, Store,
          StoreFails, Republish, Ack, Consuming, CloseChannel, StartAgain
    <3>3. ASSUME NEW v \in Walks, v # w, NEW e \in Events
          PROVE  ~ StartWalk(v, e)
      BY <1>3, <3>3 DEF StartWalk, ActivityTypeOK
    <3>4. ASSUME NEW v \in Walks, v # w PROVE ~ FetchPage(v)
      BY <1>3, <3>4, FetchPageFetches DEF Fetched, ActivityTypeOK
    <3>5. QED  BY <3>2, <3>3, <3>4
  <2>4. QED  BY <2>1, <2>2, <2>3
<1>4. QED  BY <1>2, <1>3

-----------------------------------------------------------------------------
(* The invariant.                                                          *)

LEMMA ActivityInitially ==
    ASSUME ActivityInit
    PROVE  ActivityInv
<1>1. ActivityTypeOK
  BY ActivityAssumption, FS_EmptySet
  DEF ActivityInit, ActivityTypeOK, Stages, Events, NoEvent, Tables, Queues,
      WalkStates
<1>2. Origins /\ OnlyLoginsRetried /\ AllKept /\ Ahead
  BY DEF ActivityInit, Origins, OnlyLoginsRetried, AllKept, Ahead, Live, Unacked
<1>3. Deliveries
  BY DEF ActivityInit, Deliveries, NoEvent
<1>4. QED  BY <1>1, <1>2, <1>3 DEF ActivityInv

LEMMA ActivityInvKept ==
    ASSUME ActivityInv, ActivityStep
    PROVE  ActivityInv'
BY TypesKept, OriginsKept, OnlyLoginsKept, DeliveriesKept, AllKeptKept, AheadKept
DEF ActivityInv

LEMMA ActivityInvStutters ==
    ASSUME ActivityInv, UNCHANGED logVars
    PROVE  ActivityInv'
BY DEF logVars, messages, broker, ActivityInv, ActivityTypeOK, Origins,
       OnlyLoginsRetried, Deliveries, AllKept, Kept, Stored, Ahead, Live, RowsOf,
       Newer, Untied, TableOf
=============================================================================
