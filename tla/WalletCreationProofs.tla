------------------------ MODULE WalletCreationProofs ------------------------
(***************************************************************************)
(* Proofs about WalletCreation for any users, currencies, calls, readers   *)
(* and faults.  The invariant says what a call has already done at each of *)
(* its steps, and that every list on its way to or from Redis is honest.   *)
(***************************************************************************)
EXTENDS WalletCreation, TLAPS

-----------------------------------------------------------------------------
(* The inductive invariant.                                                *)

AfterInsert == {"logRequest", "cacheRequest", "notify", "getList", "setList"}

(* Call c has inserted its wallet and its client will learn of it, or has. *)
Inserted(c) == pc[c] \in AfterInsert \/ reply[c] = "created"

(* Call c has inserted its request as well.                                *)
Logged(c) == pc[c] \in AfterInsert \ {"logRequest"} \/ reply[c] = "created"

(* Replies are given at the end, and each step comes after what it needs.  *)
ControlOf(c) ==
    /\ reply[c] # "none" => pc[c] = "answered"
    /\ Inserted(c) => c \in wallets
    /\ Logged(c) => request[TxOf(c)] # "none"
    /\ pc[c] = "saveCache" => request[TxOf(c)] # "none"
    /\ pc[c] = "setList" => list[c] # NoList
    /\ reply[c] = "conflict" => Exists(c) \/ request[TxOf(c)] # "none"

Control == \A c \in Calls : ControlOf(c)

(* The unique key on txId: of the calls with one txId one is logged.       *)
LoggedOnce ==
    \A b, c \in Calls : Logged(b) /\ Logged(c) /\ TxOf(b) = TxOf(c) => b = c

(* A key that says "success" was stored after the row.                     *)
CachedIsLogged == \A t \in requestCache : request[t] # "none"

(* List l may be shown to user u: a wallet is in it twice only after its   *)
(* own call has added it to a list that had it already.                    *)
Honest(l, u) ==
    \A c \in Calls :
        /\ l[c] > 0 => c \in wallets /\ UserOf(c) = u
        /\ l[c] <= IF pc[c] = "answered" THEN 2 ELSE 1

AllHonest ==
    /\ \A u \in Users : walletsCache[u] # NoList => Honest(walletsCache[u], u)
    /\ \A c \in Calls : list[c] # NoList => Honest(list[c], UserOf(c))
    /\ \A d \in Readers :
          reader[d].step = "cache" => Honest(reader[d].list, reader[d].user)

CreationInv ==
    /\ TypeOK
    /\ Control
    /\ LoggedOnce
    /\ CachedIsLogged
    /\ AllHonest

-----------------------------------------------------------------------------
(* Types.                                                                  *)

USE DEF tables, keys, calls, vars

LEMMA OneMore ==
    ASSUME NEW l \in [Calls -> Nat], NEW c \in Calls
    PROVE  [l EXCEPT ![c] = @ + 1] \in [Calls -> Nat]
OBVIOUS

LEMMA TypeCalls ==
    ASSUME TypeOK, Control, NEW c \in Calls,
           Call(c) \/ CallStep(c) \/ CallThrows(c) \/ ReplyLost(c)
    PROVE  TypeOK'
<1> USE CreationAssumption DEF TypeOK, At, Continue, Go, Answer, CallSteps,
        RedisSteps, DbSteps, Statuses, Lists
<1>1. TxOf(c) \in TxIds /\ UserOf(c) \in Users
  BY DEF TxOf, UserOf, Bodies
<1>2. CASE Call(c)
  BY <1>2 DEF Call
<1>3. CASE GetCache(c)
  BY <1>3 DEF GetCache
<1>4. CASE FindRequest(c)
  BY <1>4 DEF FindRequest
<1>5. CASE SaveCache(c)
  BY <1>5, <1>1 DEF SaveCache
<1>6. CASE FindWallet(c)
  BY <1>6 DEF FindWallet
<1>7. CASE CreateWallet(c)
  <2>1. wallets' \subseteq Calls
    BY <1>7 DEF CreateWallet, InsertWallet
  <2>2. pc' \in [Calls -> {"idle", "answered"} \cup CallSteps]
    BY <1>7 DEF CreateWallet
  <2>3. QED
    BY <1>7, <2>1, <2>2 DEF CreateWallet
<1>8. CASE LogRequest(c)
  BY <1>8, <1>1 DEF LogRequest, InsertRequest
<1>9. CASE CacheRequest(c)
  BY <1>9, <1>1 DEF CacheRequest
<1>10. CASE Notify(c)
  BY <1>10 DEF Notify
<1>11. CASE GetList(c)
  BY <1>11, <1>1 DEF GetList
<1>12. CASE SetList(c)
  <2>1. list[c] \in [Calls -> Nat]
    BY <1>12 DEF SetList, Control, ControlOf
  <2>2. [list[c] EXCEPT ![c] = @ + 1] \in [Calls -> Nat]
    BY <2>1, OneMore
  <2>3. walletsCache' \in [Users -> Lists \cup {NoList}]
    BY <1>12, <1>1, <2>2 DEF SetList
  <2>4. QED
    BY <1>12, <2>3 DEF SetList
<1>13. CASE CallThrows(c)
  BY <1>13 DEF CallThrows
<1>14. CASE ReplyLost(c)
  BY <1>14, <1>1 DEF ReplyLost, InsertWallet, InsertRequest
<1>15. QED
  BY <1>2, <1>3, <1>4, <1>5, <1>6, <1>7, <1>8, <1>9, <1>10, <1>11, <1>12,
     <1>13, <1>14 DEF CallStep

(* The steps of Next that no call of createWallet takes.                   *)
OtherNext ==
    \/ \E d \in Readers :
          (\E u \in Users : StartRead(d, u)) \/ ReadStep(d) \/ ReadThrows(d)
    \/ \E u \in Users : ExpireList(u)
    \/ \E t \in TxIds :
          ExpireRequest(t) \/ OtherRequest(t) \/ CacheOtherRequest(t)
    \/ Restart
    \/ Finished

LEMMA TypeOthers ==
    ASSUME TypeOK, OtherNext
    PROVE  TypeOK'
<1> USE DEF TypeOK, Elsewhere, Reading, NotReading, ReaderStates
<1>1. \A u \in Users : ListOf(u) \in Lists
  BY DEF ListOf, Lists
<1>2. ASSUME NEW d \in Readers, NEW u \in Users, StartRead(d, u)
      PROVE  TypeOK'
  BY <1>2 DEF StartRead
<1>3. ASSUME NEW d \in Readers, FindWallets(d)
      PROVE  TypeOK'
  <2>1. reader[d] \in [step : {"find"}, user : Users]
    BY <1>3 DEF FindWallets
  <2>2. QED
    BY <1>1, <1>3, <2>1 DEF FindWallets
<1>4. ASSUME NEW d \in Readers, CacheWallets(d)
      PROVE  TypeOK'
  <2>1. reader[d] \in [step : {"cache"}, user : Users, list : Lists]
    BY <1>4 DEF CacheWallets
  <2>2. QED
    BY <1>4, <2>1 DEF CacheWallets
<1>5. ASSUME NEW d \in Readers, ReadThrows(d)
      PROVE  TypeOK'
  BY <1>5 DEF ReadThrows
<1>6. ASSUME NEW u \in Users, ExpireList(u)
      PROVE  TypeOK'
  BY <1>6 DEF ExpireList
<1>7. ASSUME NEW t \in TxIds, ExpireRequest(t)
      PROVE  TypeOK'
  BY <1>7 DEF ExpireRequest
<1>8. ASSUME NEW t \in TxIds, OtherRequest(t)
      PROVE  TypeOK'
  BY <1>8 DEF OtherRequest, Statuses
<1>9. ASSUME NEW t \in TxIds, CacheOtherRequest(t)
      PROVE  TypeOK'
  BY <1>9 DEF CacheOtherRequest
<1>10. CASE Restart
  BY <1>10 DEF Restart, CallSteps
<1>11. CASE Finished
  BY <1>11 DEF Finished
<1>12. QED
  BY <1>2, <1>3, <1>4, <1>5, <1>6, <1>7, <1>8, <1>9, <1>10, <1>11
     DEF OtherNext, ReadStep

-----------------------------------------------------------------------------
(* What has been done at each step, and the unique key on txId.            *)

Ordered == Control /\ LoggedOnce /\ CachedIsLogged

(* No step removes a wallet or a request.                                  *)
Grows ==
    /\ body' = body
    /\ wallets \subseteq wallets'
    /\ \A t \in TxIds : request[t] # "none" => request'[t] # "none"

(* What a step of call c does to the other calls, to itself and to keys.   *)
OthersStay(c) ==
    \A b \in Calls \ {c} : pc'[b] = pc[b] /\ reply'[b] = reply[b] /\ list'[b] = list[b]

LogsNew(c) == Logged(c)' => Logged(c) \/ request[TxOf(c)] = "none"

CachesLogged(c) ==
    \A t \in requestCache' \ requestCache :
        t = TxOf(c) /\ request[t] # "none"

LEMMA CallFacts ==
    ASSUME TypeOK, Ordered, NEW c \in Calls,
           Call(c) \/ CallStep(c) \/ CallThrows(c) \/ ReplyLost(c)
    PROVE  Grows /\ OthersStay(c) /\ ControlOf(c)' /\ LogsNew(c) /\ CachesLogged(c)
<1> TxOf(c) \in TxIds
  BY DEF TypeOK, TxOf, Bodies
<1> ControlOf(c) /\ (TxOf(c) \in requestCache => request[TxOf(c)] # "none")
  BY DEF Ordered, Control, CachedIsLogged
<1> USE DEF TypeOK, Grows, OthersStay, ControlOf, LogsNew, CachesLogged,
        Inserted, Logged, AfterInsert, TxOf, At, Continue, Go, Answer,
        CallSteps, RedisSteps, DbSteps, Statuses, Exists, SameWallet
<1>1. CASE Call(c)
  BY <1>1 DEF Call
<1>2. CASE GetCache(c)
  BY <1>2 DEF GetCache
<1>3. CASE FindRequest(c)
  BY <1>3 DEF FindRequest
<1>4. CASE SaveCache(c)
  BY <1>4 DEF SaveCache
<1>5. CASE FindWallet(c)
  BY <1>5 DEF FindWallet
<1>6. CASE CreateWallet(c)
  BY <1>6 DEF CreateWallet, InsertWallet
<1>7. CASE LogRequest(c)
  BY <1>7 DEF LogRequest, InsertRequest
<1>8. CASE CacheRequest(c)
  BY <1>8 DEF CacheRequest
<1>9. CASE Notify(c)
  BY <1>9 DEF Notify
<1>10. CASE GetList(c)
  BY <1>10 DEF GetList
<1>11. CASE SetList(c)
  BY <1>11 DEF SetList
<1>12. CASE CallThrows(c)
  BY <1>12 DEF CallThrows
<1>13. CASE ReplyLost(c)
  BY <1>13 DEF ReplyLost, InsertWallet, InsertRequest
<1>14. QED
  BY <1>1, <1>2, <1>3, <1>4, <1>5, <1>6, <1>7, <1>8, <1>9, <1>10, <1>11, <1>12,
     <1>13 DEF CallStep

LEMMA OrderedCalls ==
    ASSUME TypeOK, Ordered, NEW c \in Calls,
           Call(c) \/ CallStep(c) \/ CallThrows(c) \/ ReplyLost(c)
    PROVE  Ordered'
<1>1. Grows /\ OthersStay(c) /\ ControlOf(c)' /\ LogsNew(c) /\ CachesLogged(c)
  BY CallFacts
<1>2. \A b \in Calls : TxOf(b) \in TxIds /\ TxOf(b)' = TxOf(b)
  BY <1>1 DEF TypeOK, TxOf, Bodies, Grows
<1>3. \A b \in Calls \ {c} : (Logged(b)' <=> Logged(b)) /\ (Inserted(b)' <=> Inserted(b))
  BY <1>1 DEF OthersStay, Logged, Inserted
<1>4. \A b \in Calls : Exists(b) => Exists(b)'
  BY <1>1 DEF Exists, SameWallet, Grows
<1>5. ASSUME NEW b \in Calls \ {c}
      PROVE  ControlOf(b)'
  BY <1>1, <1>2, <1>3, <1>4 DEF Ordered, Control, ControlOf, OthersStay, Grows
<1>6. ASSUME NEW a \in Calls, NEW b \in Calls,
             Logged(a)', Logged(b)', TxOf(a)' = TxOf(b)'
      PROVE  a = b
  <2>1. \A d \in Calls : Logged(d) => request[TxOf(d)] # "none"
    BY DEF Ordered, Control, ControlOf
  <2>2. CASE a = c /\ b # c
    BY <1>1, <1>2, <1>3, <1>6, <2>1, <2>2 DEF Ordered, LoggedOnce, LogsNew
  <2>3. CASE a # c /\ b = c
    BY <1>1, <1>2, <1>3, <1>6, <2>1, <2>3 DEF Ordered, LoggedOnce, LogsNew
  <2>4. CASE a # c /\ b # c
    BY <1>2, <1>3, <1>6, <2>4 DEF Ordered, LoggedOnce
  <2>5. QED
    BY <2>2, <2>3, <2>4
<1>7. CachedIsLogged'
  BY <1>1, <1>2 DEF Ordered, CachedIsLogged, CachesLogged, Grows, TypeOK
<1>8. Control'
  BY <1>1, <1>5 DEF Control
<1>9. LoggedOnce'
  BY <1>6 DEF LoggedOnce
<1>10. QED
  BY <1>7, <1>8, <1>9 DEF Ordered

LEMMA OrderedOthers ==
    ASSUME TypeOK, Ordered, OtherNext
    PROVE  Ordered'
<1> USE DEF TypeOK
<1>1. CASE UNCHANGED calls /\ UNCHANGED wallets
  <2>1. Grows /\ CachedIsLogged'
    BY <1>1 DEF OtherNext, Ordered, CachedIsLogged, Grows, StartRead, ReadStep,
       FindWallets, CacheWallets, ReadThrows, Reading, ExpireList,
       ExpireRequest, OtherRequest, CacheOtherRequest, Restart, Finished,
       Elsewhere, Statuses
  <2>2. \A b \in Calls : TxOf(b) \in TxIds
    BY DEF TxOf, Bodies
  <2>3. Control'
    BY <1>1, <2>1, <2>2 DEF Ordered, Control, ControlOf, Grows, Inserted, Logged,
       Exists, SameWallet, TxOf
  <2>4. LoggedOnce'
    BY <1>1 DEF Ordered, LoggedOnce, Logged, TxOf
  <2>5. QED
    BY <2>1, <2>3, <2>4 DEF Ordered
<1>2. CASE Restart
  <2>1. \A b \in Calls :
          /\ Logged(b)' => Logged(b)
          /\ Inserted(b)' => Inserted(b)
          /\ reply'[b] # "none" => pc'[b] = "answered"
          /\ reply'[b] = "conflict" => reply[b] = "conflict"
          /\ pc'[b] \notin CallSteps
          /\ TxOf(b)' = TxOf(b)
    BY <1>2 DEF Restart, Ordered, Control, ControlOf, Logged, Inserted,
       AfterInsert, CallSteps, RedisSteps, DbSteps, TxOf
  <2>2. Control'
    BY <1>2, <2>1 DEF Restart, Ordered, Control, ControlOf, Exists, SameWallet,
       CallSteps, RedisSteps, DbSteps
  <2>3. LoggedOnce' /\ CachedIsLogged'
    BY <1>2, <2>1 DEF Restart, Ordered, LoggedOnce, CachedIsLogged
  <2>4. QED
    BY <2>2, <2>3 DEF Ordered
<1>3. QED
  BY <1>1, <1>2 DEF OtherNext, StartRead, ReadStep, FindWallets, CacheWallets,
     ReadThrows, Reading, ExpireList, ExpireRequest, OtherRequest,
     CacheOtherRequest, Finished, Elsewhere

-----------------------------------------------------------------------------
(* Lists stay honest wherever they are kept.                               *)

(* Calls that have answered stay answered.                                 *)
AnsweredStay == \A c \in Calls : pc[c] = "answered" => pc'[c] = "answered"

(* Honest, of the next state and a list of this one.                       *)
HonestNext(l, u) ==
    \A c \in Calls :
        /\ l[c] > 0 => c \in wallets' /\ UserOf(c)' = u
        /\ l[c] <= IF pc'[c] = "answered" THEN 2 ELSE 1

LEMMA HonestStays ==
    ASSUME Grows, AnsweredStay, NEW l \in Lists, NEW u, Honest(l, u)
    PROVE  HonestNext(l, u)
<1> SUFFICES ASSUME NEW c \in Calls
             PROVE  /\ l[c] > 0 => c \in wallets' /\ UserOf(c)' = u
                    /\ l[c] <= IF pc'[c] = "answered" THEN 2 ELSE 1
  BY DEF HonestNext
<1>1. l[c] \in Nat
  BY DEF Lists
<1>2. QED
  BY <1>1 DEF Honest, Grows, AnsweredStay, UserOf

(* Where the lists of the next state come from.                            *)
LEMMA KeptLists ==
    ASSUME TypeOK, TypeOK', AllHonest, Grows, AnsweredStay,
           \A u \in Users : walletsCache'[u] # NoList =>
                HonestNext(walletsCache'[u], u),
           \A c \in Calls : list'[c] # NoList =>
                HonestNext(list'[c], UserOf(c)),
           \A d \in Readers : reader'[d].step = "cache" =>
                HonestNext(reader'[d].list, reader'[d].user)
    PROVE  AllHonest'
BY DEF AllHonest, HonestNext, Honest, Grows, UserOf

LEMMA HonestCalls ==
    ASSUME TypeOK, TypeOK', Ordered, AllHonest, NEW c \in Calls,
           Call(c) \/ CallStep(c) \/ CallThrows(c) \/ ReplyLost(c)
    PROVE  AllHonest'
<1>1. Grows /\ OthersStay(c)
  BY CallFacts
<1>2. pc[c] # "answered" /\ UNCHANGED reader
  BY DEF Call, CallStep, GetCache, FindRequest, SaveCache, FindWallet,
     CreateWallet, LogRequest, CacheRequest, Notify, GetList, SetList,
     CallThrows, ReplyLost, At, RedisSteps, DbSteps
<1>3. AnsweredStay
  BY <1>1, <1>2 DEF AnsweredStay, OthersStay
<1>4. /\ \A u \in Users : walletsCache[u] # NoList =>
            HonestNext(walletsCache[u], u)
      /\ \A b \in Calls : list[b] # NoList => HonestNext(list[b], UserOf(b))
      /\ \A d \in Readers : reader[d].step = "cache" =>
            HonestNext(reader[d].list, reader[d].user)
  <2>1. \A d \in Readers : reader[d].step = "cache" => reader[d].list \in Lists
    BY DEF TypeOK, ReaderStates, NotReading
  <2>2. QED
    BY <1>1, <1>3, <2>1, HonestStays DEF AllHonest, TypeOK
<1>5. UserOf(c) \in Users
  BY DEF TypeOK, UserOf, Bodies
<1>6. \A b \in Calls : list'[b] # NoList => HonestNext(list'[b], UserOf(b))
  <2>1. \/ list'[c] = NoList
        \/ list'[c] = list[c]
        \/ list'[c] = walletsCache[UserOf(c)] /\ list'[c] # NoList
    BY DEF TypeOK, Call, CallStep, GetCache, FindRequest, SaveCache, FindWallet,
       CreateWallet, LogRequest, CacheRequest, Notify, GetList, SetList,
       CallThrows, ReplyLost, At, Answer, Continue, Go
  <2>2. QED
    BY <1>1, <1>4, <1>5, <2>1 DEF OthersStay
<1>7. CASE SetList(c)
  <2> DEFINE l == list[c]
             u == UserOf(c)
  <2>1. l # NoList /\ l \in [Calls -> Nat] /\ c \in wallets
    BY <1>7 DEF SetList, At, Ordered, Control, ControlOf, Inserted, AfterInsert,
       TypeOK, Lists
  <2>2. walletsCache' = [walletsCache EXCEPT ![u] = [l EXCEPT ![c] = l[c] + 1]]
    BY <1>7 DEF SetList
  <2>3. pc'[c] = "answered" /\ body' = body /\ wallets' = wallets
    BY <1>7 DEF SetList, Answer, Go, At, TypeOK
  <2>4. l[c] <= 1
    BY <1>2, <2>1 DEF AllHonest, Honest
  <2>5. HonestNext([l EXCEPT ![c] = l[c] + 1], u)
    <3> SUFFICES ASSUME NEW b \in Calls
                 PROVE  LET n == [l EXCEPT ![c] = l[c] + 1] IN
                        /\ n[b] > 0 => b \in wallets' /\ UserOf(b)' = u
                        /\ n[b] <= IF pc'[b] = "answered" THEN 2 ELSE 1
      BY DEF HonestNext
    <3>1. CASE b = c
      BY <2>1, <2>3, <2>4, <3>1 DEF UserOf
    <3>2. CASE b # c
      BY <1>4, <2>1, <3>2 DEF HonestNext
    <3>3. QED
      BY <3>1, <3>2
  <2>6. \A v \in Users : walletsCache'[v] # NoList =>
            HonestNext(walletsCache'[v], v)
    BY <1>4, <1>5, <2>2, <2>5 DEF TypeOK
  <2>7. QED
    BY <1>1, <1>2, <1>3, <1>4, <1>6, <2>6, KeptLists
<1>8. CASE ~ SetList(c)
  <2>1. UNCHANGED walletsCache
    BY <1>8 DEF Call, CallStep, GetCache, FindRequest, SaveCache, FindWallet,
       CreateWallet, LogRequest, CacheRequest, Notify, GetList,
       CallThrows, ReplyLost
  <2>2. QED
    BY <1>1, <1>2, <1>3, <1>4, <1>6, <2>1, KeptLists
<1>9. QED
  BY <1>7, <1>8

LEMMA HonestOthers ==
    ASSUME TypeOK, TypeOK', AllHonest, OtherNext
    PROVE  AllHonest'
<1>1. Grows /\ AnsweredStay
  BY DEF TypeOK, OtherNext, Grows, AnsweredStay, StartRead, ReadStep,
     FindWallets, CacheWallets, ReadThrows, Reading, ExpireList, ExpireRequest,
     OtherRequest, CacheOtherRequest, Restart, Finished, Elsewhere, Statuses
<1>2. /\ \A u \in Users : walletsCache[u] # NoList =>
            HonestNext(walletsCache[u], u)
      /\ \A b \in Calls : list[b] # NoList => HonestNext(list[b], UserOf(b))
      /\ \A d \in Readers : reader[d].step = "cache" =>
            HonestNext(reader[d].list, reader[d].user)
  <2>1. \A d \in Readers : reader[d].step = "cache" => reader[d].list \in Lists
    BY DEF TypeOK, ReaderStates, NotReading
  <2>2. QED
    BY <1>1, <2>1, HonestStays DEF AllHonest, TypeOK
<1>3. \A b \in Calls : list'[b] = list[b] \/ list'[b] = NoList
  BY DEF TypeOK, OtherNext, StartRead, ReadStep, FindWallets, CacheWallets,
     ReadThrows, Reading, ExpireList, ExpireRequest, OtherRequest,
     CacheOtherRequest, Restart, Finished, Elsewhere
<1>4. \A u \in Users : walletsCache'[u] # NoList => HonestNext(walletsCache'[u], u)
  <2>1. CASE \E d \in Readers : CacheWallets(d)
    <3>1. PICK d \in Readers : CacheWallets(d)
      BY <2>1
    <3>2. reader[d] \in [step : {"cache"}, user : Users, list : Lists]
      BY <3>1 DEF CacheWallets, Reading, TypeOK, ReaderStates, NotReading
    <3>3. QED
      BY <1>2, <3>1, <3>2 DEF CacheWallets, Reading, TypeOK
  <2>2. CASE ~ \E d \in Readers : CacheWallets(d)
    <3>1. \A u \in Users :
            walletsCache'[u] = walletsCache[u] \/ walletsCache'[u] = NoList
      BY <2>2 DEF TypeOK, OtherNext, StartRead, ReadStep, FindWallets,
         ReadThrows, ExpireList, ExpireRequest, OtherRequest,
         CacheOtherRequest, Restart, Finished
    <3>2. QED
      BY <1>2, <3>1
  <2>3. QED
    BY <2>1, <2>2
<1>5. \A d \in Readers : reader'[d].step = "cache" =>
            HonestNext(reader'[d].list, reader'[d].user)
  <2>1. CASE \E e \in Readers : FindWallets(e)
    <3>1. PICK e \in Readers : FindWallets(e)
      BY <2>1
    <3>2. \A u \in Users : HonestNext(ListOf(u), u)
      <4>1. UNCHANGED <<wallets, body, pc>>
        BY <3>1 DEF FindWallets, Reading
      <4>2. ASSUME NEW u \in Users, NEW c \in Calls
            PROVE  /\ ListOf(u)[c] > 0 => c \in wallets /\ UserOf(c) = u
                   /\ ListOf(u)[c] <= 1
        BY DEF ListOf
      <4>3. \A c \in Calls : UserOf(c)' = UserOf(c)
        BY <4>1 DEF UserOf
      <4>4. ASSUME NEW u \in Users, NEW c \in Calls
            PROVE  ListOf(u)[c] \in Nat
        BY DEF ListOf
      <4>5. QED
        BY <4>1, <4>2, <4>3, <4>4 DEF HonestNext
    <3>3. reader[e] \in [step : {"find"}, user : Users]
      BY <3>1 DEF FindWallets, Reading, TypeOK, ReaderStates, NotReading
    <3>4. reader' = [reader EXCEPT ![e] = [step |-> "cache",
                user |-> reader[e].user, list |-> ListOf(reader[e].user)]]
      BY <3>1 DEF FindWallets
    <3>5. reader[e].user \in Users
      BY <3>3
    <3>6. ASSUME NEW d \in Readers, reader'[d].step = "cache"
          PROVE  HonestNext(reader'[d].list, reader'[d].user)
      <4>1. CASE d = e
        <5>1. reader'[d].user = reader[e].user
              /\ reader'[d].list = ListOf(reader[e].user)
          BY <3>4, <4>1 DEF TypeOK
        <5>2. QED
          BY <3>2, <3>5, <5>1
      <4>2. CASE d # e
        BY <1>2, <3>4, <3>6, <4>2 DEF TypeOK
      <4>3. QED
        BY <4>1, <4>2
    <3>7. QED
      BY <3>6
  <2>2. CASE ~ \E e \in Readers : FindWallets(e)
    <3>1. \A d \in Readers :
            reader'[d] = reader[d] \/ reader'[d].step # "cache"
      <4>1. CASE \E e \in Readers, u \in Users : StartRead(e, u)
        BY <4>1 DEF StartRead, Reading, TypeOK
      <4>2. CASE \E e \in Readers : CacheWallets(e) \/ ReadThrows(e)
        BY <4>2 DEF CacheWallets, ReadThrows, Reading, NotReading, TypeOK
      <4>3. CASE Restart
        BY <4>3 DEF Restart, NotReading
      <4>4. CASE UNCHANGED reader
        BY <4>4
      <4>5. QED
        BY <2>2, <4>1, <4>2, <4>3, <4>4 DEF OtherNext, ReadStep, ExpireList,
           ExpireRequest, OtherRequest, CacheOtherRequest, Finished, Elsewhere
    <3>2. QED
      BY <1>2, <3>1
  <2>3. QED
    BY <2>1, <2>2
<1>6. \A b \in Calls : list'[b] # NoList => HonestNext(list'[b], UserOf(b))
  BY <1>2, <1>3
<1>7. QED
  BY <1>1, <1>4, <1>5, <1>6, KeptLists

-----------------------------------------------------------------------------
(* The theorems.                                                           *)

LEMMA InvStep ==
    ASSUME CreationInv, [Next]_vars
    PROVE  CreationInv'
<1> USE DEF CreationInv, Ordered
<1>1. ASSUME NEW c \in Calls,
             Call(c) \/ CallStep(c) \/ CallThrows(c) \/ ReplyLost(c)
      PROVE  CreationInv'
  <2>1. TypeOK'
    BY <1>1, TypeCalls
  <2>2. QED
    BY <1>1, <2>1, OrderedCalls, HonestCalls
<1>2. CASE OtherNext
  <2>1. TypeOK'
    BY <1>2, TypeOthers
  <2>2. QED
    BY <1>2, <2>1, OrderedOthers, HonestOthers
<1>3. CASE UNCHANGED vars
  <2>1. TypeOK' /\ LoggedOnce' /\ CachedIsLogged'
    BY <1>3 DEF TypeOK, LoggedOnce, CachedIsLogged, Logged, TxOf
  <2>2. Control'
    BY <1>3 DEF Control, ControlOf, Inserted, Logged, Exists, SameWallet, TxOf
  <2>3. AllHonest'
    BY <1>3 DEF AllHonest, Honest, UserOf
  <2>4. QED
    BY <2>1, <2>2, <2>3
<1>4. QED
  BY <1>1, <1>2, <1>3 DEF Next, OtherNext

LEMMA InvInit == Init => CreationInv
<1> SUFFICES ASSUME Init PROVE CreationInv
  OBVIOUS
<1>1. TypeOK
  BY DEF Init, TypeOK, Statuses, ReaderStates
<1>2. Control /\ LoggedOnce /\ CachedIsLogged
  BY DEF Init, Control, ControlOf, LoggedOnce, CachedIsLogged, Inserted, Logged,
     AfterInsert
<1>3. AllHonest
  BY DEF Init, AllHonest, NotReading
<1>4. QED
  BY <1>1, <1>2, <1>3 DEF CreationInv

(* The invariant holds in every reachable state of createWallet, with any  *)
(* number of calls and whatever fails between their steps.                 *)
THEOREM CreationInvariance == Spec => []CreationInv
<1>1. CreationInv /\ [Next]_vars => CreationInv'
  BY InvStep
<1>2. QED
  BY InvInit, <1>1, PTL DEF Spec

(* Every variable of WalletCreation keeps its type.                        *)
THEOREM CreationTypeCorrect == Spec => []TypeOK
<1>1. CreationInv => TypeOK
  BY DEF CreationInv
<1>2. QED
  BY CreationInvariance, <1>1, PTL

(* createWallet tells of a duplicate only when the wallet exists or the    *)
(* txId has been logged.                                                   *)
THEOREM NoEmptyRefusal == Spec => []RefusedForCause
<1>1. CreationInv => RefusedForCause
  BY DEF CreationInv, Control, ControlOf, RefusedForCause
<1>2. QED
  BY CreationInvariance, <1>1, PTL

(* However createWallet, its readers and its failures interleave, cached   *)
(* lists show existing wallets of their user, each at most twice.          *)
THEOREM ListsAreHonest == Spec => []ListsHonest
<1>1. CreationInv => ListsHonest
  <2> SUFFICES ASSUME CreationInv, NEW u \in Users, walletsCache[u] # NoList,
                      NEW c \in Calls, walletsCache[u][c] > 0
               PROVE  c \in wallets /\ UserOf(c) = u /\ walletsCache[u][c] <= 2
    BY DEF ListsHonest
  <2>1. walletsCache[u][c] \in Nat
    BY DEF CreationInv, TypeOK, Lists
  <2>2. QED
    BY <2>1 DEF CreationInv, AllHonest, Honest
<1>2. QED
  BY CreationInvariance, <1>1, PTL

-----------------------------------------------------------------------------
(* WalletCreation implements WalletRegistry.                               *)

Confirmed == {c \in Calls : reply[c] = "created"}

(* A step changes wallets or replies in one of three ways.                 *)
LEMMA CallEffects ==
    ASSUME CreationInv, NEW c \in Calls,
           Call(c) \/ CallStep(c) \/ CallThrows(c) \/ ReplyLost(c)
    PROVE  \/ InsertWallet(c) /\ Confirmed' = Confirmed
           \/ UNCHANGED wallets /\ Confirmed' = Confirmed
           \/ /\ UNCHANGED wallets
              /\ Confirmed' = Confirmed \cup {c}
              /\ pc[c] \in {"getList", "setList"}
<1> USE DEF CreationInv, TypeOK, At, Continue, Go, Answer, Confirmed
<1>1. pc[c] # "answered" /\ reply[c] # "created"
  <2>1. pc[c] # "answered"
    BY DEF Call, CallStep, GetCache, FindRequest, SaveCache, FindWallet,
       CreateWallet, LogRequest, CacheRequest, Notify, GetList, SetList,
       CallThrows, ReplyLost, RedisSteps, DbSteps
  <2>2. QED
    BY <2>1 DEF Control, ControlOf
<1>2. \/ reply' = reply
      \/ reply' = [reply EXCEPT ![c] = "conflict"]
      \/ reply' = [reply EXCEPT ![c] = "error"]
      \/ /\ reply' = [reply EXCEPT ![c] = "created"]
         /\ UNCHANGED wallets
         /\ pc[c] \in {"getList", "setList"}
  BY DEF Call, CallStep, GetCache, FindRequest, SaveCache, FindWallet,
     CreateWallet, LogRequest, CacheRequest, Notify, GetList, SetList,
     CallThrows, ReplyLost
<1>3. InsertWallet(c) \/ UNCHANGED wallets
  BY DEF Call, CallStep, GetCache, FindRequest, SaveCache, FindWallet,
     CreateWallet, LogRequest, CacheRequest, Notify, GetList, SetList,
     CallThrows, ReplyLost
<1>4. ASSUME reply' = reply \/ reply' = [reply EXCEPT ![c] = "conflict"]
             \/ reply' = [reply EXCEPT ![c] = "error"]
      PROVE  Confirmed' = Confirmed
  BY <1>1, <1>4
<1>5. ASSUME reply' = [reply EXCEPT ![c] = "created"]
      PROVE  Confirmed' = Confirmed \cup {c}
  BY <1>5
<1>6. QED
  BY <1>2, <1>3, <1>4, <1>5

LEMMA RegistryStep ==
    CreationInv /\ [Next]_vars => [Registry!RNext]_(Registry!rvars)
<1> SUFFICES ASSUME CreationInv, [Next]_vars
             PROVE  Registry!RNext \/ UNCHANGED <<body, wallets, Confirmed>>
  BY DEF Registry!rvars, Confirmed
<1>1. ASSUME NEW c \in Calls,
             Call(c) \/ CallStep(c) \/ CallThrows(c) \/ ReplyLost(c)
      PROVE  Registry!RNext \/ UNCHANGED <<body, wallets, Confirmed>>
  <2>1. UNCHANGED body
    BY <1>1, CallFacts DEF CreationInv, Ordered, Grows
  <2>2. CASE InsertWallet(c) /\ Confirmed' = Confirmed
    <3>1. Registry!Create(c)
      BY <2>1, <2>2 DEF InsertWallet, Exists, SameWallet, Registry!Create,
         Registry!SameWallet, Confirmed
    <3>2. QED
      BY <3>1 DEF Registry!RNext
  <2>3. CASE /\ UNCHANGED wallets
             /\ Confirmed' = Confirmed \cup {c}
             /\ pc[c] \in {"getList", "setList"}
    <3>1. c \in wallets /\ Logged(c)
      BY <2>3 DEF CreationInv, Control, ControlOf, Inserted, Logged, AfterInsert
    <3>2. \A b \in Confirmed : body[b].tx # body[c].tx
      BY <2>3, <3>1 DEF CreationInv, Control, ControlOf, LoggedOnce, Logged,
         Confirmed, TxOf
    <3>3. Registry!Confirm(c)
      BY <2>1, <2>3, <3>1, <3>2 DEF Registry!Confirm, Confirmed
    <3>4. QED
      BY <3>3 DEF Registry!RNext
  <2>4. QED
    BY <1>1, <2>1, <2>2, <2>3, CallEffects
<1>2. CASE OtherNext
  <2>1. UNCHANGED <<body, wallets>>
    BY <1>2 DEF OtherNext, StartRead, ReadStep, FindWallets, CacheWallets,
       ReadThrows, Reading, ExpireList, ExpireRequest, OtherRequest,
       CacheOtherRequest, Restart, Finished, Elsewhere
  <2>2. CASE Restart
    <3>1. \A c \in Calls : reply'[c] = "created" <=> reply[c] = "created"
      BY <2>2 DEF Restart, CreationInv, Control, ControlOf, CallSteps,
         RedisSteps, DbSteps
    <3>2. QED
      BY <2>1, <3>1 DEF Confirmed
  <2>3. CASE UNCHANGED reply
    BY <2>1, <2>3 DEF Confirmed
  <2>4. QED
    BY <1>2, <2>2, <2>3 DEF OtherNext, StartRead, ReadStep, FindWallets,
       CacheWallets, ReadThrows, Reading, ExpireList, ExpireRequest,
       OtherRequest, CacheOtherRequest, Finished, Elsewhere
<1>3. CASE UNCHANGED vars
  BY <1>3 DEF Confirmed
<1>4. QED
  BY <1>1, <1>2, <1>3 DEF Next, OtherNext

(* The separate checks and inserts of createWallet implement an atomic     *)
(* registry: one wallet per user and currency, and one confirmation per    *)
(* txId, after its wallet.                                                 *)
THEOREM CreationImplementsRegistry == Spec => ImplementsRegistry
<1>1. Init => Registry!RInit
  BY DEF Init, Registry!RInit
<1>2. QED
  BY CreationInvariance, <1>1, RegistryStep, PTL
     DEF Spec, ImplementsRegistry, Registry!RSpec

=============================================================================
