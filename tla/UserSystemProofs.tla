-------------------------- MODULE UserSystemProofs --------------------------
(***************************************************************************)
(* Proofs about UserSystem for any users, bodies, messages, page size,     *)
(* bounds and faults.  ActivityLogProofs has the invariant of the records; *)
(* here it is joined with one of the accounts.                             *)
(***************************************************************************)
EXTENDS UserSystem, ActivityLogProofs

-----------------------------------------------------------------------------
(* The inductive invariant.                                                *)

(* A call is at a step of the operation it asks for, and works on a user   *)
(* that exists.                                                            *)
ControlOf(c) ==
    /\ pc[c] \in {"findUser", "findEmail", "upsert"} => body[c].op = "signup"
    /\ pc[c] \in {"findLogin", "logLogin"} => body[c].op = "login"
    /\ pc[c] \in {"getProfile", "findProfile", "saveProfile"}
          => body[c].op = "profile" /\ body[c].user \in Registered
    /\ pc[c] \in {"update", "dropProfile", "setProfile"}
          => body[c].op = "update" /\ body[c].user \in Registered
    /\ pc[c] \in {"findDelete", "delete", "dropDeleted"}
          => body[c].op = "delete" /\ body[c].user \in Registered
    /\ pc[c] = "upsert" => found[c] \in Registered \cup {None}
    /\ pc[c] \in {"logLogin"} => found[c] \in Ids \cup {None}
    /\ pc[c] \in {"saveProfile", "dropProfile", "setProfile"}
          => found[c] \in Profiles

Control == \A c \in Calls : ControlOf(c)

UsersInv == UsersTypeOK /\ Control /\ EmailsUnique

-----------------------------------------------------------------------------
(* Bodies and rows.                                                        *)

LEMMA BodyTypes ==
    ASSUME UsersTypeOK, NEW c \in Calls
    PROVE  /\ body[c].op \in {"signup", "login", "profile", "update", "delete"}
           /\ body[c].op = "signup" => /\ body[c].email \in Emails
                                       /\ body[c].username \in Usernames
                                       /\ body[c].password \in Passwords
           /\ body[c].op \in {"profile", "update", "delete"}
                 => body[c].user \in Ids
           /\ body[c].op = "update" => body[c].data \in Updates
BY UsersAssumption DEF UsersTypeOK, AllBodies

LEMMA UpdatedTypes ==
    ASSUME UsersTypeOK, NEW c \in Calls, body[c].op = "update",
           body[c].user \in Registered
    PROVE  Updated(c) \in Accounts
<1>1. account[body[c].user] \in Accounts
  BY UsersAssumption DEF UsersTypeOK, Registered
<1>2. body[c].data \in Updates
  BY BodyTypes
<1>3. QED  BY <1>1, <1>2 DEF Updated, Given, Updates, Accounts

LEMMA ProfileTypes ==
    ASSUME NEW a \in Accounts
    PROVE  ProfileOf(a) \in Profiles
BY DEF ProfileOf, Accounts, Profiles

LEMMA FirstSteps ==
    /\ FirstStep("signup") = "findUser"
    /\ FirstStep("login") = "findLogin"
    /\ FirstStep("profile") = "getProfile"
    /\ FirstStep("update") = "update"
    /\ FirstStep("delete") = "findDelete"
BY DEF FirstStep

LEMMA IdOfTypes ==
    ASSUME NEW e
    PROVE  IdOf(e) \in Registered \cup {None}
BY DEF IdOf, WithEmail

-----------------------------------------------------------------------------
(* The accounts.                                                           *)

(* Users are not removed, and e-mail addresses stay unique.                *)
RowsStep ==
    /\ account' \in [Ids -> Accounts \cup {None}]
    /\ Registered \subseteq Registered'
    /\ EmailsUnique'

LEMMA SameRows ==
    ASSUME UsersInv, UNCHANGED account
    PROVE  RowsStep
BY DEF RowsStep, UsersInv, UsersTypeOK, EmailsUnique, Registered

LEMMA OneRow ==
    ASSUME UsersInv, NEW i \in Ids, NEW a \in Accounts,
           account' = [account EXCEPT ![i] = a], IsFree(a.email, i)
    PROVE  RowsStep
<1>1. a # None
  BY UsersAssumption
<1>2. account' \in [Ids -> Accounts \cup {None}] /\ account'[i] = a
      /\ \A j \in Ids : j # i => account'[j] = account[j]
  BY DEF UsersInv, UsersTypeOK
<1>3. Registered' = Registered \cup {i}
  BY <1>1, <1>2 DEF Registered
<1>4. EmailsUnique'
  BY <1>2, <1>3 DEF EmailsUnique, UsersInv, IsFree, WithEmail
<1>5. QED  BY <1>2, <1>3, <1>4 DEF RowsStep

LEMMA UpsertRows ==
    ASSUME UsersInv, NEW c \in Calls, pc[c] = "upsert", UpsertRow(c)
    PROVE  RowsStep
<1> DEFINE b == body[c]
<1>1. b.email \in Emails /\ b.username \in Usernames /\ b.password \in Passwords
  BY BodyTypes DEF UsersInv, Control, ControlOf
<1>2. CASE found[c] # None
  <2>1. PICK i \in Registered : i = found[c]
    BY <1>2 DEF UsersInv, Control, ControlOf
  <2>2. account[i] \in Accounts /\ i \in Ids
    BY UsersAssumption DEF UsersInv, UsersTypeOK, Registered
  <2>3. PICK a : a = [account[i] EXCEPT !.username = b.username,
                                        !.password = b.password,
                                        !.deleted = FALSE]
    OBVIOUS
  <2>4. a \in Accounts /\ a.email = account[i].email
    BY <1>1, <2>2, <2>3 DEF Accounts
  <2>5. account' = [account EXCEPT ![i] = a]
    BY <1>2, <2>1, <2>3 DEF UpsertRow
  <2>6. IsFree(a.email, i)
    BY <2>1, <2>4 DEF IsFree, WithEmail, UsersInv, EmailsUnique
  <2>7. QED  BY <2>2, <2>4, <2>5, <2>6, OneRow
<1>3. CASE found[c] = None
  <2> DEFINE a == [email |-> b.email, username |-> b.username,
                   password |-> b.password, deleted |-> FALSE]
  <2>1. PICK i \in Ids \ Registered : account' = [account EXCEPT ![i] = a]
    BY <1>3 DEF UpsertRow
  <2>2. a \in Accounts /\ a.email = b.email
    BY <1>1 DEF Accounts
  <2>3. IsFree(a.email, i)
    BY <1>3, UsersAssumption, <2>2 DEF UpsertRow, IsFree, WithEmail, Registered
  <2> HIDE DEF a
  <2>4. QED  BY <2>1, <2>2, <2>3, OneRow
<1>4. QED  BY <1>2, <1>3

LEMMA UpdateRows ==
    ASSUME UsersInv, NEW c \in Calls, pc[c] = "update", UpdateRow(c)
    PROVE  RowsStep
<1>1. body[c].op = "update" /\ body[c].user \in Registered
  BY DEF UsersInv, Control, ControlOf
<1>2. Updated(c) \in Accounts /\ body[c].user \in Ids
  BY <1>1, UpdatedTypes DEF UsersInv, Registered
<1>3. QED  BY <1>2, OneRow DEF UpdateRow

LEMMA DeleteRows ==
    ASSUME UsersInv, NEW c \in Calls, pc[c] = "delete", DeleteRow(c)
    PROVE  RowsStep
<1>1. PICK i \in Registered : i = body[c].user
  BY DEF UsersInv, Control, ControlOf
<1>2. account[i] \in Accounts /\ i \in Ids
  BY UsersAssumption DEF UsersInv, UsersTypeOK, Registered
<1>3. PICK a : a = [account[i] EXCEPT !.deleted = TRUE]
  OBVIOUS
<1>4. a \in Accounts /\ a.email = account[i].email
  BY <1>2, <1>3 DEF Accounts
<1>5. account' = [account EXCEPT ![i] = a]
  BY <1>1, <1>3 DEF DeleteRow
<1>6. IsFree(a.email, i)
  BY <1>1, <1>4 DEF IsFree, WithEmail, UsersInv, EmailsUnique
<1>7. QED  BY <1>2, <1>4, <1>5, <1>6, OneRow

-----------------------------------------------------------------------------
(* The calls.                                                              *)

(* Call c may go on with s, having read x.                                 *)
MayGo(c, s, x) ==
    \/ s = "answered" /\ x = None
    \/ s \in {"findUser", "findEmail"} /\ x = None /\ body[c].op = "signup"
    \/ s = "upsert" /\ x \in Registered \cup {None} /\ body[c].op = "signup"
    \/ s = "findLogin" /\ x = None /\ body[c].op = "login"
    \/ s = "logLogin" /\ x \in Registered \cup {None} /\ body[c].op = "login"
    \/ /\ body[c].user \in Registered
       /\ \/ /\ body[c].op = "profile"
             /\ \/ s \in {"getProfile", "findProfile"} /\ x = None
                \/ s = "saveProfile" /\ x \in Profiles
          \/ /\ body[c].op = "update"
             /\ \/ s = "update" /\ x = None
                \/ s \in {"dropProfile", "setProfile"} /\ x \in Profiles
          \/ /\ body[c].op = "delete"
             /\ s \in {"findDelete", "delete", "dropDeleted"} /\ x = None

LEMMA CallGoes ==
    ASSUME UsersInv, RowsStep, NEW c \in Calls, NEW s, NEW x,
           Go(c, s, x), MayGo(c, s, x), UNCHANGED body,
           profileCache' \in [Ids -> Profiles \cup {None}]
    PROVE  UsersInv'
<1> USE DEF UsersInv
<1>1. /\ pc'[c] = s /\ found'[c] = x
      /\ \A b \in Calls : b # c => pc'[b] = pc[b] /\ found'[b] = found[b]
      /\ DOMAIN found' = Calls
  BY DEF Go, UsersTypeOK
<1>2. s \in {"answered"} \cup CallSteps
  BY DEF MayGo, CallSteps, RedisSteps, DbSteps
<1>3. pc' \in [Calls -> {"idle", "answered"} \cup CallSteps]
  BY <1>2 DEF Go, UsersTypeOK
<1>4. \/ x = None
      \/ s \in {"upsert", "logLogin"} /\ x \in Ids
      \/ s \in {"saveProfile", "dropProfile", "setProfile"} /\ x \in Profiles
  BY DEF MayGo, Registered
<1>5. UsersTypeOK'
  BY <1>1, <1>3, <1>4 DEF UsersTypeOK, RowsStep
<1>6. ControlOf(c)'
  BY <1>1 DEF MayGo, ControlOf, RowsStep, Registered
<1>7. ASSUME NEW b \in Calls, b # c PROVE ControlOf(b)'
  BY <1>1, <1>7 DEF Control, ControlOf, RowsStep
<1>8. QED  BY <1>5, <1>6, <1>7 DEF Control, RowsStep

LEMMA CallsKeepUsers ==
    ASSUME UsersInv, NEW c \in Calls,
           Call(c) \/ UserStep(c) \/ CallThrows(c) \/ ReplyLost(c)
    PROVE  UsersInv'
<1> DEFINE b == body[c]
           Caches == profileCache' \in [Ids -> Profiles \cup {None}]
<1>0. /\ ControlOf(c)
      /\ b.op \in {"signup", "login", "profile", "update", "delete"}
      /\ UNCHANGED profileCache => Caches
  BY BodyTypes DEF UsersInv, Control, UsersTypeOK
<1>1. ASSUME NEW s, NEW x, Go(c, s, x), MayGo(c, s, x), RowsStep, Caches,
             UNCHANGED body
      PROVE  UsersInv'
  BY <1>1, CallGoes
<1>2. ASSUME End(c), RowsStep, Caches, UNCHANGED body PROVE UsersInv'
  BY <1>1, <1>2 DEF End, MayGo
<1>3. UNCHANGED account => RowsStep
  BY SameRows
<1>4. ASSUME Call(c) PROVE UsersInv'
  <2>1. MayGo(c, FirstStep(b.op), None)
    BY <1>0, <1>4, FirstSteps DEF Call, MayGo
  <2>2. QED  BY <1>0, <1>1, <1>3, <1>4, <2>1 DEF Call, At
<1>5. ASSUME FindUser(c) PROVE UsersInv'
  <2>1. MayGo(c, "findEmail", None)
    BY <1>0, <1>5 DEF FindUser, At, ControlOf, MayGo
  <2>2. Go(c, "findEmail", None) \/ End(c)
    BY <1>5 DEF FindUser
  <2>3. QED  BY <1>0, <1>1, <1>2, <1>3, <1>5, <2>1, <2>2 DEF FindUser, At
<1>6. ASSUME FindEmail(c) PROVE UsersInv'
  <2>1. MayGo(c, "upsert", IdOf(b.email))
    BY <1>0, <1>6, IdOfTypes DEF FindEmail, At, ControlOf, MayGo
  <2>2. QED  BY <1>0, <1>1, <1>3, <1>6, <2>1 DEF FindEmail, At
<1>7. ASSUME Upsert(c) PROVE UsersInv'
  BY <1>0, <1>2, <1>3, <1>7, UpsertRows DEF Upsert, At
<1>8. ASSUME FindLogin(c) PROVE UsersInv'
  <2>1. MayGo(c, "logLogin", IdOf(b.email))
    BY <1>0, <1>8, IdOfTypes DEF FindLogin, At, ControlOf, MayGo
  <2>2. QED  BY <1>0, <1>1, <1>3, <1>8, <2>1 DEF FindLogin, At
<1>9. ASSUME LogLogin(c) PROVE UsersInv'
  BY <1>0, <1>2, <1>3, <1>9 DEF LogLogin
<1>10. ASSUME GetProfile(c) PROVE UsersInv'
  <2>1. MayGo(c, "findProfile", None)
    BY <1>0, <1>10 DEF GetProfile, At, ControlOf, MayGo
  <2>2. Go(c, "findProfile", None) \/ End(c)
    BY <1>10 DEF GetProfile
  <2>3. QED  BY <1>0, <1>1, <1>2, <1>3, <1>10, <2>1, <2>2 DEF GetProfile, At
<1>11. ASSUME b.user \in Registered
       PROVE  account[b.user] \in Accounts /\ b.user \in Ids
  BY <1>11, UsersAssumption DEF UsersInv, UsersTypeOK, Registered
<1>12. ASSUME FindProfile(c) PROVE UsersInv'
  <2>1. MayGo(c, "saveProfile", ProfileOf(account[b.user]))
    BY <1>0, <1>11, <1>12, ProfileTypes DEF FindProfile, At, ControlOf, MayGo
  <2>2. QED  BY <1>0, <1>1, <1>3, <1>12, <2>1 DEF FindProfile, At
<1>13. ASSUME CacheFound(c), found[c] \in Profiles PROVE Caches
  BY <1>13 DEF CacheFound, UsersInv, UsersTypeOK
<1>14. ASSUME SaveProfile(c) PROVE UsersInv'
  <2>1. Caches
    BY <1>0, <1>13, <1>14 DEF SaveProfile, At, ControlOf
  <2>2. QED  BY <1>2, <1>3, <1>14, <2>1 DEF SaveProfile, At
<1>15. ASSUME Update(c) PROVE UsersInv'
  <2>1. CASE UpdateRow(c) /\ Go(c, "dropProfile", ProfileOf(Updated(c)))
    <3>1. MayGo(c, "dropProfile", ProfileOf(Updated(c)))
      BY <1>0, <1>15, UpdatedTypes, ProfileTypes
      DEF Update, At, ControlOf, MayGo, UsersInv
    <3>2. RowsStep
      BY <1>15, <2>1, UpdateRows DEF Update, At
    <3>3. QED  BY <1>0, <1>1, <1>15, <2>1, <3>1, <3>2 DEF Update, At
  <2>2. QED  BY <1>0, <1>2, <1>3, <1>15, <2>1 DEF Update, At
<1>16. ASSUME profileCache' = [profileCache EXCEPT ![b.user] = None]
       PROVE  Caches
  BY <1>16 DEF UsersInv, UsersTypeOK
<1>17. ASSUME DropProfile(c) PROVE UsersInv'
  <2>1. MayGo(c, "setProfile", found[c])
    BY <1>0, <1>17 DEF DropProfile, At, ControlOf, MayGo
  <2>2. QED  BY <1>1, <1>3, <1>16, <1>17, <2>1 DEF DropProfile, At
<1>18. ASSUME SetProfile(c) PROVE UsersInv'
  <2>1. Caches
    BY <1>0, <1>13, <1>18 DEF SetProfile, At, ControlOf
  <2>2. QED  BY <1>2, <1>3, <1>18, <2>1 DEF SetProfile, At
<1>19. ASSUME FindDelete(c) PROVE UsersInv'
  <2>1. MayGo(c, "delete", None)
    BY <1>0, <1>19 DEF FindDelete, At, ControlOf, MayGo
  <2>2. Go(c, "delete", None) \/ End(c)
    BY <1>19 DEF FindDelete
  <2>3. QED  BY <1>0, <1>1, <1>2, <1>3, <1>19, <2>1, <2>2 DEF FindDelete, At
<1>20. ASSUME Delete(c) PROVE UsersInv'
  <2>1. MayGo(c, "dropDeleted", None)
    BY <1>0, <1>20 DEF Delete, At, ControlOf, MayGo
  <2>2. QED  BY <1>0, <1>1, <1>20, <2>1, DeleteRows DEF Delete, At
<1>21. ASSUME DropDeleted(c) PROVE UsersInv'
  BY <1>2, <1>3, <1>16, <1>21 DEF DropDeleted, At
<1>22. ASSUME CallThrows(c) PROVE UsersInv'
  BY <1>0, <1>2, <1>3, <1>22 DEF CallThrows, At
<1>23. ASSUME ReplyLost(c) PROVE UsersInv'
  <2>1. RowsStep
    BY <1>23, UpsertRows, UpdateRows, DeleteRows DEF ReplyLost, At
  <2>2. QED  BY <1>0, <1>2, <1>23, <2>1 DEF ReplyLost, At
<1>24. QED
  BY <1>4, <1>5, <1>6, <1>7, <1>8, <1>9, <1>10, <1>12, <1>14, <1>15, <1>17,
     <1>18, <1>19, <1>20, <1>21, <1>22, <1>23
  DEF UserStep

LEMMA OthersKeepUsers ==
    ASSUME UsersInv,
           (\E i \in Ids : ExpireProfile(i)) \/ KillCalls \/ UNCHANGED userVars
    PROVE  UsersInv'
<1>1. ASSUME UNCHANGED account, UNCHANGED callVars,
             profileCache' \in [Ids -> Profiles \cup {None}]
      PROVE  UsersInv'
  BY <1>1 DEF UsersInv, UsersTypeOK, Control, ControlOf, EmailsUnique, Registered,
              callVars
<1>2. ASSUME NEW i \in Ids, ExpireProfile(i) PROVE UsersInv'
  BY <1>1, <1>2 DEF ExpireProfile, UsersInv, UsersTypeOK
<1>3. ASSUME KillCalls PROVE UsersInv'
  <2>1. UsersTypeOK'
    BY <1>3 DEF KillCalls, UsersInv, UsersTypeOK
  <2>2. Control'
    BY <1>3 DEF KillCalls, Control, ControlOf, CallSteps, RedisSteps, DbSteps
  <2>3. QED  BY <1>3, <2>1, <2>2 DEF KillCalls, UsersInv, EmailsUnique, Registered
<1>4. ASSUME UNCHANGED userVars PROVE UsersInv'
  BY <1>1, <1>4 DEF userVars, UsersInv, UsersTypeOK
<1>5. QED  BY <1>2, <1>3, <1>4

-----------------------------------------------------------------------------
(* The system.                                                             *)

SystemInv == UsersInv /\ ActivityInv

LEMMA CallsAndRecords ==
    ASSUME UsersInv, NEW c \in Calls,
           Call(c) \/ UserStep(c) \/ CallThrows(c) \/ ReplyLost(c)
    PROVE  ActivityStep \/ UNCHANGED logVars
<1>1. CASE LogLogin(c)
  <2> DEFINE e == [table |-> "login_logs",
                   user |-> IF found[c] = None THEN NoId ELSE found[c]]
  <2>1. found[c] \in Ids \cup {None}
    BY <1>1 DEF LogLogin, UsersInv, Control, ControlOf
  <2>2. e \in Events /\ e.table \in Queues
    BY <2>1 DEF Events, Tables, Queues
  <2>3. Publish(e)
    BY <1>1 DEF LogLogin
  <2> HIDE DEF e
  <2>4. QED  BY <2>2, <2>3 DEF ActivityStep
<1>2. CASE ~ LogLogin(c)
  BY <1>2
  DEF Call, UserStep, CallThrows, ReplyLost, At, FindUser, FindEmail, Upsert,
      FindLogin, GetProfile, FindProfile, SaveProfile, Update, DropProfile,
      SetProfile, FindDelete, Delete, DropDeleted
<1>3. QED  BY <1>1, <1>2

(* Each step is one of the users, one of the records, or both.             *)
LEMMA StepsSplit ==
    ASSUME UsersInv, [Next]_vars
    PROVE  UsersInv' /\ (ActivityStep \/ UNCHANGED logVars)
<1>1. ASSUME NEW c \in Calls,
             Call(c) \/ UserStep(c) \/ CallThrows(c) \/ ReplyLost(c)
      PROVE  UsersInv' /\ (ActivityStep \/ UNCHANGED logVars)
  BY <1>1, CallsKeepUsers, CallsAndRecords
<1>2. ASSUME NEW i \in Ids, Elsewhere(i)
      PROVE  UsersInv' /\ ActivityStep
  <2>1. CASE Announce(i)
    <3> DEFINE e == [table |-> "notifications", user |-> i]
    <3>1. e \in Events /\ e.table \in Queues
      BY DEF Events, Tables, Queues
    <3>2. Publish(e)
      BY <2>1 DEF Announce
    <3> HIDE DEF e
    <3>3. ActivityStep
      BY <3>1, <3>2 DEF ActivityStep
    <3>4. QED  BY <1>2, <3>3, OthersKeepUsers DEF Elsewhere
  <2>2. CASE Settle(i)
    BY <1>2, <2>2, OthersKeepUsers DEF Elsewhere, ActivityStep
  <2>3. QED  BY <1>2, <2>1, <2>2 DEF Elsewhere
<1>3. ASSUME NEW i \in Ids, ExpireProfile(i)
      PROVE  UsersInv' /\ UNCHANGED logVars
  BY <1>3, OthersKeepUsers DEF ExpireProfile
<1>4. ASSUME NEW m \in Messages, Consumer(m)
      PROVE  UsersInv' /\ ActivityStep
  BY <1>4, OthersKeepUsers DEF Consumer, ActivityStep
<1>5. ASSUME NEW w \in Walks, Walk(w)
      PROVE  UsersInv' /\ ActivityStep
  <2>1. ASSUME NEW t \in Tables, NEW i \in Holders \cap Registered,
               StartWalk(w, [table |-> t, user |-> i])
        PROVE  ActivityStep
    <3> DEFINE e == [table |-> t, user |-> i]
    <3>1. e \in Events
      BY DEF Events, Registered
    <3>2. StartWalk(w, e)
      BY <2>1
    <3> HIDE DEF e
    <3>3. QED  BY <3>1, <3>2 DEF ActivityStep
  <2>2. FetchPage(w) => ActivityStep
    BY DEF ActivityStep
  <2>3. QED  BY <1>5, <2>1, <2>2, OthersKeepUsers DEF Walk
<1>6. ASSUME Fault PROVE UsersInv' /\ ActivityStep
  BY <1>6, OthersKeepUsers DEF Fault, AckThrows, ActivityStep
<1>7. ASSUME UNCHANGED vars PROVE UsersInv' /\ UNCHANGED logVars
  BY <1>7, OthersKeepUsers DEF vars
<1>8. QED
  BY <1>1, <1>2, <1>3, <1>4, <1>5, <1>6, <1>7 DEF Next, Finished

(* What the properties of UserSystem rest on: where calls are and what     *)
(* accounts they work on, where messages come from and how often they have *)
(* been stored, and how far clients have read.                             *)
THEOREM UserInvariance == Spec => []SystemInv
<1>1. Init => SystemInv
  <2> SUFFICES ASSUME Init PROVE SystemInv
    OBVIOUS
  <2>1. ActivityInv
    BY ActivityInitially DEF Init
  <2>2. UsersTypeOK /\ Control
    BY UsersAssumption
    DEF Init, UsersInit, UsersTypeOK, Control, ControlOf
  <2>3. EmailsUnique
    BY UsersAssumption DEF Init, UsersInit, EmailsUnique, Registered
  <2>4. QED  BY <2>1, <2>2, <2>3 DEF SystemInv, UsersInv
<1>2. SystemInv /\ [Next]_vars => SystemInv'
  BY StepsSplit, ActivityInvKept, ActivityInvStutters DEF SystemInv
<1>3. QED  BY <1>1, <1>2, PTL DEF Spec

(* Types of the whole system.                                              *)
THEOREM UserTypeCorrect == Spec => []TypeOK
<1>1. SystemInv => TypeOK
  BY DEF SystemInv, UsersInv, ActivityInv, TypeOK
<1>2. QED  BY <1>1, UserInvariance, PTL

(* No two accounts have one e-mail address: both ways to give an account   *)
(* an address meet the unique index, whatever was checked before.          *)
THEOREM AddressesUnique == Spec => []EmailsUnique
<1>1. SystemInv => EmailsUnique
  BY DEF SystemInv, UsersInv
<1>2. QED  BY <1>1, UserInvariance, PTL

(* A published login is stored, in the dead-letter queue or with the       *)
(* broker, because consume acknowledges only what it has published again,  *)
(* and dies when the channel on which it would have been is closed.        *)
THEOREM LoginsAreKept == Spec => []LoginsKept
<1>1. SystemInv => LoginsKept
  <2> SUFFICES ASSUME ActivityInv, NEW m \in Messages, stage[m] # "unused",
                      origin[m] = m, event[m].table = "login_logs"
               PROVE  \/ Stored(m)
                      \/ m \in dead
                      \/ \E k \in Messages :
                           origin[k] = m /\ stage[k] \in {"ready"} \cup Unacked
    BY DEF LoginsKept, SystemInv
  <2>1. Kept(m, 0)
    BY DEF ActivityInv, AllKept
  <2>2. QED  BY <2>1 DEF Kept, Live
<1>2. QED  BY <1>1, UserInvariance, PTL

(* A notification has one row at most for its first delivery and one for   *)
(* each restart: its handler swallows errors, so nothing else repeats it.  *)
THEOREM NotificationsAreBounded == Spec => []NotificationsBounded
<1>1. SystemInv => NotificationsBounded
  BY DEF SystemInv, ActivityInv, Deliveries, RowsOf, NotificationsBounded
<1>2. QED  BY <1>1, UserInvariance, PTL

(* A client that has reached the last page has seen every row that was     *)
(* there when it began and shares its time with no other.                  *)
THEOREM NothingIsMissed == Spec => []NothingMissed
<1>1. SystemInv => NothingMissed
  <2> SUFFICES ASSUME ActivityInv, NEW w \in Walks, walk[w].step = "done",
                      NEW r \in walk[w].start, Untied(r), r \notin walk[w].seen
               PROVE  FALSE
    BY DEF NothingMissed, SystemInv
  <2>1. walk[w] # NotWalking
    BY DEF NotWalking
  <2>2. QED  BY <2>1 DEF ActivityInv, Ahead
<1>2. QED  BY <1>1, UserInvariance, PTL
=============================================================================
