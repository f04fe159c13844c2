---------------------------- MODULE UsersService ----------------------------
(***************************************************************************)
(* UsersService: signup, login, profiles and soft deletion.  No operation  *)
(* but the upsert of a signup runs in a database transaction; every        *)
(* awaited call is an action, and any number of calls run at once.  login  *)
(* publishes to the queue login_logs of ActivityLog.                       *)
(***************************************************************************)
EXTENDS ActivityLog

CONSTANTS
    Emails, Usernames, Passwords,
    Calls,     \* calls of UsersService: a bound on how many clients make
    Bodies,    \* what they may ask for, some of AllBodies
    Existing,  \* the possible User tables at the start
    None       \* no row, no key, no value

Accounts == [email : Emails, username : Usernames, password : Passwords,
             deleted : BOOLEAN]
Profiles == [email : Emails, username : Usernames]

(* An update gives some columns a value, None leaves one alone.  The type  *)
(* of the body is an intersection, which the whitelist of ValidationPipe   *)
(* does not see: not only the fields of UpdateUserDto reach the database.  *)
Updates == [email : Emails \cup {None}, username : Usernames \cup {None},
            password : Passwords \cup {None}, deleted : BOOLEAN \cup {None}]

AllBodies ==
    [op : {"signup"}, email : Emails, username : Usernames, password : Passwords]
    \cup [op : {"login"}, email : Emails, password : Passwords]
    \cup [op : {"update"}, user : Ids, data : Updates]
    \cup [op : {"profile", "delete"}, user : Ids]

ASSUME UsersAssumption ==
    /\ Ids \subseteq Nat
    /\ None \notin Ids \cup Accounts \cup Profiles
    /\ Bodies \subseteq AllBodies
    /\ Existing \subseteq [Ids -> Accounts \cup {None}]
    /\ \A table \in Existing : \A i, j \in Ids :
          /\ table[i] # None /\ table[j] # None
          /\ table[i].email = table[j].email
          => i = j

VARIABLES
    account,       \* the rows of User
    profileCache,  \* user:profile:<userId>
    body,          \* what each call asks for
    pc,            \* where it is
    found          \* what it has read and not used yet

callVars == <<body, pc, found>>
userVars == <<account, profileCache, callVars>>
vars     == <<userVars, logVars>>

-----------------------------------------------------------------------------
(* Types.                                                                  *)

RedisSteps == {"getProfile", "saveProfile", "dropProfile", "setProfile",
               "dropDeleted"}
DbSteps    == {"findUser", "findEmail", "upsert", "findLogin", "findProfile",
               "update", "findDelete", "delete"}
CallSteps  == RedisSteps \cup DbSteps \cup {"logLogin"}

UsersTypeOK ==
    /\ account \in [Ids -> Accounts \cup {None}]
    /\ profileCache \in [Ids -> Profiles \cup {None}]
    /\ body \in [Calls -> Bodies]
    /\ pc \in [Calls -> {"idle", "answered"} \cup CallSteps]
    /\ DOMAIN found = Calls
    /\ \A c \in Calls :
          \/ found[c] = None
          \/ pc[c] \in {"upsert", "logLogin"} /\ found[c] \in Ids
          \/ pc[c] \in {"saveProfile", "dropProfile", "setProfile"}
             /\ found[c] \in Profiles

-----------------------------------------------------------------------------
(* Helpers.                                                                *)

Registered == {i \in Ids : account[i] # None}

WithEmail(e) == {i \in Registered : account[i].email = e}

(* findUnique by e-mail address: an id, or None.                           *)
IdOf(e) == IF WithEmail(e) = {} THEN None ELSE CHOOSE i \in WithEmail(e) : TRUE

(* The columns of row a that a profile shows.                              *)
ProfileOf(a) == [email |-> a.email, username |-> a.username]

At(c, s) == pc[c] = s /\ UNCHANGED <<body, logVars>>

(* Call c goes on with step s, having read x.                              *)
Go(c, s, x) == /\ pc' = [pc EXCEPT ![c] = s]
               /\ found' = [found EXCEPT ![c] = x]

(* Call c answers, or throws at AllExceptionsFilter.                       *)
End(c) == Go(c, "answered", None)

FirstStep(op) == [signup |-> "findUser", login |-> "findLogin",
                  profile |-> "getProfile", update |-> "update",
                  delete |-> "findDelete"][op]

UsersInit ==
    /\ account \in Existing
    /\ profileCache = [i \in Ids |-> None]
    /\ body \in [Calls -> Bodies]
    /\ pc = [c \in Calls |-> "idle"]
    /\ found = [c \in Calls |-> None]

(* A call with a user id comes with a token, which a login gave to a user. *)
Call(c) ==
    /\ At(c, "idle")
    /\ body[c].op \notin {"signup", "login"} => body[c].user \in Registered
    /\ Go(c, FirstStep(body[c].op), None)
    /\ UNCHANGED <<account, profileCache>>

-----------------------------------------------------------------------------
(* Signup.                                                                 *)

(* findFirst returns any user with the e-mail address or the name, in no   *)
(* order the code asks for; one that is not deleted ends the signup.       *)
FindUser(c) ==
    /\ At(c, "findUser")
    /\ LET matches == {i \in Registered :
                          \/ account[i].email = body[c].email
                          \/ account[i].username = body[c].username}
       IN  \/ matches = {} /\ Go(c, "findEmail", None)
           \/ \E i \in matches : IF account[i].deleted
                                 THEN Go(c, "findEmail", None) ELSE End(c)
    /\ UNCHANGED <<account, profileCache>>

(* Prisma's upsert on MySQL reads first; it updates what it has found,     *)
FindEmail(c) ==
    /\ At(c, "findEmail")
    /\ Go(c, "upsert", IdOf(body[c].email))
    /\ UNCHANGED <<account, profileCache>>

(* Mutant: the User table without its unique index.                        *)
IsFreeAlways(e, i) == e \in Emails /\ i \in Ids \cup {None}

(* The unique index lets user i, or a new one, have e-mail address e.      *)
IsFree(e, i) == WithEmail(e) \subseteq {i}

(* or inserts a user, at the next id, if the unique index permits.         *)
UpsertRow(c) ==
    LET b == body[c]
        unused == Ids \ Registered
    IN  \/ /\ found[c] # None
           /\ account' = [account EXCEPT
                 ![found[c]].username = b.username,
                 ![found[c]].password = b.password,
                 ![found[c]].deleted = FALSE]
        \/ /\ found[c] = None
           /\ IsFree(b.email, None)
           /\ \E i \in unused :
                 /\ \A j \in unused : i <= j
                 /\ account' = [account EXCEPT ![i] =
                       [email |-> b.email, username |-> b.username,
                        password |-> b.password, deleted |-> FALSE]]

(* The cached profile of an account that comes back stays as it was.       *)
Upsert(c) ==
    /\ At(c, "upsert")
    /\ \/ UpsertRow(c)
       \/ found[c] = None /\ ~ IsFree(body[c].email, None) /\ UNCHANGED account
    /\ End(c)
    /\ UNCHANGED profileCache

-----------------------------------------------------------------------------
(* Login.                                                                  *)

FindLogin(c) ==
    /\ At(c, "findLogin")
    /\ Go(c, "logLogin", IdOf(body[c].email))
    /\ UNCHANGED <<account, profileCache>>

(* Every attempt is logged, with the user if there is one, before the      *)
(* answer, which depends on the row read by FindLogin alone.               *)
LogLogin(c) ==
    /\ pc[c] = "logLogin"
    /\ Publish([table |-> "login_logs",
                user |-> IF found[c] = None THEN NoId ELSE found[c]])
    /\ End(c)
    /\ UNCHANGED <<account, profileCache, body>>

-----------------------------------------------------------------------------
(* getProfile.                                                             *)

GetProfile(c) ==
    /\ At(c, "getProfile")
    /\ IF profileCache[body[c].user] = None THEN Go(c, "findProfile", None)
                                            ELSE End(c)
    /\ UNCHANGED <<account, profileCache>>

FindProfile(c) ==
    /\ At(c, "findProfile")
    /\ Go(c, "saveProfile", ProfileOf(account[body[c].user]))
    /\ UNCHANGED <<account, profileCache>>

(* redis.set with the value read or written before.                        *)
CacheFound(c) ==
    profileCache' = [profileCache EXCEPT ![body[c].user] = found[c]]

SaveProfile(c) ==
    /\ At(c, "saveProfile")
    /\ CacheFound(c)
    /\ End(c)
    /\ UNCHANGED account

-----------------------------------------------------------------------------
(* updateProfile: of any account, a deleted one included.                  *)

(* prisma takes an undefined field as one that is not there.               *)
Given(new, old) == IF new = None THEN old ELSE new

Updated(c) ==
    LET a == account[body[c].user]
        d == body[c].data
    IN  [email    |-> Given(d.email, a.email),
         username |-> Given(d.username, a.username),
         password |-> Given(d.password, a.password),
         deleted  |-> Given(d.deleted, a.deleted)]

UpdateRow(c) ==
    /\ IsFree(Updated(c).email, body[c].user)
    /\ account' = [account EXCEPT ![body[c].user] = Updated(c)]

Update(c) ==
    /\ At(c, "update")
    /\ \/ UpdateRow(c) /\ Go(c, "dropProfile", ProfileOf(Updated(c)))
       \/ /\ ~ IsFree(Updated(c).email, body[c].user)
          /\ End(c)
          /\ UNCHANGED account
    /\ UNCHANGED profileCache

DropProfile(c) ==
    /\ At(c, "dropProfile")
    /\ profileCache' = [profileCache EXCEPT ![body[c].user] = None]
    /\ Go(c, "setProfile", found[c])
    /\ UNCHANGED account

(* Another update or a reader may have stored a later profile by now.      *)
SetProfile(c) ==
    /\ At(c, "setProfile")
    /\ CacheFound(c)
    /\ End(c)
    /\ UNCHANGED account

-----------------------------------------------------------------------------
(* deleteUser.                                                             *)

FindDelete(c) ==
    /\ At(c, "findDelete")
    /\ IF account[body[c].user].deleted THEN End(c) ELSE Go(c, "delete", None)
    /\ UNCHANGED <<account, profileCache>>

DeleteRow(c) ==
    account' = [account EXCEPT ![body[c].user].deleted = TRUE]

Delete(c) ==
    /\ At(c, "delete")
    /\ DeleteRow(c)
    /\ Go(c, "dropDeleted", None)
    /\ UNCHANGED profileCache

DropDeleted(c) ==
    /\ At(c, "dropDeleted")
    /\ profileCache' = [profileCache EXCEPT ![body[c].user] = None]
    /\ End(c)
    /\ UNCHANGED account

-----------------------------------------------------------------------------
UserStep(c) ==
    \/ FindUser(c) \/ FindEmail(c) \/ Upsert(c)
    \/ FindLogin(c) \/ LogLogin(c)
    \/ GetProfile(c) \/ FindProfile(c) \/ SaveProfile(c)
    \/ Update(c) \/ DropProfile(c) \/ SetProfile(c)
    \/ FindDelete(c) \/ Delete(c) \/ DropDeleted(c)

(* A store rejects the pending call; what earlier steps wrote stays.       *)
CallThrows(c) ==
    /\ \/ pc[c] \in RedisSteps /\ "redis" \in Faults
       \/ pc[c] \in DbSteps /\ "db" \in Faults
    /\ At(c, pc[c])
    /\ End(c)
    /\ UNCHANGED <<account, profileCache>>

(* The database applies a write and the answer is lost.                    *)
ReplyLost(c) ==
    /\ "db" \in Faults
    /\ \/ At(c, "upsert") /\ UpsertRow(c)
       \/ At(c, "update") /\ UpdateRow(c)
       \/ At(c, "delete") /\ DeleteRow(c)
    /\ End(c)
    /\ UNCHANGED profileCache

(* Mutant: user:profile keys are stored without EX.                        *)
ExpireProfileNever(i) == i \notin Ids /\ UNCHANGED vars

(* The key of a profile expires.                                           *)
ExpireProfile(i) ==
    /\ profileCache[i] # None
    /\ profileCache' = [profileCache EXCEPT ![i] = None]
    /\ UNCHANGED <<account, callVars, logVars>>

(* The process dies: running calls end without an answer.                  *)
KillCalls ==
    /\ pc' = [c \in Calls |-> IF pc[c] = "idle" THEN "idle" ELSE "answered"]
    /\ found' = [c \in Calls |-> None]
    /\ UNCHANGED <<account, profileCache, body>>
=============================================================================
