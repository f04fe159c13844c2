---------------------------- MODULE MCUserSystem ----------------------------
(***************************************************************************)
(* Small instances of UserSystem: two e-mail addresses, and so two users   *)
(* at most.                                                                *)
(***************************************************************************)
EXTENDS UserSystem

CONSTANT First   \* one of the calls

MCIds       == 1..3
MCEmails    == {"ann@", "bob@"}
MCUsernames == {"ann", "bob"}
MCPasswords == {"old", "new"}
MCTimes     == 1..2

Row(e, n, p, d) == [email |-> e, username |-> n, password |-> p, deleted |-> d]

(* User 3 is a holder of wallets; user 1 is not, and may be deleted.       *)
Users(i, row) == [j \in MCIds |-> IF j = i THEN row ELSE None]
Holder        == Users(3, Row("bob@", "bob", "old", FALSE))
MCHolders     == {3}
MCExisting    ==
    {Holder} \cup {Users(1, Row("ann@", "ann", "old", d)) : d \in BOOLEAN}
Nobody        == {[i \in MCIds |-> None]}

Signup(e, n) == [op |-> "signup", email |-> e, username |-> n, password |-> "new"]
Login(e)     == [op |-> "login", email |-> e, password |-> "old"]
OfUser(i, o) == [op |-> o, user |-> i]
Update1(e, n, p, d) ==
    [op |-> "update", user |-> 1,
     data |-> [email |-> e, username |-> n, password |-> p, deleted |-> d]]

(* As user 2 has no account at first, nobody has a token to call this with *)
(* until somebody signs up.                                                *)
Later == OfUser(2, "profile")

MCBodies ==
    {Signup("ann@", "bob"), Signup("bob@", "bob"), Login("ann@"),
     OfUser(1, "profile"), OfUser(1, "delete"), Later,
     Update1("bob@", None, None, None), Update1(None, "bob", "new", None),
     Update1(None, None, None, TRUE), Update1(None, "bob", None, FALSE)}

Signups == {Signup("ann@", "ann"), Signup("ann@", "bob")}

(* Three kinds of behaviours: the wallets of the holder produce records    *)
(* and clients read them; or user 1 logs in; or two other calls meet.      *)
MCInit ==
    /\ Init
    /\ IF account = Holder
       THEN body = [c \in Calls |-> Later]
       ELSE \/ \A c \in Calls : body[c].op # "login"
            \/ /\ ~ account[1].deleted
               /\ body = [c \in Calls |-> IF c = First THEN Login("ann@")
                                                      ELSE Later]

(* As nobody reads logins, it makes no difference when they were.          *)
LoginsAt1 == \A r \in rows' : r.event.table = "login_logs" => r.time = 1

MCSpec == MCInit /\ [][Next /\ LoginsAt1]_vars /\ Fairness
=============================================================================
