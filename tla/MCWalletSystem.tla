--------------------------- MODULE MCWalletSystem ---------------------------
(***************************************************************************)
(* Small instances of WalletSystem: two users, Ann with the naira wallet a *)
(* and Bob with the naira wallet b, and the bodies they send.  Wallet id   *)
(* "x" is in no row.                                                       *)
(***************************************************************************)
EXTENDS WalletSystem, TLC

MCUsers      == {"ann", "bob"}
MCWallets    == {"a", "b"}
MCWalletIds  == MCWallets \cup {"x"}
MCCurrencies == {"NGN"}
MCOwner      == [w \in MCWallets |-> IF w = "b" THEN "bob" ELSE "ann"]
MCCurrency   == [w \in MCWallets |-> "NGN"]
MCBalance    == [w \in MCWallets |-> 300]
MCTxIds      == {"t1", "t2"}

OneWallet(kind, tx, user, wallet, amount) ==
    [kind |-> kind, tx |-> tx, user |-> user, wallet |-> wallet,
     toUser |-> user, toWallet |-> wallet, currency |-> "NGN",
     amount |-> amount]

Fund(tx, user, wallet, amount) == OneWallet("fund", tx, user, wallet, amount)

Withdraw(tx, user, wallet, amount) ==
    OneWallet("withdraw", tx, user, wallet, amount)

Transfer(tx, user, wallet, toUser, toWallet, amount) ==
    [kind |-> "transfer", tx |-> tx, user |-> user, wallet |-> wallet,
     toUser |-> toUser, toWallet |-> toWallet, currency |-> "NGN",
     amount |-> amount]

(* One of each kind.  t1 is used twice, Ann cannot pay both debits, and    *)
(* the fee of 300 cents is an exact tie.                                   *)
Mixed == {Fund("t1", "ann", "a", 300), Withdraw("t1", "ann", "a", 200),
          Transfer("t2", "ann", "a", "bob", "b", 200)}

(* The same debits with a funding by a negative amount, a tie as well,     *)
(* which overdraws Ann's wallet whether or not one of them has settled.    *)
Overdraw == Fund("t1", "ann", "a", -500)

Overdrawing == {Overdraw, Withdraw("t1", "ann", "a", 200),
                Transfer("t2", "ann", "a", "bob", "b", 200)}

(* With these, the overdrawing funding, a second transfer to Bob, one to   *)
(* the sending wallet and one to a wallet that does not exist.  No         *)
(* transfer goes from b to a.                                              *)
Odd == Mixed \cup {Overdraw,
                   Transfer("t1", "ann", "a", "bob", "b", 100),
                   Transfer("t1", "ann", "a", "ann", "a", 100),
                   Transfer("t2", "ann", "a", "bob", "x", 100)}

(* Transfers of everything in opposite directions: either could be paid    *)
(* alone.                                                                  *)
Opposite == {Transfer("t1", "ann", "a", "bob", "b", 300),
             Transfer("t2", "bob", "b", "ann", "a", 300)}

(* With these, two requests that race with them; any of the four could be  *)
(* paid alone.                                                             *)
Conflicting == Opposite \cup
    {Fund("t2", "ann", "a", 300), Withdraw("t1", "bob", "b", 300)}

Symmetry == Permutations(Calls) \cup Permutations(Copies)
=============================================================================
