--------------------------- MODULE WalletRequests ---------------------------
(***************************************************************************)
(* The bodies of the three queued wallet operations (fund, withdraw and    *)
(* transfer), and what one of them does to the Wallet and Transaction      *)
(* tables.  This module has no state: both the abstract ledger             *)
(* (WalletLedger) and the service that implements it (WalletSystem) are    *)
(* built from these operators.                                             *)
(*                                                                         *)
(* Amounts are whole cents, and a balance is a number of cents.            *)
(***************************************************************************)
EXTENDS Integers

CONSTANTS
    Users,           \* ids of rows of the User table
    WalletIds,       \* ids a request may name
    Wallets,         \* ids of the rows of the Wallet table
    Currencies,
    Owner,           \* Wallet.userId of each row
    Currency,        \* Wallet.currency of each row
    InitialBalance,  \* Wallet.balance of each row at the start
    TxIds,           \* idempotency keys chosen by clients
    Requests         \* the bodies clients may send

Kinds == {"fund", "withdraw", "transfer"}

(***************************************************************************)
(* A body.  user and wallet are senderId and senderWalletId in a transfer; *)
(* fund and withdraw name no second wallet, so there toUser and toWallet   *)
(* repeat the first one.  The DTOs of the two debits demand a cent at      *)
(* least; that of a funding takes any number, negative ones included.      *)
(***************************************************************************)
RequestType ==
    [kind : Kinds, tx : TxIds, user : Users, wallet : WalletIds,
     toUser : Users, toWallet : WalletIds, currency : Currencies,
     amount : Int]

ASSUME TablesAssumption ==
    /\ Wallets \subseteq WalletIds
    /\ Owner \in [Wallets -> Users]
    /\ Currency \in [Wallets -> Currencies]
    /\ InitialBalance \in [Wallets -> Nat]

ASSUME RequestsAssumption ==
    /\ Requests \subseteq RequestType
    /\ \A r \in Requests : r.kind # "fund" => r.amount >= 1
    /\ \A r \in Requests : r.kind # "transfer" =>
                              r.toUser = r.user /\ r.toWallet = r.wallet

-----------------------------------------------------------------------------

(* Wallet w exists, belongs to user u and holds currency c.                *)
ValidWallet(w, u, c) == w \in Wallets /\ Owner[w] = u /\ Currency[w] = c

(* What the processors require of the wallets a request names.             *)
Valid(r) == /\ ValidWallet(r.wallet, r.user, r.currency)
            /\ ValidWallet(r.toWallet, r.toUser, r.currency)

Debits(r) == r.kind # "fund"

Touched(r) == {r.wallet, r.toWallet}

(***************************************************************************)
(* parseFloat((amount * 0.005).toFixed(2)): half a percent, rounded to the *)
(* nearest cent.  amount * 0.005 is a binary floating point number, so on  *)
(* an exact tie its representation error decides the direction: 1.00 pays  *)
(* 0.01 and 3.00 pays 0.01, not 0.02.  Both directions are possible here.  *)
(***************************************************************************)
FeeOptions(amount) ==
    {f \in {amount \div 200, amount \div 200 + 1} :
        200 * f - amount \in -100..100}

(* The fees with which request r may settle.                               *)
Fees(r) == IF r.kind = "fund" THEN FeeOptions(r.amount) ELSE {0}

(* What settling r with a given fee adds to the balance of wallet w.  Only *)
(* a transfer names a second wallet.                                       *)
Change(r, fee, w) ==
    IF w = r.wallet THEN IF Debits(r) THEN - r.amount ELSE r.amount - fee
    ELSE IF w = r.toWallet THEN r.amount ELSE 0

(***************************************************************************)
(* The Transaction rows of a settled request, one per wallet.  The key     *)
(* (tx, wallet) stands for Transaction.reference: txId for a single row,   *)
(* txId-sender and txId-recipient for the two rows of a transfer, of which *)
(* the second is a deposit.                                                *)
(***************************************************************************)
EntryTypes == {"DEPOSIT", "WITHDRAWAL", "TRANSFER"}

EntryType == [tx : TxIds, wallet : Wallets, type : EntryTypes, change : Int,
              fee : Int]

(* Transaction.type of the row that settling r writes for wallet w.        *)
TypeOfEntry(r, w) ==
    IF ~ Debits(r) \/ w # r.wallet THEN "DEPOSIT"
    ELSE IF r.kind = "withdraw" THEN "WITHDRAWAL" ELSE "TRANSFER"

EntryOf(r, fee, w) ==
    [tx |-> r.tx, wallet |-> w, type |-> TypeOfEntry(r, w),
     change |-> Change(r, fee, w), fee |-> fee]

(* Mutant: the row of the wallet that receives a transfer is not written.  *)
EntriesOfSender(r, fee) == {EntryOf(r, fee, r.wallet)}

Entries(r, fee) == {EntryOf(r, fee, w) : w \in Touched(r)}
=============================================================================
