---------------------------- MODULE WalletLedger ----------------------------
(***************************************************************************)
(* What the asynchronous wallet operations promise, with no queue, cache,  *)
(* lock, crash or duplicate in sight: a request settles atomically, on all *)
(* the wallets it names at once, only when those wallets are valid and the *)
(* debited one can pay, and no idempotency key ever settles twice.         *)
(*                                                                         *)
(* WalletSystem is shown to implement this specification.                  *)
(***************************************************************************)
EXTENDS WalletRequests, FiniteSetsExt

VARIABLES
    balance,   \* [Wallets -> Int]
    ledger     \* the rows of the Transaction table

lvars == <<balance, ledger>>

LInit == /\ balance = InitialBalance
         /\ ledger = {}

Settled(tx) == \E e \in ledger : e.tx = tx

Settle(r, fee) ==
    /\ ~ Settled(r.tx)
    /\ Valid(r)
    /\ Debits(r) => balance[r.wallet] >= r.amount
    /\ r.kind = "transfer" => r.toWallet # r.wallet
    /\ balance' = [w \in Wallets |-> balance[w] + Change(r, fee, w)]
    /\ ledger' = ledger \cup Entries(r, fee)

LNext == \E r \in Requests : \E fee \in Fees(r) : Settle(r, fee)

LSpec == LInit /\ [][LNext]_lvars

-----------------------------------------------------------------------------

(* Every balance is the initial balance plus the rows of its wallet.       *)
Reconciled ==
    \A w \in Wallets :
        balance[w] = InitialBalance[w]
                     + MapThenSumSet(LAMBDA e : e.change,
                                     {e \in ledger : e.wallet = w})

(* An idempotency key settles as a whole, and once: the rows of a txId are *)
(* those of one request.                                                   *)
SettledWhole ==
    \A t \in TxIds : Settled(t) =>
        \E r \in Requests : \E fee \in Fees(r) :
            /\ r.tx = t
            /\ {e \in ledger : e.tx = t} = Entries(r, fee)
=============================================================================
