--------------------------- MODULE WalletRegistry ---------------------------
(***************************************************************************)
(* What creating a wallet promises, with no cache, race or failure in      *)
(* sight: a user has at most one wallet per currency, wallets do not go    *)
(* away, and a client is told "created" only of the wallet of its own call *)
(* and once per txId.  It does not promise that a wallet whose client was  *)
(* told of an error does not exist, nor one wallet per txId: calls with    *)
(* one txId and different currencies may each leave a wallet behind.       *)
(*                                                                         *)
(* WalletCreation is shown to implement this specification.                *)
(***************************************************************************)
CONSTANTS
    Calls,   \* calls of createWallet
    Bodies   \* the bodies they may carry: user, currency and txId

VARIABLES
    body,       \* the body of each call
    created,    \* the calls whose wallet exists
    confirmed   \* the calls whose client was told "created"

rvars == <<body, created, confirmed>>

(* Calls b and c ask for the same wallet.                                  *)
SameWallet(b, c) ==
    /\ body[b].user = body[c].user
    /\ body[b].currency = body[c].currency

RInit == /\ body \in [Calls -> Bodies]
         /\ created = {}
         /\ confirmed = {}

Create(c) ==
    /\ \A b \in created : ~ SameWallet(b, c)
    /\ created' = created \cup {c}
    /\ UNCHANGED <<body, confirmed>>

Confirm(c) ==
    /\ c \in created
    /\ \A b \in confirmed : body[b].tx # body[c].tx
    /\ confirmed' = confirmed \cup {c}
    /\ UNCHANGED <<body, created>>

RNext == \E c \in Calls : Create(c) \/ Confirm(c)

RSpec == RInit /\ [][RNext]_rvars
=============================================================================
