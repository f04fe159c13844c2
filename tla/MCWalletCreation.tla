-------------------------- MODULE MCWalletCreation --------------------------
(***************************************************************************)
(* A small instance of WalletCreation: one user, two currencies, two       *)
(* txIds.                                                                  *)
(***************************************************************************)
EXTENDS WalletCreation

CONSTANT First   \* one of the calls

MCUsers      == {"ann"}
MCCurrencies == {"NGN", "USD"}
MCTxIds      == {"t1", "t2"}

(* The calls carry any bodies.  As currencies and txIds are interchangeable *)
(* nothing is lost by fixing those of the first one.                        *)
MCInit == /\ Init
          /\ body[First] = [user |-> "ann", currency |-> "NGN", tx |-> "t1"]

MCSpec == MCInit /\ [][Next]_vars /\ Fairness
=============================================================================
