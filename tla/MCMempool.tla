------------------------------ MODULE MCMempool ------------------------------
(***************************************************************************)
(* Instances of Mempool: two accounts, and transactions in the order of      *)
(* their arrival times (they may reach the database in any order).           *)
(***************************************************************************)
EXTENDS Mempool

CONSTANTS Alice, Bob

L2(account, nonce, fee) == [l1 |-> FALSE, account |-> account, nonce |-> nonce, fee |-> fee]
L1(account, nonce) == [l1 |-> TRUE, account |-> account, nonce |-> nonce, fee |-> 0]

MCAccount == {Alice, Bob}

\* The second transaction of Alice pays too little for the higher price.
Prices == <<L2(Alice, 0, 2), L2(Alice, 1, 1), L2(Bob, 0, 2), L1(Alice, 0)>>

\* The same with a second deposit.
Deposits == Append(Prices, L1(Bob, 1))

\* The third transaction replaces the first, or is replaced by it.
Replace == <<L2(Alice, 0, 1), L2(Alice, 1, 1), L2(Alice, 0, 1), L1(Alice, 0)>>
=============================================================================
