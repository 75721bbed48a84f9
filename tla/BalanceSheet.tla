---------------------------- MODULE BalanceSheet ----------------------------
(***************************************************************************)
(* What the confidential ledger promises, with nothing confidential about  *)
(* it: a sheet of balances that deposits add to, withdrawals take from and *)
(* transfers shift between, all on the order of the account that pays.     *)
(***************************************************************************)
EXTENDS Naturals, Sequences

CONSTANTS
  Accounts,
  Tokens,
  Amounts   \* what one order may move

VARIABLES
  opened,   \* accounts that may hold something
  balance,  \* account |-> token |-> what it holds
  orders    \* the orders that were carried out: whose, and what was public of them

vars == <<opened, balance, orders>>

Init ==
  /\ opened = {}
  /\ balance = [a \in Accounts |-> [t \in Tokens |-> 0]]
  /\ orders = <<>>

Open(a) ==
  /\ opened' = opened \cup {a}
  /\ UNCHANGED <<balance, orders>>

Ordered(a, t, inflow, outflow) ==
  /\ a \in opened
  /\ orders' = Append(orders, [account |-> a, token |-> t, inflow |-> inflow, outflow |-> outflow])
  /\ UNCHANGED opened

\* A merge is a deposit of nothing.
Deposit(a, t, x) ==
  /\ Ordered(a, t, x, 0)
  /\ balance' = [balance EXCEPT ![a][t] = @ + x]

Withdraw(a, t, x) ==
  /\ Ordered(a, t, 0, x)
  /\ x <= balance[a][t]
  /\ balance' = [balance EXCEPT ![a][t] = @ - x]

Transfer(a, b, t, x) ==
  /\ Ordered(a, t, 0, 0)
  /\ b \in opened
  /\ x <= balance[a][t]
  /\ LET paid == [balance EXCEPT ![a][t] = @ - x]
     IN  balance' = [paid EXCEPT ![b][t] = @ + x]

Next ==
  \/ \E a \in Accounts : Open(a)
  \/ \E a \in Accounts, t \in Tokens, x \in Amounts :
       \/ Deposit(a, t, x)
       \/ Withdraw(a, t, x)
       \/ \E b \in Accounts : Transfer(a, b, t, x)

Spec == Init /\ [][Next]_vars

=============================================================================
