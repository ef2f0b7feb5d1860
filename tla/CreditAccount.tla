---------------------------- MODULE CreditAccount ----------------------------
(***************************************************************************)
(* What the AI-credit service promises, as one atomic step per call: a     *)
(* grant adds its amount, a debit takes the amount or whatever is left,    *)
(* and the statement of the account gains exactly one entry, tagged with   *)
(* the call that caused it.  CreditLedger shows that the row-locking       *)
(* transactions of credit.service.ts implement this.                       *)
(***************************************************************************)
EXTENDS Integers, Sequences

CONSTANTS Users,    \* owners of accounts
          Calls,    \* identities of grant and debit calls
          Amounts,  \* credit amounts callers ask for
          IntMax    \* largest value the account's integer columns hold

VARIABLES balance,   \* balance[u]: credits user u can spend
          granted,   \* granted[u]: credits ever granted to u
          consumed,  \* consumed[u]: credits ever taken from u
          statement  \* statement[u]: the entries posted to u's account

vars == <<balance, granted, consumed, statement>>

Init == /\ balance = [u \in Users |-> 0]
        /\ granted = [u \in Users |-> 0]
        /\ consumed = [u \in Users |-> 0]
        /\ statement = [u \in Users |-> << >>]

\* No entry of any account carries this call yet.
Fresh(c) ==
  \A u \in Users : \A i \in 1..Len(statement[u]) : statement[u][i].call # c

Record(u, c, d) ==
  /\ balance' = [balance EXCEPT ![u] = @ + d]
  /\ statement' = [statement EXCEPT
       ![u] = Append(@, [call |-> c, delta |-> d, balanceAfter |-> balance[u] + d])]

Grant(u, c, a) ==
  /\ Fresh(c)
  /\ granted[u] + a <= IntMax
  /\ Record(u, c, a)
  /\ granted' = [granted EXCEPT ![u] = @ + a]
  /\ UNCHANGED consumed

Debit(u, c, a) ==
  /\ Fresh(c)
  /\ LET taken == IF a > balance[u] THEN balance[u] ELSE a
     IN  /\ consumed[u] + taken <= IntMax
         /\ Record(u, c, -taken)
         /\ consumed' = [consumed EXCEPT ![u] = @ + taken]
  /\ UNCHANGED granted

Next == \E u \in Users, c \in Calls, a \in Amounts :
          Grant(u, c, a) \/ Debit(u, c, a)

Spec == Init /\ [][Next]_vars
=============================================================================
