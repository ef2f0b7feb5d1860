------------------------- MODULE CreditLedgerProofs --------------------------
(***************************************************************************)
(* Proofs about CreditLedger, for any sets of users, calls and amounts.    *)
(***************************************************************************)
EXTENDS CreditLedger, TLAPS

USE CreditConstants

\* Posting to a row of the right type gives one.
LEMMA PostedType ==
  ASSUME NEW w \in WalletRow, NEW k \in Kinds, NEW a \in Nat
  PROVE  Posted(w, k, a) \in WalletRow
BY DEF Posted, NextBalance, WalletRow, Kinds

\* A grant or debit keeps what was granted equal to what is left plus what
\* was consumed.
LEMMA PostedAccounts ==
  ASSUME NEW w \in WalletRow, NEW k \in Kinds \ {"open"}, NEW a \in Nat,
         w.granted = w.balance + w.consumed
  PROVE  Posted(w, k, a).granted
           = Posted(w, k, a).balance + Posted(w, k, a).consumed
<1>1. CASE k = "grant"
  BY <1>1 DEF Posted, NextBalance, WalletRow
<1>2. CASE k = "debit"
  BY <1>2 DEF Posted, NextBalance, WalletRow
<1>3. QED
  BY <1>1, <1>2 DEF Kinds

\* Exactly the transactions between their first statement and their end hold
\* a row, the row of their user; getOrCreateWallet holds none.
Locking ==
  /\ \A u \in Users, c \in Calls :
       holder[u] = c <=> pc[c] \in {"apply", "commit"} /\ req[c].user = u
  /\ \A c \in Calls : pc[c] \in {"apply", "commit"} => req[c].kind # "open"

\* A user without a wallet row has an empty ledger.
Absent == \A u \in Users : u \notin created => wallet[u] = ZeroWallet

\* The entity a transaction computes from is the committed row.
Current == \A c \in Calls : pc[c] = "apply" => work[c] = wallet[req[c].user]

\* What a transaction is about to commit follows from the committed row.
Prepared ==
  \A c \in Calls : pc[c] = "commit" =>
    LET w == wallet[req[c].user] IN
    /\ work[c] = Posted(w, req[c].kind, req[c].amount)
    /\ Fits(work[c])
    /\ draft[c] = [call |-> c, delta |-> work[c].balance - w.balance,
                   balanceAfter |-> work[c].balance]

IInv ==
  /\ TypeOK /\ Locking /\ Absent /\ Current /\ Prepared
  /\ LedgerExplainsBalance /\ LifetimeAccounts

\* Every reachable state has the declared types (rows, requests, phases).
THEOREM TypeCorrect == Spec => []TypeOK
<1>1. Init => TypeOK
  BY DEF Init, TypeOK, ZeroWallet, WalletRow, LedgerRow, Phases
<1>2. TypeOK /\ [Next]_vars => TypeOK'
  <2> SUFFICES ASSUME TypeOK, [Next]_vars PROVE TypeOK'
    OBVIOUS
  <2> USE DEF TypeOK, committedVars
  <2>1. ASSUME NEW c \in Calls, Begin(c) PROVE TypeOK'
    BY <2>1 DEF Begin, Goto, Phases
  <2>2. ASSUME NEW c \in Calls, SelectForUpdate(c) PROVE TypeOK'
    BY <2>2 DEF SelectForUpdate, Goto, Phases, Request
  <2>3. ASSUME NEW c \in Calls,
               FindWallet(c) \/ SelectMissing(c) \/ UniqueViolation(c)
                 \/ Return(c) \/ AnswerLost(c)
        PROVE TypeOK'
    BY <2>3 DEF FindWallet, SelectMissing, UniqueViolation, Return, AnswerLost,
                Goto, Phases
  <2>4. ASSUME NEW c \in Calls, InsertWallet(c) PROVE TypeOK'
    BY <2>4 DEF InsertWallet, Goto, Phases, Request, ZeroWallet, WalletRow
  <2>5. ASSUME NEW c \in Calls, InsertAndReturn(c) PROVE TypeOK'
    BY <2>5 DEF InsertAndReturn, Goto, Phases, Request, ZeroWallet, WalletRow
  <2>6. ASSUME NEW c \in Calls, Apply(c) PROVE TypeOK'
    <3> DEFINE w == Posted(work[c], req[c].kind, req[c].amount)
               row == [call |-> c, delta |-> w.balance - work[c].balance,
                       balanceAfter |-> w.balance]
    <3>1. w \in WalletRow
      BY PostedType DEF Request
    <3>2. row \in LedgerRow
      BY <3>1 DEF WalletRow, LedgerRow
    <3>3. /\ work' = [work EXCEPT ![c] = w]
          /\ draft' = [draft EXCEPT ![c] = row]
          /\ pc' = [pc EXCEPT ![c] = "commit"]
          /\ UNCHANGED <<wallet, created, ledger, holder, req>>
      BY <2>6 DEF Apply, Goto
    <3> HIDE DEF w, row
    <3>4. QED
      BY <3>1, <3>2, <3>3 DEF Phases
  <2>7. ASSUME NEW c \in Calls, Overflow(c) \/ Abort(c) PROVE TypeOK'
    BY <2>7 DEF Overflow, Abort, Unlock, Goto, Phases
  <2>8. ASSUME NEW c \in Calls, Commit(c) PROVE TypeOK'
    BY <2>8 DEF Commit, Unlock, Goto, Phases, Request
  <2>9. ASSUME UNCHANGED vars PROVE TypeOK'
    BY <2>9 DEF vars
  <2>10. QED
    BY <2>1, <2>2, <2>3, <2>4, <2>5, <2>6, <2>7, <2>8, <2>9
    DEF Next, Progress, AllEnded
<1>3. QED
  BY <1>1, <1>2, PTL DEF Spec

\* What one step does to the committed rows: nothing, except that InsertAndReturn
\* creates an empty wallet and Commit writes a prepared transaction.
Idle(c) == FindWallet(c) \/ SelectMissing(c) \/ UniqueViolation(c)
             \/ Return(c) \/ AnswerLost(c) \/ Begin(c)

\* The strengthening is inductive, and it is what makes the two accounting
\* invariants hold of every reachable state.
THEOREM Inductive == Spec => []IInv
<1>1. Init => IInv
  BY DEF Init, IInv, TypeOK, ZeroWallet, WalletRow, LedgerRow, Phases, Locking,
         Absent, Current, Prepared, LedgerExplainsBalance, LifetimeAccounts,
         BalanceBefore
<1>2. IInv /\ TypeOK' /\ [Next]_vars => IInv'
  <2> SUFFICES ASSUME IInv, TypeOK', [Next]_vars PROVE IInv'
    OBVIOUS
  <2> USE DEF committedVars
  <2>1. ASSUME NEW c \in Calls, Idle(c) PROVE IInv'
    <3>1. /\ UNCHANGED <<wallet, created, ledger, holder, req, work, draft>>
          /\ pc[c] \notin {"apply", "commit"}
          /\ \E p \in Phases \ {"apply", "commit"} : pc' = [pc EXCEPT ![c] = p]
      BY <2>1 DEF Idle, FindWallet, SelectMissing, UniqueViolation, Return,
                  AnswerLost, Begin, Goto, Phases
    <3>2. Locking' /\ Absent' /\ Current' /\ Prepared'
      BY <3>1 DEF IInv, TypeOK, Locking, Absent, Current, Prepared
    <3>3. LedgerExplainsBalance' /\ LifetimeAccounts'
      BY <3>1 DEF IInv, LedgerExplainsBalance, LifetimeAccounts, BalanceBefore
    <3>4. QED
      BY <3>2, <3>3 DEF IInv
  <2>2. ASSUME NEW c \in Calls, SelectForUpdate(c) PROVE IInv'
    BY <2>2 DEF SelectForUpdate, Goto, IInv, TypeOK, Request, Locking, Absent,
                Current, Prepared, LedgerExplainsBalance, LifetimeAccounts,
                BalanceBefore
  <2>3. ASSUME NEW c \in Calls, InsertWallet(c) PROVE IInv'
    BY <2>3 DEF InsertWallet, Goto, IInv, TypeOK, Request, Locking, Absent,
                Current, Prepared, LedgerExplainsBalance, LifetimeAccounts,
                BalanceBefore
  <2>4. ASSUME NEW c \in Calls, InsertAndReturn(c) PROVE IInv'
    <3>1. wallet' = wallet /\ ledger' = ledger
      BY <2>4 DEF InsertAndReturn, IInv, TypeOK, Absent, Request
    <3>2. QED
      BY <2>4, <3>1 DEF InsertAndReturn, Goto, IInv, TypeOK, Locking, Absent,
                Current, Prepared, LedgerExplainsBalance, LifetimeAccounts,
                BalanceBefore
  <2>5. ASSUME NEW c \in Calls, Apply(c) PROVE IInv'
    <3>1. Current' /\ Locking' /\ Absent'
      BY <2>5 DEF Apply, Goto, IInv, TypeOK, Locking, Absent, Current
    <3>2. Prepared'
      BY <2>5 DEF Apply, Goto, IInv, TypeOK, Current, Prepared
    <3>3. LedgerExplainsBalance' /\ LifetimeAccounts'
      BY <2>5 DEF Apply, IInv, LedgerExplainsBalance, LifetimeAccounts,
                  BalanceBefore
    <3>4. QED
      BY <3>1, <3>2, <3>3 DEF IInv
  <2>6. ASSUME NEW c \in Calls, Overflow(c) \/ Abort(c) PROVE IInv'
    <3>a. /\ UNCHANGED <<wallet, created, ledger, req, work, draft>>
          /\ pc' = [pc EXCEPT ![c] = "failed"]
          /\ holder' = [u \in Users |-> IF holder[u] = c THEN None ELSE holder[u]]
      BY <2>6 DEF Overflow, Abort, Unlock, Goto
    <3>b. Locking'
      BY <3>a DEF IInv, TypeOK, Locking
    <3>c. Absent' /\ Current' /\ Prepared'
      BY <3>a DEF IInv, TypeOK, Absent, Current, Prepared
    <3>1. Locking' /\ Absent' /\ Current' /\ Prepared'
      BY <3>b, <3>c
    <3>2. LedgerExplainsBalance' /\ LifetimeAccounts'
      BY <2>6 DEF Overflow, Abort, IInv, LedgerExplainsBalance,
                  LifetimeAccounts, BalanceBefore
    <3>3. QED
      BY <3>1, <3>2 DEF IInv
  <2>7. ASSUME NEW c \in Calls, Commit(c) PROVE IInv'
    <3> DEFINE u == req[c].user
               w == wallet[u]
               rows == ledger[u]
    <3>1. /\ pc[c] = "commit" /\ u \in Users /\ holder[u] = c
          /\ req[c].kind \in Kinds \ {"open"} /\ req[c].amount \in Nat
          /\ w \in WalletRow /\ rows \in Seq(LedgerRow)
      <4>1. pc[c] = "commit" /\ req[c] \in Request
        BY <2>7 DEF Commit, IInv, TypeOK
      <4>2. u \in Users /\ req[c].kind \in Kinds /\ req[c].amount \in Nat
        BY <4>1 DEF Request
      <4>3. holder[u] = c /\ req[c].kind # "open"
        BY <4>1, <4>2 DEF IInv, Locking
      <4>4. w \in WalletRow /\ rows \in Seq(LedgerRow)
        BY <4>2 DEF IInv, TypeOK
      <4>5. QED
        BY <4>1, <4>2, <4>3, <4>4
    <3>2. /\ work[c] = Posted(w, req[c].kind, req[c].amount)
          /\ work[c] \in WalletRow
          /\ draft[c] = [call |-> c, delta |-> work[c].balance - w.balance,
                         balanceAfter |-> work[c].balance]
      BY <3>1 DEF IInv, Prepared, TypeOK
    <3>3. /\ wallet' = [wallet EXCEPT ![u] = work[c]]
          /\ ledger' = [ledger EXCEPT ![u] = Append(rows, draft[c])]
      BY <2>7 DEF Commit
    <3>4. Locking'
      BY <2>7, <3>1 DEF Commit, Unlock, Goto, IInv, TypeOK, Locking
    <3>5. Absent'
      BY <2>7, <3>1, <3>3 DEF Commit, IInv, TypeOK, Absent
    <3>6. ASSUME NEW d \in Calls, pc'[d] \in {"apply", "commit"}
          PROVE  req[d].user # u /\ pc[d] = pc'[d] /\ work'[d] = work[d]
                   /\ draft'[d] = draft[d] /\ req'[d] = req[d]
                   /\ wallet'[req[d].user] = wallet[req[d].user]
      BY <2>7, <3>1, <3>3, <3>6 DEF Commit, Goto, IInv, TypeOK, Locking, Request
    <3>7. Current' /\ Prepared'
      BY <3>6 DEF IInv, Current, Prepared
    <3>8. LifetimeAccounts'
      BY <3>1, <3>2, <3>3, PostedAccounts DEF IInv, TypeOK, LifetimeAccounts
    <3>9. LedgerExplainsBalance'
      <4> SUFFICES ASSUME NEW v \in Users
                   PROVE  LedgerExplainsBalance!(v)'
        BY DEF LedgerExplainsBalance
      <4>1. CASE v # u
        BY <4>1, <3>3 DEF IInv, TypeOK, LedgerExplainsBalance, BalanceBefore
      <4>2. CASE v = u
        <5>1. /\ ledger'[u] = Append(rows, draft[c])
              /\ wallet'[u] = work[c]
          BY <3>1, <3>3 DEF IInv, TypeOK
        <5>2. /\ Len(ledger'[u]) = Len(rows) + 1
              /\ ledger'[u][Len(rows) + 1] = draft[c]
              /\ \A i \in 1..Len(rows) : ledger'[u][i] = rows[i]
              /\ Len(rows) \in Nat
          BY <5>1, <3>1
        <5>3. /\ w.balance = BalanceBefore(rows, Len(rows) + 1)
              /\ \A i \in 1..Len(rows) :
                   rows[i].balanceAfter = BalanceBefore(rows, i) + rows[i].delta
          BY <3>1 DEF IInv, LedgerExplainsBalance
        <5>4. \A i \in 1..(Len(rows) + 1) :
                BalanceBefore(ledger'[u], i) = BalanceBefore(rows, i)
          BY <5>2 DEF BalanceBefore
        <5>5. draft[c].balanceAfter = w.balance + draft[c].delta
          BY <3>1, <3>2 DEF WalletRow
        <5>6. BalanceBefore(ledger'[u], Len(ledger'[u]) + 1) = work[c].balance
          BY <5>2, <3>2 DEF BalanceBefore
        <5>7. QED
          BY <4>2, <5>1, <5>2, <5>3, <5>4, <5>5, <5>6
      <4>3. QED
        BY <4>1, <4>2
    <3>10. QED
      BY <3>4, <3>5, <3>7, <3>8, <3>9 DEF IInv
  <2>8. ASSUME UNCHANGED vars PROVE IInv'
    BY <2>8 DEF vars, IInv, TypeOK, Locking, Absent, Current, Prepared,
                LedgerExplainsBalance, LifetimeAccounts, BalanceBefore
  <2>9. QED
    BY <2>1, <2>2, <2>3, <2>4, <2>5, <2>6, <2>7, <2>8
    DEF Next, Progress, AllEnded, Idle
<1>3. QED
  BY <1>1, <1>2, TypeCorrect, PTL DEF Spec

\* For any users, calls and amounts, however transactions interleave and
\* abort: every wallet's balance is the one its ledger rows add up to.
THEOREM LedgerAlwaysExplains == Spec => []LedgerExplainsBalance
BY Inductive, PTL DEF IInv

\* Lifetime grants always equal the balance plus lifetime consumption.
THEOREM LifetimeAlwaysAccounts == Spec => []LifetimeAccounts
BY Inductive, PTL DEF IInv

\* A ledger row is in the ledger of the user its call is for, and its call is
\* past its commit.
Settled == {"committed", "returned", "failed"}
RowsSettled ==
  \A u \in Users : \A i \in 1..Len(ledger[u]) :
    LET c == ledger[u][i].call IN pc[c] \in Settled /\ req[c].user = u

\* Only Commit writes the ledger, and it appends the row it prepared.
LEMMA LedgerStep ==
  ASSUME IInv, NEW c \in Calls, Commit(c)
  PROVE  LET u == req[c].user IN
         /\ u \in Users /\ pc[c] = "commit" /\ draft[c].call = c
         /\ ledger[u] \in Seq(LedgerRow)
         /\ ledger' = [ledger EXCEPT ![u] = Append(ledger[u], draft[c])]
         /\ pc' = [pc EXCEPT ![c] = "committed"]
         /\ req' = req
<1>1. pc[c] = "commit" /\ req[c] \in Request
  BY DEF Commit, IInv, TypeOK
<1>2. req[c].user \in Users
  BY <1>1 DEF Request
<1>3. draft[c].call = c
  <2> DEFINE d == work[c].balance - wallet[req[c].user].balance
             b == work[c].balance
  <2>1. draft[c] = [call |-> c, delta |-> d, balanceAfter |-> b]
    BY <1>1 DEF IInv, Prepared
  <2> HIDE DEF d, b
  <2>2. QED
    BY <2>1
<1>4. QED
  BY <1>1, <1>2, <1>3 DEF Commit, Goto, IInv, TypeOK

\* Any other step of a call leaves the ledger alone, and moves no settled call
\* out of the settled phases nor a call into "committed".
LEMMA OtherStep ==
  ASSUME IInv, NEW c \in Calls,
         Begin(c) \/ Progress(c) \/ Abort(c) \/ AnswerLost(c), ~ Commit(c)
  PROVE  /\ ledger' = ledger /\ req' = req
         /\ \E p \in Phases :
              /\ pc' = [pc EXCEPT ![c] = p]
              /\ pc[c] \in Settled => p \in Settled
              /\ p = "committed" => FALSE
              /\ p = "returned" /\ req[c].kind # "open" => pc[c] = "committed"
<1> USE DEF Phases, Settled, committedVars
<1>1. CASE Begin(c) \/ Abort(c) \/ AnswerLost(c)
  BY <1>1 DEF Begin, Abort, AnswerLost, Goto
<1>2. CASE SelectForUpdate(c) \/ FindWallet(c) \/ SelectMissing(c)
  BY <1>2 DEF SelectForUpdate, FindWallet, SelectMissing, Goto
<1>3. CASE InsertWallet(c) \/ InsertAndReturn(c) \/ UniqueViolation(c)
  BY <1>3 DEF InsertWallet, InsertAndReturn, UniqueViolation, Goto
<1>4. CASE Apply(c) \/ Overflow(c) \/ Return(c)
  BY <1>4 DEF Apply, Overflow, Return, Goto
<1>5. QED
  BY <1>1, <1>2, <1>3, <1>4 DEF Progress

\* No call is posted twice, and a grant or debit that was acknowledged is in
\* its user's ledger: the invariant with its strengthening.
LEMMA Postings == Spec => [](RowsSettled /\ AcknowledgedOnce)
<1> DEFINE J == RowsSettled /\ AcknowledgedOnce
<1>1. Init => J
  BY DEF Init, RowsSettled, AcknowledgedOnce
<1>2. IInv /\ J /\ [Next]_vars => J'
  <2> SUFFICES ASSUME IInv, J, [Next]_vars PROVE J'
    OBVIOUS
  <2>1. ASSUME NEW c \in Calls, Commit(c) PROVE J'
    <3> DEFINE u == req[c].user
    <3>1. /\ u \in Users /\ pc[c] = "commit" /\ draft[c].call = c
          /\ ledger[u] \in Seq(LedgerRow)
          /\ ledger' = [ledger EXCEPT ![u] = Append(ledger[u], draft[c])]
          /\ pc' = [pc EXCEPT ![c] = "committed"]
          /\ req' = req
      BY <2>1, LedgerStep
    <3>2. /\ Len(ledger'[u]) = Len(ledger[u]) + 1
          /\ ledger'[u][Len(ledger[u]) + 1] = draft[c]
          /\ \A i \in 1..Len(ledger[u]) : ledger'[u][i] = ledger[u][i]
          /\ Len(ledger[u]) \in Nat
      BY <3>1 DEF IInv, TypeOK
    <3>3. \A v \in Users : v # u => ledger'[v] = ledger[v]
      BY <3>1 DEF IInv, TypeOK
    <3>4. \A v \in Users : \A i \in 1..Len(ledger[v]) :
            ledger[v][i].call # c /\ ledger[v][i].call \in Calls
      <4> SUFFICES ASSUME NEW v \in Users, NEW i \in 1..Len(ledger[v])
                   PROVE  ledger[v][i].call # c /\ ledger[v][i].call \in Calls
        OBVIOUS
      <4>1. ledger[v] \in Seq(LedgerRow)
        BY DEF IInv, TypeOK
      <4>2. ledger[v][i] \in LedgerRow
        BY <4>1
      <4>3. pc[ledger[v][i].call] \in Settled
        BY DEF RowsSettled
      <4>4. QED
        BY <3>1, <4>2, <4>3 DEF LedgerRow, Settled
    <3>5. \A v \in Users : \A i \in 1..Len(ledger'[v]) :
            \/ v = u /\ i = Len(ledger[u]) + 1 /\ ledger'[v][i].call = c
            \/ i \in 1..Len(ledger[v]) /\ ledger'[v][i] = ledger[v][i]
      BY <3>1, <3>2, <3>3
    <3>6. RowsSettled'
      BY <3>1, <3>4, <3>5 DEF RowsSettled, Settled, IInv, TypeOK
    <3>7. \A v, x \in Users :
            \A i \in 1..Len(ledger'[v]), j \in 1..Len(ledger'[x]) :
              ledger'[v][i].call = ledger'[x][j].call => v = x /\ i = j
      <4> SUFFICES ASSUME NEW v \in Users, NEW x \in Users,
                          NEW i \in 1..Len(ledger'[v]),
                          NEW j \in 1..Len(ledger'[x]),
                          ledger'[v][i].call = ledger'[x][j].call
                   PROVE  v = x /\ i = j
        OBVIOUS
      <4>1. CASE i \in 1..Len(ledger[v]) /\ ledger'[v][i] = ledger[v][i]
        <5>1. ledger'[v][i].call # c
          BY <4>1, <3>4
        <5>2. j \in 1..Len(ledger[x]) /\ ledger'[x][j] = ledger[x][j]
          BY <5>1, <3>5
        <5>3. QED
          BY <4>1, <5>2 DEF AcknowledgedOnce
      <4>2. CASE v = u /\ i = Len(ledger[u]) + 1 /\ ledger'[v][i].call = c
        <5>1. x = u /\ j = Len(ledger[u]) + 1
          BY <4>2, <3>4, <3>5
        <5>2. QED
          BY <4>2, <5>1
      <4>3. QED
        BY <4>1, <4>2, <3>5
    <3>8. ASSUME NEW d \in Calls, pc'[d] \in {"committed", "returned"},
                 req'[d].kind # "open"
          PROVE  \E i \in 1..Len(ledger'[req'[d].user]) :
                   ledger'[req'[d].user][i].call = d
      <4>1. CASE d = c
        BY <4>1, <3>1, <3>2
      <4>2. CASE d # c
        <5>1. pc[d] = pc'[d] /\ req[d].user \in Users
          BY <4>2, <3>1 DEF IInv, TypeOK, Request
        <5>2. PICK i \in 1..Len(ledger[req[d].user]) :
                     ledger[req[d].user][i].call = d
          BY <5>1, <3>1, <3>8 DEF AcknowledgedOnce
        <5>3. QED
          BY <5>1, <5>2, <3>1, <3>2, <3>3
      <4>3. QED
        BY <4>1, <4>2
    <3>9. QED
      BY <3>6, <3>7, <3>8 DEF AcknowledgedOnce
  <2>2. ASSUME NEW c \in Calls,
               Begin(c) \/ Progress(c) \/ Abort(c) \/ AnswerLost(c), ~ Commit(c)
        PROVE  J'
    <3>1. PICK p \in Phases :
            /\ ledger' = ledger /\ req' = req
            /\ pc' = [pc EXCEPT ![c] = p]
            /\ pc[c] \in Settled => p \in Settled
            /\ p = "committed" => FALSE
            /\ p = "returned" /\ req[c].kind # "open" => pc[c] = "committed"
      BY <2>2, OtherStep
    <3>2. RowsSettled'
      BY <3>1 DEF RowsSettled, IInv, TypeOK
    <3>3. \A d \in Calls :
            pc'[d] \in {"committed", "returned"} /\ req[d].kind # "open" =>
              pc[d] \in {"committed", "returned"}
      BY <3>1 DEF IInv, TypeOK
    <3>a. AcknowledgedOnce'
      BY <3>1, <3>3 DEF AcknowledgedOnce
    <3>4. QED
      BY <3>2, <3>a
  <2>3. ASSUME UNCHANGED vars PROVE J'
    BY <2>3 DEF vars, RowsSettled, AcknowledgedOnce
  <2>4. QED
    BY <2>1, <2>2, <2>3 DEF Next, Progress, AllEnded
<1>3. QED
  BY <1>1, <1>2, Inductive, PTL DEF Spec

\* However transactions interleave, are rejected or roll back, no call posts
\* two ledger rows and no acknowledged grant or debit is missing from the ledger.
THEOREM AlwaysAcknowledgedOnce == Spec => []AcknowledgedOnce
BY Postings, PTL

\* A commit is one posting of the abstract account.
LEMMA CommitImplements ==
  ASSUME IInv, RowsSettled, NEW c \in Calls, Commit(c)
  PROVE  Account!Next
<1>a. /\ req[c].user \in Users /\ pc[c] = "commit"
      /\ ledger[req[c].user] \in Seq(LedgerRow)
      /\ ledger' = [ledger EXCEPT ![req[c].user] = Append(ledger[req[c].user],
                                                          draft[c])]
  BY LedgerStep
<1>b. req[c] \in Request
  BY DEF IInv, TypeOK
<1>u. PICK u \in Users : u = req[c].user
  BY <1>a
<1>k. PICK k \in Kinds \ {"open"} : k = req[c].kind
  BY <1>a, <1>b DEF IInv, Locking, Request
<1>m. PICK a \in Amounts : a = req[c].amount
  BY <1>b DEF Request
<1> DEFINE w == wallet[u]
           x == work[c]
<1>1. /\ u \in Users /\ pc[c] = "commit"
      /\ ledger[u] \in Seq(LedgerRow)
      /\ ledger' = [ledger EXCEPT ![u] = Append(ledger[u], draft[c])]
  BY <1>a, <1>u
<1>2. k \in Kinds \ {"open"} /\ a \in Nat /\ a \in Amounts
  OBVIOUS
<1>3. w \in WalletRow /\ x \in WalletRow
  BY <1>1 DEF IInv, TypeOK
<1>4. /\ x = Posted(w, k, a) /\ Fits(x)
      /\ draft[c] = [call |-> c, delta |-> x.balance - w.balance,
                     balanceAfter |-> x.balance]
  BY <1>1, <1>u, <1>k, <1>m DEF IInv, Prepared
<1>5. wallet' = [wallet EXCEPT ![u] = x]
  BY <1>u DEF Commit
<1>6. Account!Fresh(c)
  BY <1>1 DEF Account!Fresh, RowsSettled, Settled
<1>7. /\ [v \in Users |-> wallet[v].balance]' =
           [[v \in Users |-> wallet[v].balance] EXCEPT ![u] = x.balance]
      /\ [v \in Users |-> wallet[v].granted]' =
           [[v \in Users |-> wallet[v].granted] EXCEPT ![u] = x.granted]
      /\ [v \in Users |-> wallet[v].consumed]' =
           [[v \in Users |-> wallet[v].consumed] EXCEPT ![u] = x.consumed]
  BY <1>1, <1>5 DEF IInv, TypeOK
<1>8. ASSUME NEW d \in Int, d = x.balance - w.balance
      PROVE  Account!Record(u, c, d)
  <2>1. w.balance + d = x.balance
    BY <1>3, <1>8 DEF WalletRow
  <2>2. QED
    BY <1>1, <1>4, <1>7, <1>8, <2>1 DEF Account!Record
<1>9. CASE k = "grant"
  <2>1. /\ a = x.balance - w.balance /\ x.granted = w.granted + a
        /\ x.consumed = w.consumed /\ x.granted <= IntMax
    BY <1>2, <1>3, <1>4, <1>9 DEF Posted, NextBalance, Fits, WalletRow
  <2>2. UNCHANGED [v \in Users |-> wallet[v].consumed]
    BY <1>1, <1>7, <2>1
  <2>3. Account!Record(u, c, a)
    BY <1>2, <1>8, <2>1
  <2>4. Account!Grant(u, c, a)
    BY <1>1, <1>6, <1>7, <2>1, <2>2, <2>3 DEF Account!Grant
  <2>5. QED
    BY <1>1, <1>2, <2>4 DEF Account!Next
<1>10. CASE k = "debit"
  <2>1. PICK taken \in Nat : taken = IF a > w.balance THEN w.balance ELSE a
    BY <1>2, <1>3 DEF WalletRow
  <2>2. /\ -taken = x.balance - w.balance /\ x.granted = w.granted
        /\ x.consumed = w.consumed + taken /\ x.consumed <= IntMax
    BY <1>2, <1>3, <1>4, <1>10, <2>1 DEF Posted, NextBalance, Fits, WalletRow
  <2>3. UNCHANGED [v \in Users |-> wallet[v].granted]
    BY <1>1, <1>7, <2>2
  <2>4. Account!Record(u, c, -taken)
    BY <1>8, <2>2
  <2>5. /\ [v \in Users |-> wallet[v].balance][u] = w.balance
        /\ [v \in Users |-> wallet[v].consumed][u] = w.consumed
    BY <1>1
  <2>6. Account!Debit(u, c, a)
    BY <1>6, <1>7, <2>1, <2>2, <2>3, <2>4, <2>5
    DEF Account!Debit, Account!Record
  <2>7. QED
    BY <1>1, <1>2, <2>6 DEF Account!Next
<1>11. QED
  BY <1>2, <1>9, <1>10 DEF Kinds

\* A step that is not a commit leaves what the account shows unchanged.
LEMMA OtherStepStutters ==
  ASSUME IInv, NEW c \in Calls,
         Begin(c) \/ Progress(c) \/ Abort(c) \/ AnswerLost(c), ~ Commit(c)
  PROVE  UNCHANGED <<wallet, ledger>>
<1> USE DEF committedVars
<1>1. CASE Begin(c) \/ Abort(c) \/ AnswerLost(c)
  BY <1>1 DEF Begin, Abort, AnswerLost
<1>2. CASE SelectForUpdate(c) \/ FindWallet(c) \/ SelectMissing(c)
  BY <1>2 DEF SelectForUpdate, FindWallet, SelectMissing
<1>3. CASE InsertWallet(c) \/ UniqueViolation(c)
  BY <1>3 DEF InsertWallet, UniqueViolation
<1>4. CASE InsertAndReturn(c)
  <2>1. req[c].user \in Users
    BY DEF IInv, TypeOK, Request
  <2>2. QED
    BY <1>4, <2>1 DEF InsertAndReturn, IInv, TypeOK, Absent
<1>5. CASE Apply(c) \/ Overflow(c) \/ Return(c)
  BY <1>5 DEF Apply, Overflow, Return
<1>6. QED
  BY <1>1, <1>2, <1>3, <1>4, <1>5 DEF Progress

\* The interleaved, lockable, abortable transactions of the credit service
\* implement an account that posts every call in one step.
THEOREM LedgerImplementsAccount == Spec => ImplementsAccount
<1>1. Init => Account!Init
  BY DEF Init, ZeroWallet, Account!Init
<1>2. IInv /\ RowsSettled /\ [Next]_vars => [Account!Next]_(Account!vars)
  <2> SUFFICES ASSUME IInv, RowsSettled, [Next]_vars
               PROVE  Account!Next \/ UNCHANGED Account!vars
    OBVIOUS
  <2>1. ASSUME UNCHANGED <<wallet, ledger>> PROVE UNCHANGED Account!vars
    BY <2>1 DEF Account!vars
  <2>2. CASE \E c \in Calls : Commit(c)
    BY <2>2, CommitImplements
  <2>3. CASE ~ \E c \in Calls : Commit(c)
    <3>1. UNCHANGED <<wallet, ledger>>
      BY <2>3, OtherStepStutters DEF Next, AllEnded, vars
    <3>2. QED
      BY <3>1, <2>1
  <2>4. QED
    BY <2>2, <2>3
<1>3. QED
  BY <1>1, <1>2, Inductive, Postings, PTL
  DEF Spec, ImplementsAccount, Account!Spec
=============================================================================
