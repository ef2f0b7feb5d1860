---------------------------- MODULE CreditLedger -----------------------------
(***************************************************************************)
(* The AI-credit wallets of modules/monetization/credit.service.ts.  Every *)
(* grant and debit is a PostgreSQL transaction (READ COMMITTED) that       *)
(* selects the wallet row FOR UPDATE, inserts it when it is missing,       *)
(* updates it and appends a ledger row; getOrCreateWallet is a plain read  *)
(* followed by an insert.  Transactions of several processes interleave    *)
(* at every statement that can wait or fail, and any of them may be        *)
(* aborted by a crash or a lost connection.                                *)
(***************************************************************************)
EXTENDS Integers, Sequences

CONSTANTS Users,    \* wallet owners
          Calls,    \* service calls; each runs at most one transaction
          Amounts,  \* |amount| of the CreditMutation of a call
          IntMax,   \* largest value of the wallet's int columns (2^31 - 1)
          None      \* nobody holds the row

ASSUME CreditConstants ==
  /\ Amounts \subseteq Nat
  /\ IntMax \in Nat
  /\ None \notin Calls

VARIABLES wallet,   \* wallet[u]: the committed credit_wallets row of u
          created,  \* users whose row exists; the others read as all zero
          ledger,   \* ledger[u]: committed credit_transactions rows of u
          holder,   \* holder[u]: the call whose open transaction locks u's row
          pc,       \* pc[c]: the statement call c executes next
          req,      \* req[c]: what call c is asked
          work,     \* work[c]: the wallet entity c's transaction writes
          draft     \* draft[c]: the ledger row c's transaction writes

vars == <<wallet, created, ledger, holder, pc, req, work, draft>>
committedVars == <<wallet, created, ledger>>

Kinds == {"grant", "debit", "open"}
Phases == {"idle", "select", "insert", "apply", "commit", "committed",
           "returned", "rejected", "failed"}
Ended == {"returned", "rejected", "failed"}

WalletRow == [balance : Nat, granted : Nat, consumed : Nat]
LedgerRow == [call : Calls, delta : Int, balanceAfter : Nat]
Request == [kind : Kinds, user : Users, amount : Amounts]

ZeroWallet == [balance |-> 0, granted |-> 0, consumed |-> 0]

TypeOK ==
  /\ wallet \in [Users -> WalletRow]
  /\ created \in SUBSET Users
  /\ ledger \in [Users -> Seq(LedgerRow)]
  /\ holder \in [Users -> Calls \cup {None}]
  /\ pc \in [Calls -> Phases]
  /\ req \in [Calls -> Request]
  /\ work \in [Calls -> WalletRow]
  /\ draft \in [Calls -> LedgerRow]

\* The callers' requests are arbitrary.  Before a transaction reads its row,
\* the entity and the ledger row it will write are placeholders.
Init ==
  /\ wallet = [u \in Users |-> ZeroWallet]
  /\ created = {}
  /\ ledger = [u \in Users |-> << >>]
  /\ holder = [u \in Users |-> None]
  /\ pc = [c \in Calls |-> "idle"]
  /\ req \in [Calls -> Request]
  /\ work = [c \in Calls |-> ZeroWallet]
  /\ draft = [c \in Calls |-> [call |-> c, delta |-> 0, balanceAfter |-> 0]]
-----------------------------------------------------------------------------
Goto(c, p) == pc' = [pc EXCEPT ![c] = p]
Unlock(c) == holder' = [u \in Users |-> IF holder[u] = c THEN None ELSE holder[u]]

\* grant, debit or getOrCreateWallet is called.
Begin(c) ==
  /\ pc[c] = "idle"
  /\ Goto(c, "select")
  /\ UNCHANGED <<committedVars, holder, req, work, draft>>

\* Mutant of SelectForUpdate: the read does not wait for the row lock.
SelectWithoutLock(c) ==
  LET u == req[c].user IN
  /\ pc[c] = "select" /\ req[c].kind # "open"
  /\ u \in created
  /\ holder' = [holder EXCEPT ![u] = c]
  /\ work' = [work EXCEPT ![c] = wallet[u]]
  /\ Goto(c, "apply")
  /\ UNCHANGED <<committedVars, req, draft>>

\* SELECT ... FOR UPDATE finds the row and waits until nobody holds it.
SelectForUpdate(c) ==
  LET u == req[c].user IN
  /\ pc[c] = "select" /\ req[c].kind # "open"
  /\ u \in created /\ holder[u] = None
  /\ holder' = [holder EXCEPT ![u] = c]
  /\ work' = [work EXCEPT ![c] = wallet[u]]
  /\ Goto(c, "apply")
  /\ UNCHANGED <<committedVars, req, draft>>

\* getOrCreateWallet's plain read finds the row and returns it.
FindWallet(c) ==
  /\ pc[c] = "select" /\ req[c].kind = "open"
  /\ req[c].user \in created
  /\ Goto(c, "returned")
  /\ UNCHANGED <<committedVars, holder, req, work, draft>>

\* No committed row: the read locks nothing, and an INSERT will follow.
SelectMissing(c) ==
  /\ pc[c] = "select"
  /\ req[c].user \notin created
  /\ Goto(c, "insert")
  /\ UNCHANGED <<committedVars, holder, req, work, draft>>

\* The INSERT waits while another transaction holds an uncommitted row of
\* the same user, then owns the new row.
InsertWallet(c) ==
  LET u == req[c].user IN
  /\ pc[c] = "insert" /\ req[c].kind # "open"
  /\ u \notin created /\ holder[u] = None
  /\ holder' = [holder EXCEPT ![u] = c]
  /\ work' = [work EXCEPT ![c] = ZeroWallet]
  /\ Goto(c, "apply")
  /\ UNCHANGED <<committedVars, req, draft>>

\* The same INSERT outside a transaction commits at once.
InsertAndReturn(c) ==
  LET u == req[c].user IN
  /\ pc[c] = "insert" /\ req[c].kind = "open"
  /\ u \notin created /\ holder[u] = None
  /\ created' = created \cup {u}
  /\ wallet' = [wallet EXCEPT ![u] = ZeroWallet]
  /\ Goto(c, "returned")
  /\ UNCHANGED <<ledger, holder, req, work, draft>>

\* uq_credit_wallet_user rejects the second row of a user: the call throws.
UniqueViolation(c) ==
  /\ pc[c] = "insert"
  /\ req[c].user \in created
  /\ Goto(c, "rejected")
  /\ UNCHANGED <<committedVars, holder, req, work, draft>>
-----------------------------------------------------------------------------

NextBalance(w, delta) == IF w.balance + delta < 0 THEN 0 ELSE w.balance + delta

\* Mutant of Posted: a debit larger than the balance takes nothing.
PostedAllOrNothing(w, kind, amount) ==
  IF kind = "grant" THEN [w EXCEPT !.balance = @ + amount, !.granted = @ + amount]
  ELSE IF amount > w.balance THEN w
  ELSE [w EXCEPT !.balance = @ - amount, !.consumed = @ + amount]

\* The wallet entity after apply(): clamped balance and lifetime counters.
Posted(w, kind, amount) ==
  LET next == NextBalance(w, IF kind = "grant" THEN amount ELSE -amount) IN
  [balance  |-> next,
   granted  |-> IF kind = "grant" THEN w.granted + amount ELSE w.granted,
   consumed |-> IF kind = "debit" THEN w.consumed + (w.balance - next)
                                  ELSE w.consumed]

Fits(w) == w.balance <= IntMax /\ w.granted <= IntMax /\ w.consumed <= IntMax

\* Computes the new row; saves the wallet and the ledger row.
Apply(c) ==
  LET w == Posted(work[c], req[c].kind, req[c].amount) IN
  /\ pc[c] = "apply"
  /\ Fits(w)
  /\ work' = [work EXCEPT ![c] = w]
  /\ draft' = [draft EXCEPT ![c] = [call |-> c,
                                    delta |-> w.balance - work[c].balance,
                                    balanceAfter |-> w.balance]]
  /\ Goto(c, "commit")
  /\ UNCHANGED <<committedVars, holder, req>>

\* The UPDATE overflows an int column: PostgreSQL aborts the transaction.
Overflow(c) ==
  /\ pc[c] = "apply"
  /\ ~ Fits(Posted(work[c], req[c].kind, req[c].amount))
  /\ Unlock(c)
  /\ Goto(c, "failed")
  /\ UNCHANGED <<committedVars, req, work, draft>>

Commit(c) ==
  LET u == req[c].user IN
  /\ pc[c] = "commit"
  /\ wallet' = [wallet EXCEPT ![u] = work[c]]
  /\ created' = created \cup {u}
  /\ ledger' = [ledger EXCEPT ![u] = Append(@, draft[c])]
  /\ Unlock(c)
  /\ Goto(c, "committed")
  /\ UNCHANGED <<req, work, draft>>

\* A crash or a lost connection rolls an open transaction back.
Abort(c) ==
  /\ pc[c] \in {"select", "insert", "apply", "commit"}
  /\ Unlock(c)
  /\ Goto(c, "failed")
  /\ UNCHANGED <<committedVars, req, work, draft>>

Return(c) ==
  /\ pc[c] = "committed"
  /\ Goto(c, "returned")
  /\ UNCHANGED <<committedVars, holder, req, work, draft>>

\* Mutant of AnswerLost: the caller runs the call again.
RetryAfterLostAnswer(c) ==
  /\ pc[c] = "committed"
  /\ Goto(c, "select")
  /\ UNCHANGED <<committedVars, holder, req, work, draft>>

\* The connection is lost after the commit: the caller sees an error.
AnswerLost(c) ==
  /\ pc[c] = "committed"
  /\ Goto(c, "failed")
  /\ UNCHANGED <<committedVars, holder, req, work, draft>>

\* What the code and the database do of themselves, crashes left out.
Progress(c) ==
  \/ SelectForUpdate(c) \/ FindWallet(c) \/ SelectMissing(c)
  \/ InsertWallet(c) \/ InsertAndReturn(c) \/ UniqueViolation(c)
  \/ Apply(c) \/ Overflow(c) \/ Commit(c) \/ Return(c)

AllEnded == (\A c \in Calls : pc[c] \in Ended) /\ UNCHANGED vars

Next ==
  \/ \E c \in Calls : Begin(c) \/ Progress(c) \/ Abort(c) \/ AnswerLost(c)
  \/ AllEnded

Fairness == \A c \in Calls : WF_vars(Progress(c))

Spec == Init /\ [][Next]_vars
LiveSpec == Spec /\ Fairness
-----------------------------------------------------------------------------
(* Properties *)

\* A wallet's balance is what its ledger says: the rows chain from zero,
\* each balanceAfter being the previous one plus the row's delta, and the
\* last one is the balance (credit.service.ts: "the ledger is always the
\* source of truth and the balance is a fast cache of its sum").
BalanceBefore(rows, i) == IF i = 1 THEN 0 ELSE rows[i - 1].balanceAfter
LedgerExplainsBalance ==
  \A u \in Users :
    /\ \A i \in 1..Len(ledger[u]) :
         ledger[u][i].balanceAfter = BalanceBefore(ledger[u], i) + ledger[u][i].delta
    /\ wallet[u].balance = BalanceBefore(ledger[u], Len(ledger[u]) + 1)

\* The lifetime counters account for every credit that came or went, clamped
\* debits included, so the reports built on them agree with the balance.
LifetimeAccounts ==
  \A u \in Users : wallet[u].granted = wallet[u].balance + wallet[u].consumed

\* A call posts at most one ledger row, and a grant or debit acknowledged to
\* its caller has posted one: no interleaving, rejection or rollback loses an
\* acknowledged mutation or applies one twice (the transaction of apply()).
AcknowledgedOnce ==
  /\ \A u, v \in Users : \A i \in 1..Len(ledger[u]), j \in 1..Len(ledger[v]) :
       ledger[u][i].call = ledger[v][j].call => u = v /\ i = j
  /\ \A c \in Calls :
       pc[c] \in {"committed", "returned"} /\ req[c].kind # "open" =>
         \E i \in 1..Len(ledger[req[c].user]) : ledger[req[c].user][i].call = c

\* Every call that starts comes to an end: row locks are always released, by
\* commit, rejection or rollback, and no two transactions wait on each other.
EveryCallEnds == \A c \in Calls : pc[c] = "select" ~> pc[c] \in Ended

\* Seen through its committed rows the service is the atomic account.
Account == INSTANCE CreditAccount WITH
             balance   <- [u \in Users |-> wallet[u].balance],
             granted   <- [u \in Users |-> wallet[u].granted],
             consumed  <- [u \in Users |-> wallet[u].consumed],
             statement <- ledger
ImplementsAccount == Account!Spec

\* What the comment at credit.service.ts:97 says of two calls for one user,
\* "concurrent debits/grants serialize on the balance": neither is turned away
\* because the other exists.
ConcurrentCallsSerialize ==
  \A c \in Calls : pc[c] = "rejected" => req[c].kind = "open"
=============================================================================
