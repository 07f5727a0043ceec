------------------------- MODULE HistoryStoreProofs -------------------------
(***************************************************************************)
(* Proofs about HistoryStore for any number of processes, any callbacks    *)
(* and any capacity: its transactions exclude one another, decide on the   *)
(* committed history, implement AtomicHistory, and never make a readable   *)
(* file unreadable.                                                        *)
(***************************************************************************)
EXTENDS HistoryStore, SequenceTheorems, TLAPS

Answers ==
  {StoreFailure, NoAnswer}
    \cup {Work(history, o).answer : history \in Seq(Event), o \in Op}

Transaction == [history : Seq(Event), appends : Seq(Event), answer : Answers]

(* Types, with the shape of the process-local records.                      *)
Typed ==
  /\ lock \in Proc \cup {None}
  /\ pc \in [Proc -> {"closed", "creating", "called", "idle", "committed"} \cup InTransaction]
  /\ op \in [Proc -> Op \cup {None}]
  /\ txn \in [Proc -> Transaction]
  /\ committed \in Seq(Event)
  /\ Len(committed) <= Capacity

(* The metadata names the committed history, damaged rows or not.           *)
DigestCommitted == db.digest = committed

(* Up to the last comparison strayed says whether the path leads elsewhere; *)
(* whoever is past it saw a path to the file.                               *)
StrayedAway ==
  /\ atPath \in BOOLEAN
  /\ strayed \in [Proc -> BOOLEAN]
  /\ \A p \in Proc :
       /\ strayed[p] => ~atPath
       /\ pc[p] \in BeforeComparison => strayed[p] = ~atPath
       /\ pc[p] \in {"stamped", "committed"} => ~strayed[p]

(* What a transaction is about to commit, or to answer as it fails, is what *)
(* its callback made of the committed history.                              *)
Prepared(p) ==
  LET w == Work(committed, op[p])
  IN  /\ Fits(committed, txn[p].appends)
      /\ op[p] = None => txn[p].appends = <<>>
      /\ op[p] # None => w.ok /\ txn[p].appends = w.appends /\ txn[p].answer = w.answer

Excused(p) ==
  LET w == Work(committed, op[p])
  IN  \/ op[p] = None
      \/ txn[p].answer = StoreFailure
      \/ ~w.ok /\ Fits(committed, w.appends) /\ txn[p].answer = w.answer

WorkDone ==
  \A p \in Proc :
    /\ pc[p] \in {"worked", "stamped"} => Prepared(p)
    /\ pc[p] = "failing" => Excused(p)

IInv == Typed /\ OneTransaction /\ DigestCommitted /\ ReadsCommitted /\ WorkDone

(* What the callback of a call appends and answers is of the right type.    *)
LEMMA WorkTyped ==
  ASSUME NEW history \in Seq(Event), Len(history) <= Capacity, NEW o \in Op
  PROVE  Work(history, o).appends \in Seq(Event) /\ Work(history, o).answer \in Answers
<1>1. Len(history) \in 0..Capacity /\ history \in [1..Len(history) -> Event]
  BY StoreAssumption, LenProperties
<1>2. Work(history, o).appends \in Seq(Event) BY <1>1, StoreAssumption
<1>3. Work(history, o).answer \in Answers BY DEF Answers
<1>4. QED BY <1>2, <1>3

(* The invariant holds of a path at which no store has been created.        *)
LEMMA InitInv == Init => IInv
<1> SUFFICES ASSUME Init PROVE IInv OBVIOUS
<1>1. <<>> \in Seq(Event) /\ Len(<<>>) = 0 BY EmptySeq
<1>2. NoTxn \in Transaction BY <1>1 DEF NoTxn, Transaction, Answers
<1>3. Typed BY <1>1, <1>2, StoreAssumption DEF Init, Typed, InTransaction
<1>4. DigestCommitted BY DEF Init, DigestCommitted, Image
<1>5. QED
  BY <1>3, <1>4 DEF Init, IInv, OneTransaction, ReadsCommitted, WorkDone, InTransaction

(* Steps that leave the transactions, the lock and the file's content alone *)
(* except that p moves outside of any transaction.                          *)
LEMMA OutsideStep ==
  ASSUME IInv, NEW p \in Proc, pc[p] \notin InTransaction,
         NEW place \in {"closed", "creating", "called", "idle"}, Goto(p, place),
         NEW o \in Op \cup {None}, op' = [op EXCEPT ![p] = o],
         UNCHANGED <<db, lock, txn, committed>>
  PROVE  IInv'
<1> USE DEF IInv, Goto
<1>1. Typed' BY DEF Typed
<1>2. OneTransaction' BY DEF Typed, OneTransaction, InTransaction
<1>3. DigestCommitted' BY DEF DigestCommitted
<1>4. ReadsCommitted' BY DEF Typed, ReadsCommitted
<1>5. WorkDone'
  <2> SUFFICES ASSUME NEW q \in Proc, pc'[q] \in {"worked", "stamped", "failing"}
               PROVE  q # p /\ pc'[q] = pc[q] /\ op'[q] = op[q] /\ txn'[q] = txn[q] /\ committed' = committed
    BY DEF WorkDone, Prepared, Excused, Fits
  <2>1. QED BY DEF Typed
<1>6. QED BY <1>1, <1>2, <1>3, <1>4, <1>5

(* The process that leaves a transaction gives up the lock or, when ROLLBACK*)
(* fails, keeps it while idle.                                              *)
LEMMA LeavingStep ==
  ASSUME IInv, NEW p \in Proc,
         NEW place \in {"closed", "idle"}, Goto(p, place),
         txn' = [txn EXCEPT ![p] = NoTxn],
         lock' = lock \/ (lock' = None /\ \A q \in Proc \ {p} : pc[q] \notin InTransaction),
         UNCHANGED <<db, op, committed>>
  PROVE  IInv'
<1> USE DEF IInv, Goto
<1>0. NoTxn \in Transaction BY EmptySeq DEF NoTxn, Transaction, Answers
<1>1. Typed' BY <1>0 DEF Typed
<1>2. OneTransaction' BY DEF Typed, OneTransaction, InTransaction
<1>3. DigestCommitted' BY DEF DigestCommitted
<1>4. ReadsCommitted' BY DEF Typed, ReadsCommitted
<1>5. WorkDone'
  <2> SUFFICES ASSUME NEW q \in Proc, pc'[q] \in {"worked", "stamped", "failing"}
               PROVE  q # p /\ pc'[q] = pc[q] /\ op'[q] = op[q] /\ txn'[q] = txn[q] /\ committed' = committed
    BY DEF WorkDone, Prepared, Excused, Fits
  <2>1. QED BY DEF Typed
<1>6. QED BY <1>1, <1>2, <1>3, <1>4, <1>5

(* One process in a transaction excludes all others.                        *)
LEMMA Alone ==
  ASSUME IInv, NEW p \in Proc, lock = p
  PROVE  \A q \in Proc \ {p} : pc[q] \notin InTransaction
  BY DEF IInv, OneTransaction

(* A step from one statement of p's transaction to the next.                *)
LEMMA InsideStep ==
  ASSUME IInv, NEW p \in Proc, lock' = p,
         \A q \in Proc \ {p} : pc[q] \notin InTransaction,
         NEW place \in InTransaction, Goto(p, place),
         NEW t \in Transaction, txn' = [txn EXCEPT ![p] = t],
         place \in {"read", "worked", "stamped"} => t.history = committed,
         place \in {"worked", "stamped"} => Prepared(p)',
         place = "failing" => Excused(p)',
         UNCHANGED <<db, op, committed>>
  PROVE  IInv'
<1> USE DEF IInv, Goto
<1>1. Typed' BY DEF Typed
<1>2. OneTransaction' BY DEF Typed, OneTransaction
<1>3. DigestCommitted' BY DEF DigestCommitted
<1>4. \A q \in Proc : q # p => pc'[q] \notin InTransaction BY DEF Typed
<1>5. pc'[p] = place /\ txn'[p] = t BY DEF Typed
<1>6. ReadsCommitted' BY <1>4, <1>5 DEF ReadsCommitted, InTransaction
<1>7. WorkDone' BY <1>4, <1>5 DEF WorkDone, InTransaction
<1>8. QED BY <1>1, <1>2, <1>3, <1>6, <1>7

(* COMMIT makes what was prepared the end of the committed history.         *)
LEMMA CommitStep ==
  ASSUME IInv, NEW p \in Proc, Commit(p)
  PROVE  IInv'
<1> USE DEF IInv, Commit, Goto
<1>1. lock = p BY DEF OneTransaction, InTransaction
<1>2. \A q \in Proc \ {p} : pc[q] \notin InTransaction BY <1>1, Alone
<1>3. /\ txn[p].history = committed
      /\ txn[p].appends \in Seq(Event)
      /\ Fits(committed, txn[p].appends)
  BY DEF Typed, Transaction, ReadsCommitted, WorkDone, Prepared
<1>4. committed' \in Seq(Event) /\ Len(committed') <= Capacity
  BY <1>3, ConcatProperties DEF Typed, Fits
<1>5. Typed' BY <1>4 DEF Typed
<1>6. \A q \in Proc : pc'[q] \notin InTransaction BY <1>2 DEF Typed, InTransaction
<1>7. OneTransaction' /\ ReadsCommitted' /\ WorkDone'
  BY <1>6 DEF OneTransaction, ReadsCommitted, WorkDone, InTransaction
<1>8. DigestCommitted'
  <2>1. CASE txn[p].appends = <<>>
    BY <2>1, ConcatEmptySeq DEF Written, DigestCommitted, Typed
  <2>2. CASE txn[p].appends # <<>>
    BY <2>2, <1>3 DEF Written, DigestCommitted
  <2>3. QED BY <2>1, <2>2
<1>9. QED BY <1>5, <1>7, <1>8

(* Intact content chains to the digest of the metadata, so it is committed. *)
LEMMA IntactIsCommitted ==
  ASSUME IInv, Intact(db)
  PROVE  Events(db.rows) = committed
  BY DEF IInv, DigestCommitted, Intact

(* The statements before the commit.                                        *)
LEMMA ReadStep ==
  ASSUME IInv, NEW p \in Proc, ReadHistory(p)
  PROVE  IInv'
<1> USE DEF IInv, ReadHistory, file
<1>1. lock = p BY DEF OneTransaction, InTransaction
<1>2. \A q \in Proc \ {p} : pc[q] \notin InTransaction BY <1>1, Alone
<1>3. txn[p] \in Transaction /\ StoreFailure \in Answers BY DEF Typed, Answers
<1>4. CASE Intact(db) /\ Goto(p, "read") /\ txn' = [txn EXCEPT ![p].history = Events(db.rows)]
  <2> DEFINE t == [txn[p] EXCEPT !.history = Events(db.rows)]
  <2>1. t.history = committed /\ t \in Transaction
    BY <1>3, <1>4, IntactIsCommitted DEF Typed, Transaction
  <2>2. txn' = [txn EXCEPT ![p] = t] BY <1>4
  <2> HIDE DEF t
  <2>3. QED BY <1>1, <1>2, <1>4, <2>1, <2>2, InsideStep DEF InTransaction
<1>5. CASE Fails(p, StoreFailure)
  <2> DEFINE t == [txn[p] EXCEPT !.answer = StoreFailure]
  <2>1. t \in Transaction /\ t.answer = StoreFailure BY <1>3 DEF Transaction
  <2>2. txn' = [txn EXCEPT ![p] = t] /\ Goto(p, "failing") BY <1>5 DEF Fails
  <2> HIDE DEF t
  <2>3. Excused(p)' BY <2>1, <2>2 DEF Excused, Typed
  <2>4. QED BY <1>1, <1>2, <2>1, <2>2, <2>3, InsideStep DEF InTransaction
<1>6. QED BY <1>4, <1>5

(* A transaction that fails, with the store's answer or with its callback's.*)
LEMMA FailingStep ==
  ASSUME IInv, NEW p \in Proc, pc[p] \in InTransaction,
         NEW answer \in Answers, Fails(p, answer),
         LET w == Work(committed, op[p])
         IN  \/ op[p] = None
             \/ answer = StoreFailure
             \/ ~w.ok /\ Fits(committed, w.appends) /\ answer = w.answer,
         UNCHANGED <<db, lock, op, committed>>
  PROVE  IInv'
<1> DEFINE t == [txn[p] EXCEPT !.answer = answer]
<1>1. lock' = p BY DEF IInv, OneTransaction
<1>2. \A q \in Proc \ {p} : pc[q] \notin InTransaction BY <1>1, Alone
<1>3. t \in Transaction /\ t.answer = answer BY DEF IInv, Typed, Transaction
<1>4. txn' = [txn EXCEPT ![p] = t] /\ Goto(p, "failing") BY DEF Fails
<1> HIDE DEF t
<1>5. Excused(p)' BY <1>3, <1>4 DEF Excused, IInv, Typed, Fits
<1>6. QED BY <1>1, <1>2, <1>3, <1>4, <1>5, InsideStep DEF InTransaction

(* The callback decides on the committed history.                           *)
LEMMA WorkStep ==
  ASSUME IInv, NEW p \in Proc, RunWork(p)
  PROVE  IInv'
<1> DEFINE w == IF op[p] = None
                THEN [appends |-> <<>>, ok |-> TRUE, answer |-> NoAnswer]
                ELSE Work(committed, op[p])
<1>1. pc[p] = "read" /\ txn[p].history = committed /\ lock = p
  BY DEF RunWork, IInv, ReadsCommitted, OneTransaction, InTransaction
<1>2. op[p] \in Op \cup {None} /\ txn[p] \in Transaction BY DEF IInv, Typed
<1>3. w.appends \in Seq(Event) /\ w.answer \in Answers
  BY <1>2, WorkTyped, EmptySeq DEF IInv, Typed, Answers
<1>4. UNCHANGED <<db, lock, op, committed>> BY DEF RunWork, file
<1>5. \/ Fails(p, StoreFailure)
      \/ Fits(committed, w.appends) /\ ~w.ok /\ Fails(p, w.answer)
      \/ /\ Fits(committed, w.appends) /\ w.ok
         /\ Goto(p, "worked")
         /\ txn' = [txn EXCEPT ![p] = [history |-> txn[p].history, appends |-> w.appends,
                                   answer |-> w.answer]]
  BY <1>1 DEF RunWork
<1>6. CASE Fails(p, StoreFailure)
  BY <1>1, <1>4, <1>6, FailingStep DEF InTransaction, Answers
<1>7. CASE Fits(committed, w.appends) /\ ~w.ok /\ Fails(p, w.answer)
  <2>1. op[p] # None /\ w = Work(committed, op[p]) BY <1>7
  <2>2. QED BY <1>1, <1>3, <1>4, <1>7, <2>1, FailingStep DEF InTransaction
<1>8. CASE /\ Fits(committed, w.appends) /\ w.ok
           /\ Goto(p, "worked")
           /\ txn' = [txn EXCEPT ![p] = [history |-> txn[p].history, appends |-> w.appends,
                                   answer |-> w.answer]]
  <2> DEFINE t == [history |-> committed, appends |-> w.appends, answer |-> w.answer]
  <2>1. t \in Transaction BY <1>3 DEF Transaction, IInv, Typed
  <2>2. txn' = [txn EXCEPT ![p] = t] BY <1>1, <1>2, <1>8 DEF Transaction, IInv, Typed
  <2>3. Prepared(p)' BY <1>2, <1>4, <1>8, <2>2 DEF Prepared, IInv, Typed, Fits
  <2>4. \A q \in Proc \ {p} : pc[q] \notin InTransaction BY <1>1, Alone
  <2>5. QED BY <1>1, <1>4, <1>8, <2>1, <2>2, <2>3, <2>4, InsideStep DEF InTransaction
<1>9. QED BY <1>5, <1>6, <1>7, <1>8

(* Every step preserves the invariant.                                      *)
LEMMA NextInv == IInv /\ [Next]_vars => IInv'
<1> SUFFICES ASSUME IInv, [Next]_vars PROVE IInv' OBVIOUS
<1>1. CASE UNCHANGED vars
  BY <1>1 DEF vars, IInv, Typed, OneTransaction, DigestCommitted, ReadsCommitted, WorkDone, Prepared, Excused, Fits
<1>2. ASSUME NEW p \in Proc, Create(p) PROVE IInv'
  <2>1. op' = [op EXCEPT ![p] = op[p]] BY <1>2 DEF Create, IInv, Typed
  <2>2. QED BY <1>2, <2>1, OutsideStep DEF Create, InTransaction, IInv, Typed
<1>3. ASSUME NEW p \in Proc, Initialize(p) PROVE IInv'
  BY <1>3, OutsideStep DEF Initialize, InTransaction
<1>4. ASSUME NEW p \in Proc, Open(p) PROVE IInv'
  BY <1>4, OutsideStep DEF Open, InTransaction, file
<1>5. ASSUME NEW p \in Proc, NEW o \in Op, Call(p, o) PROVE IInv'
  BY <1>5, OutsideStep DEF Call, InTransaction, file
<1>6. ASSUME NEW p \in Proc, Begin(p) PROVE IInv'
  <2>1. \A q \in Proc : pc[q] \notin InTransaction
    BY <1>6, StoreAssumption DEF Begin, IInv, OneTransaction
  <2>2. txn' = [txn EXCEPT ![p] = txn[p]] /\ txn[p] \in Transaction
    BY <1>6 DEF Begin, IInv, Typed
  <2>3. QED BY <1>6, <2>1, <2>2, InsideStep DEF Begin, InTransaction, file
<1>7. ASSUME NEW p \in Proc, BeginRefused(p) PROVE IInv'
  BY <1>7, LeavingStep DEF BeginRefused, Answered, file
<1>8. ASSUME NEW p \in Proc, ReadHistory(p) PROVE IInv' BY <1>8, ReadStep
<1>9. ASSUME NEW p \in Proc, RunWork(p) PROVE IInv' BY <1>9, WorkStep
<1>10. ASSUME NEW p \in Proc, Stamp(p) PROVE IInv'
  <2>1. pc[p] = "worked" /\ lock = p /\ UNCHANGED <<db, lock, op, committed>>
    BY <1>10 DEF Stamp, IInv, OneTransaction, InTransaction, file
  <2>2. CASE Goto(p, "stamped") /\ UNCHANGED txn
    <3>1. txn' = [txn EXCEPT ![p] = txn[p]] /\ txn[p] \in Transaction BY <2>2 DEF IInv, Typed
    <3>2. txn[p].history = committed BY <2>1 DEF IInv, ReadsCommitted
    <3>3. Prepared(p)' BY <2>1, <2>2 DEF IInv, WorkDone, Prepared, Fits
    <3>4. \A q \in Proc \ {p} : pc[q] \notin InTransaction BY <2>1, Alone
    <3>5. QED BY <2>1, <2>2, <3>1, <3>2, <3>3, <3>4, InsideStep DEF InTransaction
  <2>3. CASE Fails(p, StoreFailure)
    BY <2>1, <2>3, FailingStep DEF InTransaction, Answers
  <2>4. QED BY <1>10, <2>2, <2>3 DEF Stamp
<1>11. ASSUME NEW p \in Proc, Commit(p) PROVE IInv' BY <1>11, CommitStep
<1>12. ASSUME NEW p \in Proc, StatementFails(p) PROVE IInv'
  BY <1>12, FailingStep DEF StatementFails, InTransaction, Answers, file
<1>13. ASSUME NEW p \in Proc, Rollback(p) PROVE IInv'
  <2>1. \A q \in Proc \ {p} : pc[q] \notin InTransaction
    BY <1>13, Alone DEF Rollback, IInv, OneTransaction, InTransaction
  <2>2. QED BY <1>13, <2>1, LeavingStep DEF Rollback, Answered, file
<1>14. ASSUME NEW p \in Proc, RollbackFails(p) PROVE IInv'
  BY <1>14, LeavingStep DEF RollbackFails, Answered, file
<1>15. ASSUME NEW p \in Proc, Return(p) PROVE IInv'
  BY <1>15, LeavingStep DEF Return, file
<1>16. ASSUME NEW p \in Proc, Disconnect(p) PROVE IInv'
  <2>1. lock = p => \A q \in Proc \ {p} : pc[q] \notin InTransaction BY Alone
  <2>2. QED BY <1>16, <2>1, LeavingStep DEF Disconnect, file
<1>17. CASE Replace
  BY <1>17 DEF Replace, IInv, Typed, OneTransaction, DigestCommitted, ReadsCommitted, WorkDone, Prepared, Excused, Fits
<1>18. CASE Damage
  BY <1>18 DEF Damage, Image, IInv, Typed, OneTransaction, DigestCommitted, ReadsCommitted, WorkDone, Prepared, Excused, Fits
<1>19. QED
  BY <1>1, <1>2, <1>3, <1>4, <1>5, <1>6, <1>7, <1>8, <1>9, <1>10, <1>11, <1>12, <1>13,
     <1>14, <1>15, <1>16, <1>17, <1>18
  DEF Next, Progress, Close, Crash

(* The inductive invariant holds throughout.                                *)
THEOREM Invariance == Spec => []IInv
<1>1. Init => IInv BY InitInv
<1>2. IInv /\ [Next]_vars => IInv' BY NextInv
<1>3. QED BY <1>1, <1>2, PTL DEF Spec

(* SqlitePolicyHistoryStore.transaction: at most one connection is between  *)
(* BEGIN IMMEDIATE and the end of its transaction, and it holds the lock.   *)
THEOREM TransactionsExclude == Spec => []OneTransaction
<1>1. IInv => OneTransaction BY DEF IInv
<1>2. QED BY <1>1, Invariance, PTL

(* SqlitePolicyHistoryStore.transaction: what passes the checks on the file *)
(* is the committed history, and remains so until the transaction ends.     *)
THEOREM DecisionsUseCommitted == Spec => []ReadsCommitted
<1>1. IInv => ReadsCommitted BY DEF IInv
<1>2. QED BY <1>1, Invariance, PTL

(* A call is answered by its callback, or the store fails it.               *)
LEMMA AnsweredStep ==
  ASSUME IInv, NEW p \in Proc, NEW answer, Answered(p, answer),
         answer = StoreFailure \/ (op[p] \in Op => Excused(p) /\ answer = txn[p].answer),
         UNCHANGED committed
  PROVE  Atomic!Next \/ UNCHANGED <<committed, last>>
<1>1. op[p] \in Op \cup {None} BY DEF IInv, Typed
<1>2. CASE op[p] = None BY <1>2 DEF Answered
<1>3. CASE op[p] # None /\ answer = StoreFailure
  BY <1>3 DEF Answered, Atomic!Next, Atomic!Fail
<1>4. CASE op[p] \in Op /\ op[p] # None /\ answer = txn[p].answer /\ Excused(p)
  <2>1. last' = answer BY <1>4 DEF Answered
  <2>2. CASE txn[p].answer = StoreFailure
    BY <1>4, <2>1, <2>2 DEF Atomic!Next, Atomic!Fail
  <2>3. CASE LET w == Work(committed, op[p])
             IN  ~w.ok /\ Fits(committed, w.appends) /\ txn[p].answer = w.answer
    BY <1>4, <2>1, <2>3 DEF Atomic!Next, Atomic!Refuse, Fits
  <2>4. QED BY <1>4, <2>2, <2>3 DEF Excused
<1>5. QED BY <1>1, <1>2, <1>3, <1>4

(* COMMIT is the moment at which a call takes effect.                       *)
LEMMA CommitPerforms ==
  ASSUME IInv, NEW p \in Proc, Commit(p)
  PROVE  Atomic!Next \/ UNCHANGED <<committed, last>>
<1>1. Prepared(p) /\ op[p] \in Op \cup {None} /\ committed \in Seq(Event)
  BY DEF Commit, IInv, WorkDone, Typed
<1>2. CASE op[p] = None
  <2>1. committed' = committed BY <1>1, <1>2, ConcatEmptySeq DEF Commit, Prepared
  <2>2. QED BY <1>2, <2>1 DEF Commit
<1>3. CASE op[p] \in Op /\ op[p] # None
  <2>1. Atomic!Perform(op[p]) BY <1>1, <1>3 DEF Commit, Prepared, Fits, Atomic!Perform
  <2>2. QED BY <1>3, <2>1 DEF Atomic!Next
<1>4. QED BY <1>1, <1>2, <1>3

(* Every step of the store is a step of the atomic history, or none.        *)
LEMMA StepIsAtomic ==
  ASSUME IInv, [Next]_vars
  PROVE  Atomic!Next \/ UNCHANGED <<committed, last>>
<1>1. CASE UNCHANGED vars BY <1>1 DEF vars
<1>2. ASSUME NEW p \in Proc,
             \/ Create(p) \/ Initialize(p) \/ Open(p) \/ Begin(p) \/ ReadHistory(p) \/ RunWork(p)
             \/ Stamp(p) \/ StatementFails(p) \/ Return(p) \/ Disconnect(p)
      PROVE  UNCHANGED <<committed, last>>
  BY <1>2 DEF Create, Initialize, Open, Begin, ReadHistory, RunWork, Stamp, StatementFails,
              Return, Disconnect, file
<1>3. ASSUME NEW p \in Proc, NEW o \in Op, Call(p, o) PROVE UNCHANGED <<committed, last>>
  BY <1>3 DEF Call, file
<1>4. ASSUME NEW p \in Proc, BeginRefused(p)
      PROVE  Atomic!Next \/ UNCHANGED <<committed, last>>
  BY <1>4, AnsweredStep DEF BeginRefused, file
<1>5. ASSUME NEW p \in Proc, Rollback(p) \/ RollbackFails(p)
      PROVE  Atomic!Next \/ UNCHANGED <<committed, last>>
  <2>1. Excused(p) BY <1>5 DEF Rollback, RollbackFails, IInv, WorkDone
  <2>2. QED BY <1>5, <2>1, AnsweredStep DEF Rollback, RollbackFails, file
<1>6. ASSUME NEW p \in Proc, Commit(p)
      PROVE  Atomic!Next \/ UNCHANGED <<committed, last>>
  BY <1>6, CommitPerforms
<1>7. CASE Replace \/ Damage BY <1>7 DEF Replace, Damage
<1>8. QED
  BY <1>1, <1>2, <1>3, <1>4, <1>5, <1>6, <1>7 DEF Next, Progress, Close, Crash

(* interface PolicyHistoryStore: for any number of processes, whatever      *)
(* crashes, fails, is replaced or damaged, calls take effect one at a time  *)
(* and entirely or not at all.                                              *)
THEOREM CallsAreAtomic == Spec => AtomicSpec
<1>1. Init => Atomic!Init BY DEF Init, Atomic!Init
<1>2. IInv /\ [Next]_vars => [Atomic!Next]_<<committed, last>> BY StepIsAtomic
<1>3. QED BY <1>1, <1>2, Invariance, PTL DEF Spec, AtomicSpec, Atomic!Spec

(* #assertFile: the last comparison stands between a replaced file and its  *)
(* commit.                                                                  *)
LEMMA StrayedStep == IInv /\ StrayedAway /\ [Next]_vars => StrayedAway'
<1> SUFFICES ASSUME IInv, StrayedAway, [Next]_vars PROVE StrayedAway' OBVIOUS
<1> USE DEF StrayedAway, Goto, IInv, Typed, BeforeComparison
<1>1. CASE UNCHANGED vars BY <1>1 DEF vars
<1>2. ASSUME NEW p \in Proc,
             \/ Create(p) \/ Initialize(p) \/ Open(p) \/ Begin(p) \/ RunWork(p) \/ Stamp(p)
             \/ StatementFails(p) \/ Return(p) \/ Disconnect(p) \/ Commit(p)
      PROVE  StrayedAway'
  BY <1>2 DEF Create, Initialize, Open, Begin, RunWork, Stamp, StatementFails, Return,
              Disconnect, Commit, Fails, SameFile, file
<1>3. ASSUME NEW p \in Proc, NEW o \in Op, Call(p, o) PROVE StrayedAway'
  BY <1>3 DEF Call, file
<1>4. ASSUME NEW p \in Proc, BeginRefused(p) \/ Rollback(p) \/ RollbackFails(p)
      PROVE  StrayedAway'
  BY <1>4 DEF BeginRefused, Rollback, RollbackFails, Answered, file
<1>5. ASSUME NEW p \in Proc, ReadHistory(p) PROVE StrayedAway'
  BY <1>5 DEF ReadHistory, Fails, file
<1>6. CASE Replace BY <1>6 DEF Replace
<1>7. CASE Damage BY <1>7 DEF Damage
<1>8. QED
  BY <1>1, <1>2, <1>3, <1>4, <1>5, <1>6, <1>7 DEF Next, Progress, Close, Crash

(* SqlitePolicyHistoryStore.transaction: a store that is replaced at its    *)
(* path at any time between BEGIN and the last comparison, and not put      *)
(* back, yields no committed answer.                                        *)
THEOREM ReplacedStoresNeverCommit == Spec => []ReplacedNeverCommits
<1>1. Init => StrayedAway BY DEF Init, StrayedAway, BeforeComparison
<1>2. IInv /\ StrayedAway /\ [Next]_vars => StrayedAway' BY StrayedStep
<1>3. StrayedAway => ReplacedNeverCommits BY DEF StrayedAway, ReplacedNeverCommits
<1>4. QED BY <1>1, <1>2, <1>3, Invariance, PTL DEF Spec
-----------------------------------------------------------------------------
(* The content of the file is a table of rows, damaged or not.              *)
StoredRow == [sequence : Int, event : Event, digest : Seq(Event)]

TableTyped == db \in [rows : Seq(StoredRow), tail : Int, digest : Seq(Event)]

(* The events of a table.                                                   *)
LEMMA EventsOf ==
  ASSUME NEW rows \in Seq(StoredRow)
  PROVE  /\ Events(rows) \in Seq(Event)
         /\ Len(Events(rows)) = Len(rows)
         /\ \A i \in 1..Len(rows) : Events(rows)[i] = rows[i].event
<1>1. Len(rows) \in Nat /\ \A i \in 1..Len(rows) : rows[i] \in StoredRow OBVIOUS
<1>2. \A i \in 1..Len(rows) : rows[i].event \in Event
  <2>1. \A row \in StoredRow : row.event \in Event BY DEF StoredRow
  <2>2. QED BY <1>1, <2>1
<1>3. Events(rows) = [i \in 1..Len(rows) |-> rows[i].event] BY DEF Events
<1>4. \A i \in 1..Len(rows) : Events(rows)[i] = rows[i].event BY <1>3
<1>5. Events(rows) \in [1..Len(rows) -> Event] BY <1>2, <1>3
<1>6. Events(rows) \in Seq(Event) /\ Len(Events(rows)) = Len(rows) BY <1>1, <1>3, <1>5
<1>7. QED BY <1>4, <1>6

(* A row of a history.                                                      *)
LEMMA RowTyped ==
  ASSUME NEW history \in Seq(Event), NEW i \in 1..Len(history)
  PROVE  /\ Row(i, history) \in StoredRow
         /\ Row(i, history).sequence = i
         /\ Row(i, history).event = history[i]
         /\ Row(i, history).digest = SubSeq(history, 1, i)
<1>1. Len(history) \in Nat OBVIOUS
<1>2. \A j \in 1..i : history[j] \in Event BY <1>1
<1>3. SubSeq(history, 1, i) \in Seq(Event) BY <1>2, SubSeqProperties
<1>4. history[i] \in Event BY <1>1
<1>5. QED BY <1>3, <1>4 DEF Row, StoredRow

(* Damage leaves a table.                                                   *)
LEMMA DamagedTyped ==
  ASSUME TableTyped, NEW rows \in DamagedRows
  PROVE  rows \in Seq(StoredRow)
<1>1. db.rows \in Seq(StoredRow) /\ Len(db.rows) \in Nat BY DEF TableTyped
<1>2. CASE \E n \in 0..Len(db.rows) : rows = SubSeq(db.rows, 1, n)
  <2>1. PICK n \in 0..Len(db.rows) : rows = SubSeq(db.rows, 1, n) BY <1>2
  <2>2. n \in Int /\ \A i \in 1..n : db.rows[i] \in StoredRow BY <1>1
  <2>3. QED BY <2>1, <2>2, SubSeqProperties
<1>3. CASE \E n \in 1..Len(db.rows) : rows = SubSeq(db.rows, n, Len(db.rows))
  <2>1. PICK n \in 1..Len(db.rows) : rows = SubSeq(db.rows, n, Len(db.rows)) BY <1>3
  <2>2. n \in Int /\ \A i \in n..Len(db.rows) : db.rows[i] \in StoredRow BY <1>1
  <2>3. QED BY <1>1, <2>1, <2>2, SubSeqProperties
<1>4. CASE \E i \in 1..Len(db.rows), e \in Event : rows = [db.rows EXCEPT ![i].event = e]
  <2>1. PICK i \in 1..Len(db.rows), e \in Event : rows = [db.rows EXCEPT ![i].event = e] BY <1>4
  <2>2. db.rows[i] \in StoredRow BY <1>1
  <2>3. [db.rows[i] EXCEPT !.event = e] \in StoredRow BY <2>2 DEF StoredRow
  <2>4. rows = [db.rows EXCEPT ![i] = [db.rows[i] EXCEPT !.event = e]] BY <2>1
  <2>5. QED BY <1>1, <2>3, <2>4, ExceptSeq
<1>5. QED BY <1>2, <1>3, <1>4 DEF DamagedRows

(* What a transaction writes into an intact store is intact again, and what *)
(* it writes at all is a table.                                             *)
LEMMA WrittenIntact ==
  ASSUME TableTyped, IInv, NEW p \in Proc, pc[p] = "stamped"
  PROVE  /\ Written(p) \in [rows : Seq(StoredRow), tail : Int, digest : Seq(Event)]
         /\ Intact(db) => Intact(Written(p))
<1> DEFINE t     == txn[p]
           chain == t.history \o t.appends
           H     == Len(t.history)
           A     == Len(t.appends)
           new   == [i \in 1..A |-> Row(H + i, chain)]
           rows  == db.rows \o new
<1>1. /\ t \in Transaction /\ t.history = committed
      /\ t.history \in Seq(Event) /\ t.appends \in Seq(Event)
  BY DEF IInv, Typed, ReadsCommitted, Transaction
<1>2. H \in Nat /\ A \in Nat BY <1>1
<1>3. chain \in Seq(Event) /\ Len(chain) = H + A
      /\ \A i \in 1..H : chain[i] = t.history[i]
  <2> HIDE DEF t
  <2>1. QED BY <1>1, ConcatProperties
<1>4. db.rows \in Seq(StoredRow) /\ db.tail \in Int /\ db.digest \in Seq(Event) /\ Len(db.rows) \in Nat
  BY DEF TableTyped
<1> HIDE DEF t, chain, H, A
<1>5. \A i \in 1..A : H + i \in 1..Len(chain) BY <1>2, <1>3
<1>6. \A i \in 1..A : /\ new[i] \in StoredRow /\ new[i].sequence = H + i
                      /\ new[i].event = chain[H + i]
                      /\ new[i].digest = SubSeq(chain, 1, H + i)
  BY <1>3, <1>5, RowTyped
<1>7. new \in Seq(StoredRow) /\ Len(new) = A BY <1>2, <1>6
<1> HIDE DEF new
<1>8. /\ rows \in Seq(StoredRow) /\ Len(rows) = Len(db.rows) + A
      /\ \A i \in 1..(Len(db.rows) + A) :
           rows[i] = IF i <= Len(db.rows) THEN db.rows[i] ELSE new[i - Len(db.rows)]
  BY <1>4, <1>7, ConcatProperties
<1> HIDE DEF rows
<1>9. CASE t.appends = <<>>
  <2>1. Written(p) = db BY <1>9 DEF Written, t
  <2>2. QED BY <2>1 DEF TableTyped
<1>10. CASE t.appends # <<>>
  <2>1. Written(p) = [rows |-> rows, tail |-> Len(chain), digest |-> chain]
    BY <1>10 DEF Written, t, chain, rows, new, H, A
  <2>2. Written(p).rows = rows /\ Written(p).tail = Len(chain) /\ Written(p).digest = chain
    BY <2>1
  <2>3. Written(p) \in [rows : Seq(StoredRow), tail : Int, digest : Seq(Event)]
    BY <1>2, <1>3, <1>8, <2>1
  <2>4. ASSUME Intact(db) PROVE Intact(Written(p))
    <3>1. /\ \A i \in 1..Len(db.rows) :
               /\ db.rows[i].sequence = i
               /\ db.rows[i].digest = SubSeq(Events(db.rows), 1, i)
          /\ Events(db.rows) = db.digest
      BY <2>4 DEF Intact
    <3>2. Events(db.rows) = t.history BY <1>1, <3>1 DEF IInv, DigestCommitted
    <3>3. /\ Len(db.rows) = H
          /\ \A i \in 1..H : t.history[i] = db.rows[i].event
      BY <1>4, <3>2, EventsOf DEF H
    <3>4. \A i \in 1..H : SubSeq(chain, 1, i) = SubSeq(t.history, 1, i)
      <4>1. QED BY <1>1, SubSeqOfConcat1 DEF chain, H
    <3>5. ASSUME NEW i \in 1..Len(rows)
          PROVE  /\ rows[i].sequence = i
                 /\ rows[i].event = chain[i]
                 /\ rows[i].digest = SubSeq(chain, 1, i)
      <4>1. CASE i <= H
        <5>1. i \in 1..H /\ rows[i] = db.rows[i] BY <1>2, <1>8, <3>3, <4>1
        <5>2. QED BY <1>3, <3>1, <3>2, <3>3, <3>4, <5>1
      <4>2. CASE ~(i <= H)
        <5>1. i - H \in 1..A /\ H + (i - H) = i /\ rows[i] = new[i - H]
          BY <1>2, <1>8, <3>3, <4>2
        <5>2. QED BY <1>6, <5>1
      <4>3. QED BY <4>1, <4>2
    <3>6. Len(rows) = Len(chain) BY <1>3, <1>8, <3>3
    <3>7. Events(rows) = chain
      <4>1. /\ Events(rows) \in Seq(Event) /\ Len(Events(rows)) = Len(chain)
            /\ \A i \in 1..Len(chain) : Events(rows)[i] = chain[i]
        BY <1>8, <3>5, <3>6, EventsOf
      <4>2. QED BY <1>3, <4>1, SeqEqual
    <3>8. QED BY <2>2, <3>5, <3>6, <3>7 DEF Intact
  <2>5. QED BY <2>3, <2>4
<1>11. QED BY <1>9, <1>10

(* A step that is not a commit or damage leaves the file's content alone.   *)
LEMMA ContentStep ==
  ASSUME [Next]_vars
  PROVE  \/ db' = db
         \/ Damage
         \/ \E p \in Proc : pc[p] = "stamped" /\ db' = Written(p)
<1>1. CASE UNCHANGED vars BY <1>1 DEF vars
<1>2. ASSUME NEW p \in Proc,
             \/ Create(p) \/ Initialize(p) \/ Open(p) \/ Begin(p) \/ BeginRefused(p)
             \/ ReadHistory(p) \/ RunWork(p) \/ Stamp(p) \/ StatementFails(p) \/ Rollback(p)
             \/ RollbackFails(p) \/ Return(p) \/ Disconnect(p)
      PROVE  db' = db
  BY <1>2 DEF Create, Initialize, Open, Begin, BeginRefused, ReadHistory, RunWork, Stamp,
              StatementFails, Rollback, RollbackFails, Return, Disconnect, file
<1>3. ASSUME NEW p \in Proc, NEW o \in Op, Call(p, o) PROVE db' = db
  BY <1>3 DEF Call, file
<1>4. ASSUME NEW p \in Proc, Commit(p) PROVE pc[p] = "stamped" /\ db' = Written(p)
  BY <1>4 DEF Commit
<1>5. CASE Replace BY <1>5 DEF Replace
<1>6. QED
  BY <1>1, <1>2, <1>3, <1>4, <1>5 DEF Next, Progress, Close, Crash

(* The content stays a table.                                               *)
LEMMA TableStep == IInv /\ TableTyped /\ [Next]_vars => TableTyped'
<1> SUFFICES ASSUME IInv, TableTyped, [Next]_vars PROVE TableTyped' OBVIOUS
<1>1. CASE db' = db BY <1>1 DEF TableTyped
<1>2. CASE Damage
  <2>1. PICK rows \in DamagedRows, tail \in {db.tail, Len(db.rows) + 1} :
          db' = [db EXCEPT !.rows = rows, !.tail = tail]
    BY <1>2 DEF Damage
  <2>2. rows \in Seq(StoredRow) BY DamagedTyped
  <2>3. tail \in Int BY <2>1 DEF TableTyped
  <2>4. QED BY <2>1, <2>2, <2>3 DEF TableTyped
<1>3. CASE \E p \in Proc : pc[p] = "stamped" /\ db' = Written(p)
  BY <1>3, WrittenIntact DEF TableTyped
<1>4. QED BY <1>1, <1>2, <1>3, ContentStep

(* SqlitePolicyHistoryStore.transaction: rows, tail and digest change       *)
(* together, so that what the store itself does to a readable file leaves a *)
(* readable file.                                                           *)
THEOREM StoreNeverCorrupts == Spec => OnlyDamageCorrupts
<1>1. Init => TableTyped
  <2>1. <<>> \in Seq(Event) /\ Len(<<>>) = 0 BY EmptySeq
  <2>2. ASSUME Init PROVE TableTyped
    <3>1. db = Image(<<>>) BY <2>2 DEF Init
    <3>2. Image(<<>>).rows = <<>> /\ Image(<<>>) = [rows |-> <<>>, tail |-> 0, digest |-> <<>>]
      BY <2>1 DEF Image
    <3>3. <<>> \in Seq(StoredRow) BY EmptySeq
    <3>4. db = [rows |-> <<>>, tail |-> 0, digest |-> <<>>] BY <3>1, <3>2
    <3> DEFINE empty == <<>>
    <3>5. empty \in Seq(StoredRow) /\ empty \in Seq(Event)
          /\ db = [rows |-> empty, tail |-> 0, digest |-> empty]
      BY <2>1, <3>3, <3>4
    <3> HIDE DEF empty
    <3>6. QED BY <3>5 DEF TableTyped
  <2>3. QED BY <2>2
<1>2. IInv /\ TableTyped /\ [Next]_vars => TableTyped' BY TableStep
<1>3. IInv /\ TableTyped /\ [Next]_vars => [Intact(db) => Intact(db') \/ Damage]_vars
  BY ContentStep, WrittenIntact
<1>4. QED BY <1>1, <1>2, <1>3, Invariance, PTL DEF Spec, OnlyDamageCorrupts
=============================================================================
