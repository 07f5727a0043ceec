---------------------------- MODULE HistoryStore ----------------------------
(***************************************************************************)
(* scripts/review-policy/history-store.ts (class SqlitePolicyHistoryStore):*)
(* processes that each hold a connection to one SQLite file.  A call is    *)
(* the sequence of its statements; between any two of them the other       *)
(* processes run, the process may die, the file may be replaced at its     *)
(* path, and outside transactions its content may be damaged.              *)
(*                                                                         *)
(* SQLite itself is external: BEGIN IMMEDIATE takes the one write lock or  *)
(* fails at once (busy_timeout=0), COMMIT makes all statements of the      *)
(* transaction durable, and a transaction that dies is rolled back.        *)
(*                                                                         *)
(* The chained digest of a prefix of the history is collision free, so the *)
(* sequence of the prefix's events stands for it and the seed is <<>>.     *)
(***************************************************************************)
EXTENDS Integers, Sequences

CONSTANTS
  Proc,          \* processes
  Event,         \* history events
  Op,            \* what callers may ask for
  Work(_, _),    \* Work(history, op) = [appends, ok, answer]: the callback
  Capacity,      \* events the store holds at most (10000 in the code)
  StoreFailure,  \* the answer to a call that the store fails
  NoAnswer,      \* before any call has been answered
  None           \* no process, no operation

ASSUME StoreAssumption ==
  /\ Capacity \in Nat
  /\ None \notin Proc
  /\ None \notin Op
  /\ \A n \in 0..Capacity : \A history \in [1..n -> Event], o \in Op :
       Work(history, o).appends \in Seq(Event)

VARIABLES
  stage,      \* the file: "absent", "empty" (created, no tables) or "ready"
  atPath,     \* whether the path still leads to this file
  db,         \* its content: the rows of events, and the metadata tail, digest
  lock,       \* the connection that holds the write lock, or None
  pc,         \* where each process is
  op,         \* what it is doing; None is the constructor's own transaction
  txn,        \* the history it read, the events it appends, its answer
  strayed,    \* history variable: since before its last comparison, the path leads elsewhere
  committed,  \* history variable: the events committed so far
  last        \* history variable: the last answer decided

vars == <<stage, atPath, db, lock, pc, op, txn, strayed, committed, last>>

file == <<stage, atPath, db, committed>>

InTransaction == {"begun", "read", "worked", "stamped", "failing"}

BeforeComparison == {"begun", "read", "worked"}

NoTxn == [history |-> <<>>, appends |-> <<>>, answer |-> NoAnswer]

Row(sequence, history) ==
  [sequence |-> sequence, event |-> history[sequence], digest |-> SubSeq(history, 1, sequence)]

(* The content of a store that holds a history.                             *)
Image(history) ==
  [rows   |-> [i \in 1..Len(history) |-> Row(i, history)],
   tail   |-> Len(history),
   digest |-> history]

Events(rows) == [i \in 1..Len(rows) |-> rows[i].event]

Init ==
  /\ stage = "absent"
  /\ atPath = TRUE
  /\ db = Image(<<>>)
  /\ lock = None
  /\ pc = [p \in Proc |-> "closed"]
  /\ op = [p \in Proc |-> None]
  /\ txn = [p \in Proc |-> NoTxn]
  /\ strayed = [p \in Proc |-> FALSE]
  /\ committed = <<>>
  /\ last = NoAnswer

Goto(p, place) == pc' = [pc EXCEPT ![p] = place]

(* #assertFile                                                              *)
SameFile == atPath

(* create: a new file, which must not exist.                                *)
Create(p) ==
  /\ pc[p] = "closed"
  /\ stage = "absent"
  /\ atPath
  /\ stage' = "empty"
  /\ Goto(p, "creating")
  /\ UNCHANGED <<atPath, db, lock, op, txn, strayed, committed, last>>

(* Its tables and metadata, in one transaction, then the check every open   *)
(* makes. A connection that holds the lock makes it fail, and the empty     *)
(* file stays.                                                              *)
Initialize(p) ==
  /\ pc[p] = "creating"
  /\ \/ /\ SameFile /\ lock = None
        /\ stage' = "ready"
        /\ Goto(p, "called")
     \/ /\ ~SameFile \/ lock # None
        /\ Goto(p, "closed")
        /\ UNCHANGED stage
  /\ op' = [op EXCEPT ![p] = None]
  /\ UNCHANGED <<atPath, db, lock, txn, strayed, committed, last>>

(* open: an existing file, checked by a transaction that does nothing.      *)
Open(p) ==
  /\ pc[p] = "closed"
  /\ stage # "absent"
  /\ atPath
  /\ Goto(p, "called")
  /\ op' = [op EXCEPT ![p] = None]
  /\ UNCHANGED <<file, lock, txn, strayed, last>>

Call(p, o) ==
  /\ pc[p] = "idle"
  /\ Goto(p, "called")
  /\ op' = [op EXCEPT ![p] = o]
  /\ UNCHANGED <<file, lock, txn, strayed, last>>

(* A failed constructor closes the connection; a failed call answers.       *)
Answered(p, answer) ==
  /\ Goto(p, IF op[p] = None THEN "closed" ELSE "idle")
  /\ last' = IF op[p] = None THEN last ELSE answer
  /\ txn' = [txn EXCEPT ![p] = NoTxn]

(* Mutant of Begin: the lock is left to the first write (BEGIN DEFERRED).   *)
BeginDeferred(p) ==
  /\ pc[p] = "called"
  /\ SameFile
  /\ Goto(p, "begun")
  /\ strayed' = [strayed EXCEPT ![p] = ~atPath]
  /\ UNCHANGED <<file, lock, op, txn, last>>

Begin(p) ==
  /\ pc[p] = "called"
  /\ SameFile
  /\ lock = None
  /\ lock' = p
  /\ Goto(p, "begun")
  /\ strayed' = [strayed EXCEPT ![p] = ~atPath]
  /\ UNCHANGED <<file, op, txn, last>>

(* Mutant of BeginRefused: the call waits for the lock.                     *)
BeginRefusedWaits(p) ==
  /\ pc[p] = "called"
  /\ ~SameFile
  /\ Answered(p, StoreFailure)
  /\ UNCHANGED <<file, lock, op, strayed>>

(* BEGIN IMMEDIATE fails at once while any connection holds the lock, this  *)
(* one included.                                                            *)
BeginRefused(p) ==
  /\ pc[p] = "called"
  /\ ~SameFile \/ lock # None
  /\ Answered(p, StoreFailure)
  /\ UNCHANGED <<file, lock, op, strayed>>

(* Mutant of Intact: the chain of rows is checked but not where it ends.    *)
IntactRowsOnly(content) ==
  \A i \in 1..Len(content.rows) :
    /\ content.rows[i].sequence = i
    /\ content.rows[i].digest = SubSeq(Events(content.rows), 1, i)

(* The rows are numbered without gaps, each row's digest chains the events  *)
(* up to it, and the metadata records the end of the chain.                 *)
Intact(content) ==
  /\ \A i \in 1..Len(content.rows) :
       /\ content.rows[i].sequence = i
       /\ content.rows[i].digest = SubSeq(Events(content.rows), 1, i)
  /\ content.tail = Len(content.rows)
  /\ content.digest = Events(content.rows)

Fails(p, answer) ==
  /\ Goto(p, "failing")
  /\ txn' = [txn EXCEPT ![p].answer = answer]

ReadHistory(p) ==
  /\ pc[p] = "begun"
  /\ \/ /\ stage = "ready" /\ Intact(db)
        /\ Goto(p, "read")
        /\ txn' = [txn EXCEPT ![p].history = Events(db.rows)]
     \/ /\ stage # "ready" \/ ~Intact(db)
        /\ Fails(p, StoreFailure)
  /\ UNCHANGED <<file, lock, op, strayed, last>>

Fits(history, appends) == Len(history) + Len(appends) <= Capacity

(* The callback. Its appends are inserted one by one until one does not fit;*)
(* a throw after an append fails the transaction all the same.              *)
RunWork(p) ==
  /\ pc[p] = "read"
  /\ LET w == IF op[p] = None
              THEN [appends |-> <<>>, ok |-> TRUE, answer |-> NoAnswer]
              ELSE Work(txn[p].history, op[p])
         fits == Fits(txn[p].history, w.appends)
     IN  \/ ~fits /\ Fails(p, StoreFailure)
         \/ fits /\ ~w.ok /\ Fails(p, w.answer)
         \/ /\ fits /\ w.ok
            /\ Goto(p, "worked")
            /\ txn' = [txn EXCEPT ![p] = [history |-> txn[p].history, appends |-> w.appends,
                                          answer |-> w.answer]]
  /\ UNCHANGED <<file, lock, op, strayed, last>>

(* Mutant of Stamp: the file is compared before the transaction only.       *)
StampUnchecked(p) ==
  /\ pc[p] = "worked"
  /\ Goto(p, "stamped")
  /\ UNCHANGED <<file, lock, op, txn, strayed, last>>

(* The metadata is updated and the file compared once more.                 *)
Stamp(p) ==
  /\ pc[p] = "worked"
  /\ \/ SameFile /\ Goto(p, "stamped") /\ UNCHANGED txn
     \/ ~SameFile /\ Fails(p, StoreFailure)
  /\ UNCHANGED <<file, lock, op, strayed, last>>

(* Mutant of Written: the metadata keeps the old tail and digest.           *)
WrittenUnstamped(p) ==
  LET t     == txn[p]
      chain == t.history \o t.appends
  IN  [db EXCEPT !.rows = @ \o [i \in 1..Len(t.appends) |-> Row(Len(t.history) + i, chain)]]

(* What the transaction leaves in the file: its rows and, if it appended    *)
(* any, the new tail and digest.                                            *)
Written(p) ==
  LET t     == txn[p]
      chain == t.history \o t.appends
  IN  IF t.appends = <<>> THEN db
      ELSE [rows   |-> db.rows \o [i \in 1..Len(t.appends) |-> Row(Len(t.history) + i, chain)],
            tail   |-> Len(chain),
            digest |-> chain]

Commit(p) ==
  /\ pc[p] = "stamped"
  /\ db' = Written(p)
  /\ committed' = committed \o txn[p].appends
  /\ last' = IF op[p] = None THEN last ELSE txn[p].answer
  /\ lock' = None
  /\ Goto(p, "committed")
  /\ UNCHANGED <<stage, atPath, op, txn, strayed>>

(* A statement fails: disk full, I/O error.                                 *)
StatementFails(p) ==
  /\ pc[p] \in {"begun", "read", "worked", "stamped"}
  /\ Fails(p, StoreFailure)
  /\ UNCHANGED <<file, lock, op, strayed, last>>

Rollback(p) ==
  /\ pc[p] = "failing"
  /\ Answered(p, txn[p].answer)
  /\ lock' = None
  /\ UNCHANGED <<file, op, strayed>>

(* An exception of ROLLBACK is swallowed. The connection stays in its       *)
(* transaction, unless the constructor goes on to close it.                 *)
RollbackFails(p) ==
  /\ pc[p] = "failing"
  /\ op[p] # None
  /\ Answered(p, txn[p].answer)
  /\ UNCHANGED <<file, lock, op, strayed>>

Return(p) ==
  /\ pc[p] = "committed"
  /\ Goto(p, "idle")
  /\ txn' = [txn EXCEPT ![p] = NoTxn]
  /\ UNCHANGED <<file, lock, op, strayed, last>>

(* Mutant of Disconnect: the lock is released whoever holds it.             *)
DisconnectUnlocks(p) ==
  /\ Goto(p, "closed")
  /\ lock' = None
  /\ txn' = [txn EXCEPT ![p] = NoTxn]
  /\ UNCHANGED <<file, op, strayed, last>>

(* The connection goes away, and its transaction with it.                   *)
Disconnect(p) ==
  /\ Goto(p, "closed")
  /\ lock' = IF lock = p THEN None ELSE lock
  /\ txn' = [txn EXCEPT ![p] = NoTxn]
  /\ UNCHANGED <<file, op, strayed, last>>

Close(p) == pc[p] = "idle" /\ Disconnect(p)

Crash(p) == pc[p] # "closed" /\ Disconnect(p)

(* The file at the path is replaced by another one, or put back.            *)
Replace ==
  /\ stage # "absent"
  /\ atPath' = ~atPath
  /\ strayed' = [p \in Proc |-> ~atPath' /\ pc[p] \in BeforeComparison]
  /\ UNCHANGED <<stage, db, lock, pc, op, txn, committed, last>>

(* Rows are lost, altered or left over, or the tail is. A restored backup,  *)
(* metadata digest included, is outside what the store detects.             *)
DamagedRows ==
  {SubSeq(db.rows, 1, n) : n \in 0..Len(db.rows)}
    \cup {SubSeq(db.rows, n, Len(db.rows)) : n \in 1..Len(db.rows)}
    \cup {[db.rows EXCEPT ![i].event = e] : i \in 1..Len(db.rows), e \in Event}

Damage ==
  /\ stage = "ready"
  /\ lock = None
  /\ db = Image(committed)
  /\ \E rows \in DamagedRows, tail \in {db.tail, Len(db.rows) + 1} :
       db' = [db EXCEPT !.rows = rows, !.tail = tail]
  /\ UNCHANGED <<stage, atPath, lock, pc, op, txn, strayed, committed, last>>

(* One call's own statements, in which it never waits for anyone.           *)
Progress(p) ==
  \/ Initialize(p) \/ Begin(p) \/ BeginRefused(p) \/ ReadHistory(p) \/ RunWork(p)
  \/ Stamp(p) \/ Commit(p) \/ Rollback(p) \/ RollbackFails(p) \/ Return(p)

Next ==
  \/ \E p \in Proc :
       \/ Progress(p) \/ StatementFails(p)
       \/ Create(p) \/ Open(p) \/ Close(p) \/ Crash(p)
       \/ \E o \in Op : Call(p, o)
  \/ Replace
  \/ Damage

Spec == Init /\ [][Next]_vars

(* The calls are synchronous: a process that is in one goes on to run it.   *)
Fairness == \A p \in Proc : WF_vars(Progress(p))

FairSpec == Spec /\ Fairness
-----------------------------------------------------------------------------
(* transaction, lines 68-71: a connection that is in a transaction holds    *)
(* the lock, whatever crashed, was refused or failed to roll back before.   *)
OneTransaction == \A p \in Proc : pc[p] \in InTransaction => lock = p

(* transaction, lines 73-87: whatever damage the file suffered, a history   *)
(* that passes the checks is the committed one, and it still is when the    *)
(* callback has decided on the strength of it.                              *)
ReadsCommitted ==
  \A p \in Proc : pc[p] \in {"read", "worked", "stamped"} => txn[p].history = committed

(* transaction, lines 92-103: rows, tail and digest change together, so     *)
(* that no crash, failure or interleaving makes the file unreadable.        *)
OnlyDamageCorrupts == [][Intact(db) => Intact(db') \/ Damage]_vars

(* #assertFile, line 102: a transaction whose file is replaced at any time  *)
(* between BEGIN and the last comparison, and not put back, never commits.  *)
ReplacedNeverCommits == \A p \in Proc : pc[p] = "committed" => ~strayed[p]

(* interface PolicyHistoryStore: the calls are atomic.                      *)
Atomic ==
  INSTANCE AtomicHistory WITH log <- committed, last <- last

AtomicSpec == Atomic!Spec

(* busy_timeout=0: every call is answered, unless its process dies, even    *)
(* while a connection that failed to roll back sits on the lock.            *)
CallsReturn == \A p \in Proc : pc[p] = "called" ~> pc[p] \in {"idle", "closed"}
=============================================================================
