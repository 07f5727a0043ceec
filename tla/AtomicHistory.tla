---------------------------- MODULE AtomicHistory ----------------------------
(***************************************************************************)
(* What PolicyHistoryStore.transaction promises its callers (the interface *)
(* of scripts/review-policy/history-store.ts): one history, on which calls *)
(* take effect one at a time and entirely or not at all.                   *)
(***************************************************************************)
EXTENDS Integers, Sequences

CONSTANTS
  Op,            \* what callers may ask for
  Work(_, _),    \* Work(history, op) = [appends, ok, answer]: the callback
  Capacity,      \* events the history holds at most
  StoreFailure,  \* the answer to a call that the store fails
  NoAnswer       \* before any call has been answered

VARIABLES log, last

Init == log = <<>> /\ last = NoAnswer

(* The callback returned: what it appended stays.                           *)
Perform(op) ==
  LET w == Work(log, op)
  IN  /\ w.ok
      /\ Len(log) + Len(w.appends) <= Capacity
      /\ log' = log \o w.appends
      /\ last' = w.answer

(* The callback threw, perhaps after appending; an append that finds no     *)
(* room fails first, and the caller sees the store's answer.                *)
Refuse(op) ==
  LET w == Work(log, op)
  IN  /\ ~w.ok
      /\ Len(log) + Len(w.appends) <= Capacity
      /\ last' = w.answer
      /\ UNCHANGED log

(* The store was busy, full, replaced, damaged or unwritable.               *)
Fail == last' = StoreFailure /\ UNCHANGED log

Next == (\E op \in Op : Perform(op) \/ Refuse(op)) \/ Fail

Spec == Init /\ [][Next]_<<log, last>>
=============================================================================
