--------------------------- MODULE DurableBoundary ---------------------------
(***************************************************************************)
(* scripts/review-policy/durable-boundary.ts (class                        *)
(* DurablePolicySimulation) as it works: it keeps no projection, but       *)
(* rebuilds one from the stored history in every transaction, accepts one  *)
(* event into it, and appends the event unless the history has it.         *)
(*                                                                         *)
(* The store appears through its contract (AtomicHistory), which module    *)
(* HistoryStore implements for any number of processes.  The specification *)
(* implements PolicyLedger, from whose definitions its own are named apart. *)
(***************************************************************************)
EXTENDS BoundaryState

durableVars == <<log, reply>>

Unavailable == Refusal("STORE_UNAVAILABLE_OR_CORRUPT")

(* The projections of the prefixes of a history; None once an event of it   *)
(* is refused.                                                              *)
Projections(history) ==
  LET projection[n \in 0..Len(history)] ==
        IF n = 0 THEN NewProjection
        ELSE LET before == projection[n - 1]
             IN  IF before = None THEN None
                 ELSE IF ApplyCode(before, history[n]) # "OK" THEN None
                 ELSE Applied(before, history[n])
  IN  projection

Rebuild(history) == Projections(history)[Len(history)]

NewEvents(history, ev) == IF ev \in Range(history) THEN <<>> ELSE <<ev>>

(* The callback throws before anything is appended.                         *)
Thrown(answer) == [appends |-> <<>>, ok |-> FALSE, answer |-> answer]

(* Mutant of Decided: a check that throws keeps its observation.            *)
DecidedAlways(history, o, verdict) ==
  [appends |-> NewEvents(history, EventOf(o)), ok |-> TRUE,
   answer  |-> IF verdict.commit THEN Answer(o, verdict) ELSE Refusal(verdict.reason)]

(* The transaction ends: the event stays if the check returned, and goes if *)
(* it threw.                                                                *)
Decided(history, o, verdict) ==
  [appends |-> NewEvents(history, EventOf(o)), ok |-> verdict.commit,
   answer  |-> IF verdict.commit THEN Answer(o, verdict) ELSE Refusal(verdict.reason)]

(* Mutant of PolicyWork: the event is stored without being applied first.   *)
PolicyWorkUnapplied(history, o) ==
  LET before == Rebuild(history)
      ev     == EventOf(o)
  IN  IF before = None THEN Thrown(Unavailable)
      ELSE Decided(history, o, VerdictOf(Applied(before, ev), o))

(* #transaction, with the work of one operation as its callback.            *)
PolicyWork(history, o) ==
  LET before == Rebuild(history)
      ev     == EventOf(o)
  IN  IF before = None THEN Thrown(Unavailable)
      ELSE IF ApplyCode(before, ev) # "OK" THEN Thrown(Refusal(ApplyCode(before, ev)))
      ELSE Decided(history, o, VerdictOf(Applied(before, ev), o))

Store ==
  INSTANCE AtomicHistory
  WITH Op           <- {o \in Operation : Precheck(o) = "OK"},
       Work         <- PolicyWork,
       StoreFailure <- Unavailable,
       NoAnswer     <- Refusal("NONE"),
       last         <- reply

(* An operation that is refused before it reaches the store.                *)
RefusedEarly(o) ==
  /\ Precheck(o) # "OK"
  /\ reply' = Refusal(Precheck(o))
  /\ UNCHANGED log

DurableInit == Store!Init

DurableNext == Store!Next \/ \E o \in Operation : RefusedEarly(o)

DurableSpec == DurableInit /\ [][DurableNext]_durableVars
-----------------------------------------------------------------------------
(* #transaction, line 78: an accepted history is always accepted again,     *)
(* each event as of its own time, so that no accepted event, revocation or  *)
(* expiry can wedge the store.                                              *)
HistoryRebuilds == Rebuild(log) # None

(* DurablePolicySimulation: rebuilding the projection in every transaction  *)
(* comes to the same as keeping it up to date.                              *)
Ledger == INSTANCE PolicyLedger WITH proj <- Rebuild(log)

LedgerSpec == Ledger!Spec
=============================================================================
