--------------------------- MODULE MCHistoryStore ---------------------------
(***************************************************************************)
(* Two processes on one store of two events. The callbacks append an event *)
(* ("a" unless it is there), only look, or throw after appending.          *)
(***************************************************************************)
EXTENDS HistoryStore

MCWork(history, o) ==
  LET known == o = "a" /\ \E i \in DOMAIN history : history[i] = o
  IN  CASE o = "look"  -> [appends |-> <<>>, ok |-> TRUE, answer |-> <<"seen", history>>]
        [] o = "throw" -> [appends |-> <<"a">>, ok |-> FALSE, answer |-> <<"denied">>]
        [] OTHER       -> [appends |-> IF known THEN <<>> ELSE <<o>>, ok |-> TRUE, answer |-> <<"done", o>>]

MCStoreFailure == <<"unavailable">>

MCNoAnswer == <<>>
=============================================================================
